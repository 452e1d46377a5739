----------------------------- MODULE Sentences -----------------------------
(***************************************************************************)
(* The loop over the sentences of the input (parser_main of                *)
(* src/src/parser/parser.c, hand_next_sent and hand_delete of              *)
(* hparse_hand.c).                                                         *)
(*                                                                         *)
(* The input is a sequence of words and line ends.  fgets takes up to a    *)
(* line end, but at most MaxSentlen of them: the rest of a longer line is  *)
(* the next sentence.                                                      *)
(***************************************************************************)
EXTENDS Lexicon

CONSTANTS NL,           \* a line end
          MaxSentlen    \* what the buffer of hand_next_sent holds

VARIABLES
  stdin,           \* what has not been read
  in_sent,
  live,            \* what is allocated for the sentence and for the parser
  parsed,          \* the sentences handed to the parser so far
  dropped          \* what the last call read and threw away

handVars == <<stdin, in_sent, live, parsed, dropped>>
lexVars  == <<gram, mode, sent, entries, todo, mtx, eps_tbl, active_tbl, turn, phase, first>>

\* What fgets returns, and whether it met the end of the input.
fgets ==
  LET ends == {i \in DOMAIN stdin : stdin[i] = NL}
      upTo == IF ends = {} THEN Len(stdin) ELSE CHOOSE i \in ends : \A j \in ends : i <= j
  IN SubSeq(stdin, 1, IF upTo < MaxSentlen THEN upTo ELSE MaxSentlen)

\* Fault: a full buffer is taken for the end of the input.
FeofFull == NL \notin ToSet(fgets)

feof == Len(fgets) < MaxSentlen /\ NL \notin ToSet(fgets)

sent_new == SelectSeq(fgets, LAMBDA word : word # NL)

\* Fault: the tables of roots of the last sentence stay allocated.
KeptTables == {"sent", "lex"}

\* What hand_next_sent gives back of the last sentence.
OfSentence == {"sent", "lex", "init_rootnode_tbl", "aux_rootnode_tbl"}

\* No sentence was read: sent_new has returned 0, or fgets reports the end,
\* after a last line that lacks its line end too.  parser_main leaves the loop.
NoSentence ==
  /\ phase = "next"
  /\ feof \/ sent_new = <<>>
  /\ stdin' = SubSeq(stdin, Len(fgets) + 1, Len(stdin))
  /\ dropped' = fgets
  /\ live' = live \ (IF in_sent THEN OfSentence ELSE {})
  /\ in_sent' = FALSE /\ phase' = "over"
  /\ UNCHANGED <<parsed, gram, mode, sent, entries, todo, mtx, eps_tbl, active_tbl, turn, first>>

hand_next_sent ==
  /\ phase = "next"
  /\ ~feof /\ sent_new # <<>>
  /\ stdin' = SubSeq(stdin, Len(fgets) + 1, Len(stdin))
  /\ sent' = sent_new
  /\ live' = (live \ (IF in_sent THEN OfSentence ELSE {}))
               \cup {"sent", "lex", "init_rootnode_tbl", "aux_rootnode_tbl"}
  /\ in_sent' = TRUE
  /\ entries' = <<>> /\ phase' = "lookup"
  /\ UNCHANGED <<parsed, dropped, gram, mode, todo, mtx, eps_tbl, active_tbl, turn, first>>

\* parser_main: the sentence is parsed (module HParse), printed and cleaned up.
parse ==
  /\ phase = "ready"
  /\ parsed' = Append(parsed, sent)
  /\ phase' = "next"
  /\ UNCHANGED <<stdin, in_sent, live, dropped, gram, mode, sent, entries, todo, mtx, eps_tbl, active_tbl, turn, first>>

hand_delete ==
  /\ phase = "over"
  /\ live' = live \ {"hand"}
  /\ phase' = "ended"
  /\ UNCHANGED <<stdin, in_sent, parsed, dropped, gram, mode, sent, entries, todo, mtx, eps_tbl, active_tbl, turn, first>>

SessionInit ==
  /\ sent = <<>> /\ entries = <<>> /\ todo = <<>> /\ mtx = <<>> /\ eps_tbl = <<>> /\ active_tbl = {} /\ turn = {}
  /\ in_sent = FALSE /\ live = {"hand"} /\ parsed = <<>> /\ dropped = <<>>

SessionNext ==
  \/ NoSentence \/ hand_next_sent \/ parse \/ hand_delete
  \/ Lexicalising /\ UNCHANGED handVars
=============================================================================
