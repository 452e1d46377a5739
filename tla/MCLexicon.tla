----------------------------- MODULE MCLexicon -----------------------------
(***************************************************************************)
(* Small grammars and inputs for checking Sentences and Lexicon with TLC,  *)
(* and the tables of MCLexPrune for LexPrune on its own.                   *)
(***************************************************************************)
EXTENDS Sentences, MCLexPrune

CONSTANT Cases   \* what Init chooses from: [gram, mode, stdin]

VARIABLE whole   \* the input at the beginning

-----------------------------------------------------------------------------
(* Trees, named by numbers: a pair of punctuation marks; a verb; a verb in  *)
(* the passive, with "by"; an idiom of three words; an anchor that may be   *)
(* empty; and an auxiliary tree that yields nothing but its anchor.         *)

Anchors   == <<<<1, 2>>, <<3>>, <<4>>, <<6, 7, 8>>, <<9>>, <<10, 11>>>>
Terminals == <<<<>>, <<>>, <<5>>, <<>>, <<>>, <<>>>>
Label == <<"Punct1", "Punct2", "V", "V", "by", "P1", "Ad", "P2", "N", "V", "PL">>

Entry(words, pos, trees, feat) ==
  [entries |-> words, pos |-> pos, trees |-> trees, families |-> <<>>, feat |-> feat]
Verb(words, pos, families) == [Entry(words, pos, <<>>, "v") EXCEPT !.families = families]

Pref(lookup, pass, eps, max) == [synLookup |-> lookup, firstPass |-> pass, epsTrees |-> eps, maxEps |-> max]

GramOf(db, pref) ==
  [anchors |-> Anchors, terminals |-> Terminals, label |-> Label,
   yield |-> 1 .. 5, families |-> [transitive |-> <<2, 3>>], eps |-> {"PRO"}, db |-> db,
   syndefault |-> <<Entry(<<>>, <<"N">>, <<5>>, "default")>>, pref |-> pref]

Punctuation ==
  [w \in {",", "--"} |->
     <<Entry(<<w, w>>, <<"Punct1", "Punct2">>, <<1, 99>>, IF w = "," THEN "comma" ELSE "dash")>>]
    @@ [w \in {"("} |-> <<Entry(<<"(", ")">>, <<"Punct1", "Punct2">>, <<1>>, "paren")>>]

Verbs ==
  [eaten |-> <<Verb(<<"eaten">>, <<"V">>, <<"transitive", "none">>),
               Entry(<<"eaten", "up">>, <<"V", "PL">>, <<6>>, "up")>>,
   eat   |-> <<Entry(<<"eat", "up">>, <<"V", "PL">>, <<6>>, "up"),
               Entry(<<"PRO", "eat">>, <<"PL", "V">>, <<6>>, "empty")>>,
   PRO   |-> <<Entry(<<"PRO">>, <<"N">>, <<5>>, "pro"), Entry(<<"PRO">>, <<"V">>, <<2>>, "pro")>>]

Idioms == [far |-> <<Entry(<<"out", "far", "of">>, <<"P1", "Ad", "P2">>, <<4>>, "far")>>,
           as |-> <<Entry(<<"as", "as", "as">>, <<"P1", "Ad", "P2">>, <<4>>, "as")>>]

Soon == [soon |-> <<Entry(<<"as", "soon", "as">>, <<"P1", "Ad", "P2">>, <<4>>, "soon")>>]

Lines(words, n) == {Append(s, "NL") : s \in [1 .. n -> words]}

CasesOf(db, prefs, modes, inputs) ==
  {[gram |-> GramOf(db, p), mode |-> m, stdin |-> x] : p \in prefs, m \in modes, x \in inputs}

DefaultPref == Pref(TRUE, TRUE, FALSE, 20)
Both == {"lex", "nbest"}

\* Several lines, blank ones, lines longer than the buffer, no line end.
Inputs ==
  {<<"eat", "NL">> \o x : x \in UNION {[1 .. n -> {"up", "NL"}] : n \in 0 .. 7}}

AllCases ==
  CasesOf(Punctuation, {DefaultPref, Pref(TRUE, FALSE, FALSE, 20)}, Both, Lines({",", "--", "x"}, 4) \cup Lines({"(", ")", ","}, 3))
    \cup CasesOf(Verbs, {Pref(a, b, FALSE, 20) : a, b \in BOOLEAN} \cup {Pref(TRUE, TRUE, TRUE, 1)}, Both,
                 Lines({"eaten", "by", "up", "eat"}, 3))
    \cup CasesOf(Idioms, {DefaultPref}, Both, Lines({"out", "far", "of"}, 4) \cup Lines({"as", "x"}, 5))
    \cup CasesOf(Verbs, {DefaultPref}, {"lex"}, Inputs)

\* An idiom of the lexicon of English (as soon as), with its words around others.
SoonCases == CasesOf(Soon, {DefaultPref}, {"lex"}, Lines({"as", "soon", "x"}, 4))

-----------------------------------------------------------------------------
MCInit ==
  /\ SessionInit
  /\ \/ /\ Init /\ phase = "alone"
        /\ gram = <<>> /\ mode = "none" /\ stdin = <<>> /\ whole = <<>>
     \/ \E c \in Cases :
          /\ gram = c.gram /\ mode = c.mode /\ stdin = c.stdin
          /\ phase = "next" /\ whole = stdin
          /\ leaves = {} /\ table = <<>> /\ given = {} /\ pruned = {} /\ passed = {}

Alone == phase = "alone" /\ Next /\ UNCHANGED <<data, sent, entries, todo, lex, active_tbl, turn, phase, handVars>>

MCNext == (Alone \/ SessionNext) /\ UNCHANGED whole

MCSpec == MCInit /\ [][MCNext]_<<lexVars, handVars, whole>>

-----------------------------------------------------------------------------
(* What the sentence and the database ask for.                              *)

InSentence(el) == \A key \in ToSet(el.entries) : key \in gram.eps \/ key \in ToSet(sent)

EntriesFor(word) ==
  LET all == IF word \in DOMAIN gram.db THEN ToSet(gram.db[word]) ELSE {}
      own == IF gram.pref.synLookup THEN {el \in all : InSentence(el)} ELSE all
  IN IF own # {} THEN own ELSE {[el EXCEPT !.entries = <<word>>] : el \in ToSet(gram.syndefault)}

Asked == UNION {EntriesFor(word) : word \in ToSet(sent)}
           \cup (IF mode = "lex" /\ gram.pref.epsTrees
                 THEN UNION {ToSet(gram.db[e]) : e \in gram.eps \cap DOMAIN gram.db} ELSE {})

Keys(el, t) == [i \in DOMAIN gram.anchors[t] |-> lex_match(el, gram.anchors[t][i])]

\* The key of every leaf of a tree that needs a word.
LeafKeys(el, t) ==
  LET worded == {i \in DOMAIN gram.anchors[t] : Keys(el, t)[i] \notin gram.eps}
  IN [n \in {gram.anchors[t][i] : i \in worded} |-> lex_match(el, n)]
       @@ [n \in ToSet(gram.terminals[t]) |-> gram.label[n]]

\* The ways to put words at the leaves in the order of the sentence.
WaysToRead(el, t) ==
  LET key == LeafKeys(el, t)
  IN {r \in [DOMAIN key -> Words] :
        /\ \A n \in DOMAIN key : sent[r[n] + 1] = key[n]
        /\ \A m, n \in DOMAIN key : m < n => r[m] < r[n]}

Offered(el, t, r) ==
  \A n \in DOMAIN r : \E k \in DOMAIN mtx[t][r[n]] :
    LET info == mtx[t][r[n]][k]
    IN info.node = n /\ ~info.pruned /\ (mode = "lex" => info.feat = el.feat)

\* The tree is pruned as a whole for an entry that has too few words.
TooFew(t) ==
  \E el \in Asked : /\ t \in ToSet(TreesOf(el)) /\ SameKey(Keys(el, t))
                    /\ \E i \in DOMAIN Keys(el, t) :
                         sent_count(Keys(el, t)[i]) = lex_multiple_anchor_count(Keys(el, t), i)

\* Keys as lex_update_multiple_anchor expects them.
AllOrNone(keys) == ~SameKey(keys) \/ \A i, j \in DOMAIN keys : keys[i] = keys[j]

Handled(el, t) ==
  /\ ToSet(Keys(el, t)) \cap gram.eps = {}
  /\ IF mode = "nbest" THEN gram.terminals[t] = <<>> ELSE ~TooFew(t) /\ AllOrNone(Keys(el, t))

\* lex_lexicalize: "add the lexical items anchoring the trees".  Every way to
\* put words of the sentence at the anchors and terminals of a tree that an
\* entry asks for is in the matrix in the end, whatever other entries ask for
\* and the first pass prunes; through syn_get too, unless the tree has terminals.
\* Not so where a tree is pruned as a whole, where some but not all anchors have
\* the same key (ReadingsKept), or where an anchor is empty: lex_prune_check looks
\* for a word for it.
ReadingsOffered ==
  phase = "ready" =>
    \A el \in Asked : \A t \in ToSet(TreesOf(el)) :
      Handled(el, t) => \A r \in WaysToRead(el, t) : Offered(el, t, r)

\* "prune entry if terminal symbols or multiple anchors are not in same linear
\* order in the input sentence" (_prune_first_pass), and only then.
ReadingsKept ==
  phase = "ready" =>
    \A el \in Asked : \A t \in ToSet(TreesOf(el)) : \A r \in WaysToRead(el, t) : Offered(el, t, r)

\* Nothing else is in the matrix: a word stands at a leaf for an entry all of
\* whose words are in the sentence ("prune entry unless all terminal symbols or
\* anchors are part of the input sentence", _prune_syn_lookup), which has the
\* word for that leaf; and the active trees are those with a word or, if they are
\* permitted, an empty element.
NothingElse ==
  phase = "ready" =>
    /\ \A t \in Trees, i \in Words : \A k \in DOMAIN mtx[t][i] :
         LET info == mtx[t][i][k]
         IN info.pruned \/ \E el \in Asked :
              /\ t \in ToSet(TreesOf(el)) /\ (mode = "lex" => info.feat = el.feat)
              /\ info.node \in DOMAIN LeafKeys(el, t) /\ LeafKeys(el, t)[info.node] = sent[i + 1]
              /\ mode = "nbest" => info.node \notin ToSet(gram.terminals[t])
    /\ active_tbl = {t \in Trees :
         \/ \E i \in Words : \E k \in DOMAIN mtx[t][i] : ~mtx[t][i][k].pruned
         \/ gram.pref.epsTrees /\ \E k \in DOMAIN eps_tbl : eps_tbl[k].node \in ToSet(gram.anchors[t])}

\* The loop over the sentences reads on where it stopped: the words parsed, those
\* of a last line without its end, and the unread ones are those of the input.
\* The loop stops only at the end of the input or a blank line, and then nothing
\* that was allocated for a sentence or the parser is left.
NoneSkipped ==
  phase # "alone" =>
    LET read == FlattenSeq(parsed)
                  \o (IF phase \in {"next", "over", "ended"} THEN <<>> ELSE sent)
        rest == SelectSeq(dropped \o stdin, LAMBDA w : w # NL)
    IN /\ read \o rest = SelectSeq(whole, LAMBDA w : w # NL)
       /\ phase \in {"over", "ended"} /\ stdin # <<>> => dropped = <<NL>>
       /\ phase = "ended" => live = {}
=============================================================================
