------------------------------ MODULE Lexicon ------------------------------
(***************************************************************************)
(* From a sentence to its lexicalised trees: the lookup of its words       *)
(* (src/src/parser/syn_entry.c), the matrix of anchors and terminals       *)
(* (lex.c), the first pass over it (lex_prune.c, module LexPrune) and the  *)
(* active trees (lex_active.c).                                            *)
(*                                                                         *)
(* gram has what is read of the grammar: for each tree its anchors and     *)
(* terminals in order, as nodes numbered from left to right; the label of  *)
(* a node; the families; the empty elements; the syntactic database db, by *)
(* words, each with a list of entries; the defaults; and the preferences.  *)
(* An entry of the database pairs words and parts of speech, "One entry    *)
(* per anchor", and names trees or families.                               *)
(*                                                                         *)
(* The parser looks the words up itself (mode "lex") or reads what syn_get *)
(* printed, a line for each word and tree (mode "nbest").                  *)
(***************************************************************************)
EXTENDS LexPrune, FiniteSets, SequencesExt

VARIABLES
  gram, mode,
  sent,            \* the words of the sentence; their indices begin with 0
  entries,         \* the syn_entry list: [key, els]
  todo,            \* the pairs of an entry and a tree, or the lines, still to come
  mtx,             \* lex_mtx: per tree and word a list of leaves
  eps_tbl,         \* the leaves with empty elements
  active_tbl,
  turn,            \* the trees still to be gone through by lex_prune
  phase

data  == <<gram, mode>>
lex   == <<mtx, eps_tbl>>
first == <<leaves, table, given, pruned, passed>>

Trees == DOMAIN gram.anchors
Words == 0 .. Len(sent) - 1

-----------------------------------------------------------------------------
(* sent.c                                                                   *)

sent_member(key) == key \in ToSet(sent)
sent_count(key)  == Cardinality({i \in DOMAIN sent : sent[i] = key})

\* Fault: the word that was found is not counted when the search goes on.
SentIndexUncounted(c, key) ==
  LET hits == {i \in c.w .. Len(sent) : sent[i] = key}
      i    == CHOOSE j \in hits : \A h \in hits : j <= h
  IN IF c.w = 0 \/ hits = {} THEN [word |-> -1, w |-> 0, windex |-> c.windex]
     ELSE [word |-> c.windex + i - c.w, w |-> IF i = Len(sent) THEN 0 ELSE i + 1, windex |-> c.windex + i - c.w]

\* The next word like key after the cursor, which is kept from call to call: the
\* word to go on with (0 for none) and its index.
sent_index(c, key) ==
  LET hits == {i \in c.w .. Len(sent) : sent[i] = key}
      i    == CHOOSE j \in hits : \A h \in hits : j <= h
  IN IF c.w = 0 \/ hits = {} THEN [word |-> -1, w |-> 0, windex |-> c.windex]
     ELSE [word |-> c.windex + i - c.w, w |-> IF i = Len(sent) THEN 0 ELSE i + 1, windex |-> c.windex + i - c.w + 1]

RECURSIVE IndexesFrom(_, _)
IndexesFrom(c, key) ==
  LET found == sent_index(c, key) IN IF found.word = -1 THEN <<>> ELSE <<found.word>> \o IndexesFrom(found, key)

Indexes(key) == IndexesFrom([w |-> 1, windex |-> 0], key)

-----------------------------------------------------------------------------
(* syn_entry.c                                                              *)

syn_db(word) == IF word \in DOMAIN gram.db THEN gram.db[word] ELSE <<>>

\* Fault: only the last word of an entry counts.
SynEntryPruneLast(els) ==
  SelectSeq(els, LAMBDA el : Last(el.entries) \in gram.eps \/ sent_member(Last(el.entries)))

\* The entries of which every word but an empty element is in the sentence.
syn_entry_prune(els) ==
  SelectSeq(els, LAMBDA el : \A key \in ToSet(el.entries) : key \in gram.eps \/ sent_member(key))

Defaults(word) ==
  [k \in DOMAIN gram.syndefault |-> [gram.syndefault[k] EXCEPT !.entries = <<word>>]]

\* One round of syn_entry_new; words that are there already are passed over.
syn_entry_new ==
  LET word  == sent[CHOOSE i \in DOMAIN sent : /\ \A e \in ToSet(entries) : e.key # sent[i]
                                               /\ \A j \in 1 .. i - 1 : \E e \in ToSet(entries) : e.key = sent[j]]
      found == IF gram.pref.synLookup THEN syn_entry_prune(syn_db(word)) ELSE syn_db(word)
  IN /\ phase = "lookup"
     /\ Cardinality(ToSet(sent)) > Len(entries)
     /\ entries' = Append(entries, [key |-> word, els |-> IF found = <<>> THEN Defaults(word) ELSE found])
     /\ UNCHANGED <<data, sent, todo, lex, active_tbl, turn, phase, first>>

\* The trees of an entry; unknown names are passed over with a warning.
TreesOf(el) ==
  SelectSeq(el.trees, LAMBDA t : t \in Trees)
    \o FlattenSeq([k \in DOMAIN el.families |->
         IF el.families[k] \in DOMAIN gram.families THEN gram.families[el.families[k]] ELSE <<>>])

Pairings(list) ==
  FlattenSeq([k \in DOMAIN list |->
    FlattenSeq([j \in DOMAIN list[k].els |->
      LET el == list[k].els[j] IN [n \in DOMAIN TreesOf(el) |-> <<el, TreesOf(el)[n]>>]])])

\* What syn_get prints for a word: a line for each place of the word in an entry
\* and each tree.  Unknown families end an entry, unknown trees are printed.
LinesOfWord(i) ==
  LET ForEntry(el) ==
        LET known == SelectInSeq(el.families, LAMBDA f : f \notin DOMAIN gram.families)
            upTo  == IF known = 0 THEN Len(el.families) ELSE known - 1
            all   == el.trees \o FlattenSeq([k \in 1 .. upTo |-> gram.families[el.families[k]]])
            ForKey(n) == IF el.entries[n] # sent[i + 1] THEN <<>>
                         ELSE [k \in DOMAIN all |-> [idx |-> i, anchor |-> el.pos[n], tree |-> all[k]]]
        IN FlattenSeq([n \in DOMAIN el.entries |-> ForKey(n)])
  IN FlattenSeq([k \in DOMAIN entries |->
       FlattenSeq([j \in DOMAIN entries[k].els |-> ForEntry(entries[k].els[j])])])

syn_entry_pretty_print == FlattenSeq([i \in 1 .. Len(sent) |-> LinesOfWord(i - 1)])

-----------------------------------------------------------------------------
(* lex.c                                                                    *)

EmptyMatrix == [t \in Trees |-> [i \in Words |-> <<>>]]

Put(l, t, i, node, feat) ==
  [l EXCEPT !.mtx[t][i] = <<[node |-> node, feat |-> feat, pruned |-> FALSE]>> \o @]

lex_prune_tree(l, t) ==
  [l EXCEPT !.mtx[t] = [i \in Words |-> [k \in DOMAIN l.mtx[t][i] |-> [l.mtx[t][i][k] EXCEPT !.pruned = TRUE]]]]

\* The word of an entry for an anchor, whose label has its subscript
\* (_anchors_match_syn_subscript).
lex_match(el, node) == el.entries[SelectInSeq(el.pos, LAMBDA p : p = gram.label[node])]

\* l with what lex_update adds; it has found something unless key is no empty
\* element and not in the sentence.
lex_update(l, el, t, node, key) ==
  IF key \in gram.eps
  THEN IF Len(l.eps) >= gram.pref.maxEps \/ t \notin gram.yield THEN l
       ELSE [l EXCEPT !.eps = Append(@, [node |-> node, feat |-> el.feat])]
  ELSE FoldLeft(LAMBDA m, i : Put(m, t, i, node, el.feat), l, Indexes(key))

Finds(key) == key \in gram.eps \/ sent_member(key)

SameKey(keys) == \E i, j \in DOMAIN keys : i # j /\ keys[i] = keys[j]

\* How many anchors after the i-th have its key.
lex_multiple_anchor_count(keys, i) == Cardinality({j \in i + 1 .. Len(keys) : keys[j] = keys[i]})

\* Fault: the last word is left to a later anchor even where there is none.
LimitLess(keys, i) == sent_count(keys[i]) - lex_multiple_anchor_count(keys, i) - (IF i > 1 THEN 1 ELSE 0)

\* The words kept for later anchors are left out at the end of the list.
Limit(keys, i) == sent_count(keys[i]) - lex_multiple_anchor_count(keys, i)

\* The i-th anchor gets the words from the i-th to the limit; where there is
\* none for it the tree is pruned and the loop left.  A limit below zero wraps.
lex_update_multiple_anchor(l, el, keys, t) ==
  LET Give(m, i) ==
        IF m.stop THEN m
        ELSE IF Limit(keys, i) = 0 THEN [lex_prune_tree(m, t) EXCEPT !.stop = TRUE]
        ELSE IF Limit(keys, i) < 0 THEN [m EXCEPT !.stop = TRUE, !.over = TRUE]
        ELSE LET words == SubSeq(Indexes(keys[i]), i, Limit(keys, i))
             IN FoldLeft(LAMBDA n, w : Put(n, t, w, gram.anchors[t][i], el.feat), m, words)
  IN [FoldLeft(Give, l, [i \in DOMAIN keys |-> i]) EXCEPT !.stop = FALSE]

WithAnchors(l, el, t) ==
  LET keys == [i \in DOMAIN gram.anchors[t] |-> lex_match(el, gram.anchors[t][i])]
      Update(m, i) == lex_update(m, el, t, gram.anchors[t][i], keys[i])
  IN IF SameKey(keys) THEN lex_update_multiple_anchor(l, el, keys, t)
     ELSE FoldLeft(Update, l, [i \in DOMAIN keys |-> i])

WithTerminals(l, el, t) ==
  LET Update(m, node) ==
        IF Finds(gram.label[node]) THEN lex_update(m, el, t, node, gram.label[node])
        ELSE IF gram.pref.firstPass THEN lex_prune_tree(m, t) ELSE m
  IN FoldLeft(Update, l, gram.terminals[t])

\* Past the end of the list of words what is put into the matrix is anything.
lex_get_terminals ==
  LET el == todo[1][1]
      t  == todo[1][2]
      l  == WithTerminals(WithAnchors([mtx |-> mtx, eps |-> eps_tbl, stop |-> FALSE, over |-> FALSE], el, t), el, t)
  IN /\ phase \in {"lexicalise", "epsilons"} /\ todo # <<>>
     /\ mtx' = l.mtx /\ eps_tbl' = l.eps
     /\ IF l.over THEN phase' = "overrun" /\ todo' = <<>> ELSE todo' = Tail(todo) /\ UNCHANGED phase
     /\ UNCHANGED <<data, sent, entries, active_tbl, turn, first>>

\* lex_new has the entries of all words.
lex_new ==
  /\ phase = "lookup" /\ mode = "lex"
  /\ Cardinality(ToSet(sent)) = Len(entries)
  /\ mtx' = EmptyMatrix /\ eps_tbl' = <<>>
  /\ todo' = Pairings(entries)
  /\ phase' = "lexicalise"
  /\ UNCHANGED <<data, sent, entries, active_tbl, turn, first>>

\* With _gram_allow_eps_trees: the entries of the empty elements.
syn_entry_epsilons ==
  /\ phase = "lexicalise" /\ todo = <<>> /\ gram.pref.epsTrees
  /\ entries' = LET keys == SetToSeq(gram.eps) IN [k \in DOMAIN keys |-> [key |-> keys[k], els |-> syn_db(keys[k])]]
  /\ todo' = Pairings(entries')
  /\ phase' = "epsilons"
  /\ UNCHANGED <<data, sent, lex, active_tbl, turn, first>>

\* lex_nbest_new, called with the line that has the sentence.
lex_nbest_new ==
  /\ phase = "lookup" /\ mode = "nbest"
  /\ Cardinality(ToSet(sent)) = Len(entries)
  /\ mtx' = EmptyMatrix /\ eps_tbl' = <<>>
  /\ todo' = syn_entry_pretty_print
  /\ phase' = "nbest"
  /\ UNCHANGED <<data, sent, entries, active_tbl, turn, first>>

\* Fault: the anchor is looked for by its place, not by its label.
NodeFirst(t, anchor) == IF t \notin Trees THEN 0 ELSE 1

\* The place of the anchor that a line names, or 0.
AnchorNamed(t, anchor) ==
  IF t \notin Trees THEN 0 ELSE SelectInSeq(gram.anchors[t], LAMBDA n : gram.label[n] = anchor)

lex_nbest ==
  LET line == todo[1]
      k    == AnchorNamed(line.tree, line.anchor)
  IN /\ phase = "nbest" /\ todo # <<>>
     /\ mtx' = IF k = 0 THEN mtx
               ELSE Put([mtx |-> mtx], line.tree, line.idx, gram.anchors[line.tree][k], "none").mtx
     /\ todo' = Tail(todo)
     /\ UNCHANGED <<data, sent, entries, eps_tbl, active_tbl, turn, phase, first>>

-----------------------------------------------------------------------------
(* lex_prune, one tree after another: the loops compare entries of the same *)
(* tree only.                                                               *)

lex_prune ==
  /\ \/ phase = "lexicalise" /\ ~gram.pref.epsTrees
     \/ phase \in {"epsilons", "nbest"}
  /\ todo = <<>>
  /\ turn' = IF gram.pref.firstPass THEN Trees ELSE {}
  /\ phase' = "prune"
  /\ UNCHANGED <<data, sent, entries, todo, lex, active_tbl, first>>

Load ==
  /\ phase = "prune" /\ turn # {}
  /\ LET t == CHOOSE u \in turn : \A v \in turn : u <= v
     IN /\ leaves' = ToSet(gram.anchors[t]) \cup ToSet(gram.terminals[t])
        /\ table' = [i \in Words |-> [k \in DOMAIN mtx[t][i] |-> mtx[t][i][k].node]]
        /\ given' = UNION {{<<i, k>> : k \in {j \in DOMAIN mtx[t][i] : mtx[t][i][j].pruned}} : i \in Words}
        /\ pruned' = given' /\ passed' = {}
  /\ phase' = "pruning"
  /\ UNCHANGED <<data, sent, entries, todo, lex, active_tbl, turn>>

ComparePair ==
  /\ phase = "pruning"
  /\ \E p \in Pairs : Compare(p)
  /\ UNCHANGED <<data, sent, entries, todo, lex, active_tbl, turn, phase>>

Store ==
  /\ phase = "pruning" /\ passed = Pairs
  /\ LET t == CHOOSE u \in turn : \A v \in turn : u <= v
     IN /\ mtx' = [mtx EXCEPT ![t] =
              [i \in Words |-> [k \in DOMAIN mtx[t][i] |-> [mtx[t][i][k] EXCEPT !.pruned = <<i, k>> \in pruned]]]]
        /\ turn' = turn \ {t}
  /\ phase' = "prune"
  /\ leaves' = {} /\ table' = <<>> /\ given' = {} /\ pruned' = {} /\ passed' = {}
  /\ UNCHANGED <<data, sent, entries, todo, eps_tbl, active_tbl>>

lex_info_all_pruned(infos) == \A k \in DOMAIN infos : infos[k].pruned

TreeOf(node) == CHOOSE t \in Trees : node \in ToSet(gram.anchors[t]) \cup ToSet(gram.terminals[t])

lex_active ==
  /\ phase = "prune" /\ turn = {}
  /\ active_tbl' = {t \in Trees : \E i \in Words : ~lex_info_all_pruned(mtx[t][i])}
                     \cup (IF gram.pref.epsTrees THEN {TreeOf(eps_tbl[k].node) : k \in DOMAIN eps_tbl} ELSE {})
  /\ phase' = "ready"
  /\ UNCHANGED <<data, sent, entries, todo, lex, turn, first>>

Lexicalising ==
  \/ syn_entry_new \/ lex_new \/ lex_get_terminals \/ syn_entry_epsilons \/ lex_nbest_new \/ lex_nbest
  \/ lex_prune \/ Load \/ ComparePair \/ Store \/ lex_active
=============================================================================
