------------------------------ MODULE LexPrune ------------------------------
(***************************************************************************)
(* The first pass over the lexicalised trees (src/src/parser/lex_prune.c). *)
(*                                                                         *)
(* An entry of a tree says that a word of the sentence can stand at one of *)
(* the tree's anchors or terminals.  Where a word would stand at a leaf    *)
(* further to the right than the leaf of a later word, each of the two     *)
(* leaves needs another word: lex_prune looks for it and prunes the entry  *)
(* that has to do without.  Trees do not touch one another's entries, so   *)
(* the module has one tree.                                                *)
(***************************************************************************)
EXTENDS Integers, Sequences

CONSTANT Lexicons  \* what the tree may be: [leaves, table], see Init

ASSUME LexAssumption ==
  \A x \in Lexicons : /\ x.leaves \subseteq Int
                      /\ DOMAIN x.table \subseteq Int
                      /\ \A i \in DOMAIN x.table : x.table[i] \in Seq(x.leaves)

VARIABLES
  leaves,          \* the anchors and terminals of the tree, left to right
  table,           \* the tree's row of lex->lex_mtx: a list of leaves per word
  given,           \* the entries that lex_prune_tree pruned before
  pruned,          \* the entries pruned so far
  passed           \* the pairs of entries compared

vars == <<leaves, table, given, pruned, passed>>

\* An entry: a word and a place in the word's list.
Entries == UNION {{i} \X DOMAIN table[i] : i \in DOMAIN table}

Leaf(e) == table[e[1]][e[2]]

\* The pairs of entries at different words, and the order of the loops.
Pairs == {p \in Entries \X Entries : p[1][1] < p[2][1]}

Earlier(d, e) == d[1] < e[1] \/ (d[1] = e[1] /\ d[2] < e[2])

Before(p, q) == Earlier(p[1], q[1]) \/ (p[1] = q[1] /\ Earlier(p[2], q[2]))

\* The words stand in the other order than their leaves (gram_treenode_cmp).
Crossed(p) == Leaf(p[1]) > Leaf(p[2])

\* A leaf has a word left, after or before word i.
HasLater(n, i) == \E e \in Entries \ pruned : e[1] > i /\ Leaf(e) = n
HasSooner(n, i) == \E e \in Entries \ pruned : e[1] < i /\ Leaf(e) = n

\* Fault: the two leaves are looked for on the wrong sides.
CheckedOtherSide(p) ==
  {e \in {p[2]} : ~HasSooner(Leaf(p[1]), p[2][1])}
    \cup {e \in {p[1]} : ~HasLater(Leaf(p[2]), p[1][1])}

\* What lex_prune_check prunes.  Its second search is to the left of the pair
\* and cannot meet the entry that the first one has just pruned.
Checked(p) ==
  {e \in {p[2]} : ~HasLater(Leaf(p[1]), p[2][1])}
    \cup {e \in {p[1]} : ~HasSooner(Leaf(p[2]), p[1][1])}

Init ==
  /\ \E x \in Lexicons : leaves = x.leaves /\ table = x.table
  /\ given \in SUBSET Entries
  /\ pruned = given
  /\ passed = {}

\* The pair comes next.
Turn(p) ==
  /\ p \in Pairs \ passed
  /\ \A q \in Pairs \ passed : p = q \/ Before(p, q)

\* Fault: a pair is passed over when one of its entries is pruned.
CompareEither(p) ==
  /\ Turn(p)
  /\ passed' = passed \cup {p}
  /\ pruned' = IF {p[1], p[2]} \cap pruned # {} \/ ~Crossed(p) THEN pruned
               ELSE pruned \cup Checked(p)
  /\ UNCHANGED <<leaves, table, given>>

\* One round of the innermost loop of lex_prune.
Compare(p) ==
  /\ Turn(p)
  /\ passed' = passed \cup {p}
  /\ pruned' = IF {p[1], p[2]} \subseteq pruned \/ ~Crossed(p) THEN pruned
               ELSE pruned \cup Checked(p)
  /\ UNCHANGED <<leaves, table, given>>

Next == \E p \in Pairs : Compare(p)

Spec == Init /\ [][Next]_vars

-----------------------------------------------------------------------------
\* The flags stand on entries, the loops run over pairs of entries, and no
\* pass takes a flag back that lex_prune_tree has set.
TypeOK ==
  /\ \A i \in DOMAIN table : table[i] \in Seq(leaves)
  /\ given \subseteq pruned /\ pruned \subseteq Entries
  /\ passed \subseteq Pairs

\* The ways to put a word at every leaf in the order of the sentence.
Readings ==
  {r \in [leaves -> Entries \ given] :
     /\ \A n \in leaves : Leaf(r[n]) = n
     /\ \A m, n \in leaves : m < n => r[m][1] < r[n][1]}

\* "prune entry if terminal symbols or multiple anchors are not in same linear
\* order in the input sentence" (_prune_first_pass), and only then: no entry
\* is pruned that the parser could use, whatever has been pruned before.
ReadingsSurvive == \A r \in Readings : \A n \in leaves : r[n] \notin pruned

TwoLeaves == \E m, n \in leaves : leaves = {m, n}

\* lex_prune_check would prune nothing more.
Settled(p) ==
  Crossed(p) /\ ~({p[1], p[2]} \subseteq pruned) => Checked(p) \subseteq pruned

\* In a tree with two anchors one pass is enough, in spite of the order in
\* which the entries that depend on one another are pruned: another pass would
\* prune nothing.  With three it is not.
OnePassEnough ==
  passed = Pairs /\ TwoLeaves => \A p \in Pairs : Settled(p)
=============================================================================
