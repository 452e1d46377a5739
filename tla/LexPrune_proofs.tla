--------------------------- MODULE LexPrune_proofs ---------------------------
(***************************************************************************)
(* Proofs that the pruning pass is safe for every tree and sentence, and   *)
(* complete for trees with two leaves.                                     *)
(***************************************************************************)
EXTENDS LexPrune, TLAPS

\* What the pass keeps: besides the types, what it has compared stays settled
\* in a tree with two leaves.
Kept ==
  /\ TypeOK
  /\ leaves \subseteq Int /\ DOMAIN table \subseteq Int
  /\ ReadingsSurvive
  /\ TwoLeaves => \A p \in passed : Settled(p)

\* An entry is a word and a place in its list, at a leaf of the tree.
LEMMA EntryOf ==
  ASSUME TypeOK, NEW e \in Entries
  PROVE  e[1] \in DOMAIN table /\ e[2] \in DOMAIN table[e[1]] /\ Leaf(e) \in leaves
<1>1. PICK i \in DOMAIN table : e \in {i} \X DOMAIN table[i]
  BY DEF Entries
<1>2. e[1] = i /\ e[2] \in DOMAIN table[i]
  BY <1>1
<1>3. table[i] \in Seq(leaves)
  BY DEF TypeOK
<1>4. table[i][e[2]] \in leaves
  BY <1>2, <1>3
<1> QED
  BY <1>2, <1>4 DEF Leaf

\* An entry that a reading uses is not pruned for want of another word: the
\* reading has one.
LEMMA ReadingNotChecked ==
  ASSUME Kept, NEW p \in Pairs, Crossed(p), NEW r \in Readings, NEW n \in leaves
  PROVE  r[n] \notin Checked(p)
<1> USE DEF Kept
<1>1. /\ p[1] \in Entries /\ p[2] \in Entries
      /\ Leaf(p[1]) \in leaves /\ Leaf(p[2]) \in leaves
  BY EntryOf DEF Pairs
<1>2. \A m \in leaves : r[m] \in Entries \ pruned /\ Leaf(r[m]) = m
  BY DEF Readings, ReadingsSurvive
<1>3. \A k, m \in leaves : k < m => r[k][1] < r[m][1]
  BY DEF Readings
<1>4. ASSUME r[n] = p[2]
      PROVE  HasLater(Leaf(p[1]), p[2][1])
  <2> DEFINE m == Leaf(p[1])
  <2>1. n = Leaf(p[2]) /\ n < m
    BY <1>1, <1>2, <1>4 DEF Crossed
  <2>2. r[n][1] < r[m][1]
    BY <1>1, <1>3, <2>1
  <2>3. r[m] \in Entries \ pruned /\ Leaf(r[m]) = m
    BY <1>1, <1>2
  <2>4. r[m][1] > p[2][1]
    BY <1>4, <2>2
  <2> QED
    BY <2>3, <2>4 DEF HasLater
<1>5. ASSUME r[n] = p[1]
      PROVE  HasSooner(Leaf(p[2]), p[1][1])
  <2> DEFINE m == Leaf(p[2])
  <2>1. n = Leaf(p[1]) /\ m < n
    BY <1>1, <1>2, <1>5 DEF Crossed
  <2>2. r[m][1] < r[n][1]
    BY <1>1, <1>3, <2>1
  <2>3. r[m] \in Entries \ pruned /\ Leaf(r[m]) = m
    BY <1>1, <1>2
  <2> QED
    BY <1>5, <2>2, <2>3 DEF HasSooner
<1> QED
  BY <1>4, <1>5 DEF Checked

\* In a tree with two leaves, the crossed pairs have the same leaves on the
\* same sides.
LEMMA TwoLeavesCross ==
  ASSUME Kept, TwoLeaves, NEW p \in Pairs, NEW q \in Pairs, Crossed(p), Crossed(q)
  PROVE  Leaf(p[1]) = Leaf(q[1]) /\ Leaf(p[2]) = Leaf(q[2]) /\ Leaf(p[1]) # Leaf(p[2])
<1>1. \A e \in {p[1], p[2], q[1], q[2]} : Leaf(e) \in leaves
  BY EntryOf DEF Kept, Pairs
<1>2. PICK m, n \in leaves : leaves = {m, n}
  BY DEF TwoLeaves
<1>3. m \in Int /\ n \in Int
  BY DEF Kept
<1> QED
  BY <1>1, <1>2, <1>3 DEF Crossed

\* The initial states: nothing has been compared, and what is pruned was given.
LEMMA InitKept == Init => Kept
<1> SUFFICES ASSUME Init PROVE Kept
  OBVIOUS
<1>1. PICK x \in Lexicons : leaves = x.leaves /\ table = x.table
  BY DEF Init
<1>2. /\ leaves \subseteq Int /\ DOMAIN table \subseteq Int
      /\ \A i \in DOMAIN table : table[i] \in Seq(leaves)
  BY <1>1, LexAssumption
<1>3. TypeOK
  BY <1>2 DEF Init, TypeOK
<1>4. \A r \in Readings : \A n \in leaves : r[n] \notin pruned
  BY DEF Init, Readings
<1> QED
  BY <1>2, <1>3, <1>4 DEF Kept, Init, ReadingsSurvive

\* A pair that compares entries prunes nothing that a reading uses.
LEMMA CompareSafe ==
  ASSUME Kept, NEW p \in Pairs, Compare(p)
  PROVE  TypeOK' /\ ReadingsSurvive'
<1> USE DEF Kept
<1>1. UNCHANGED <<leaves, table, given, Entries, Pairs, Readings>>
  BY DEF Compare, Entries, Pairs, Readings, Leaf
<1>2. Checked(p) \subseteq {p[1], p[2]}
  BY DEF Checked
<1>3. p[1] \in Entries /\ p[2] \in Entries
  BY DEF Pairs
<1>4. pruned \subseteq pruned' /\ pruned' \subseteq pruned \cup {p[1], p[2]}
  BY <1>2 DEF Compare
<1>5. TypeOK'
  BY <1>1, <1>3, <1>4 DEF TypeOK, Compare
<1>6. ASSUME NEW r \in Readings, NEW n \in leaves
      PROVE  r[n] \notin pruned'
  <2>1. r[n] \notin pruned
    BY <1>6 DEF ReadingsSurvive
  <2>2. Crossed(p) => r[n] \notin Checked(p)
    BY <1>6, ReadingNotChecked
  <2> QED
    BY <2>1, <2>2 DEF Compare
<1>7. ReadingsSurvive'
  BY <1>1, <1>6 DEF ReadingsSurvive
<1> QED
  BY <1>5, <1>7

\* With two leaves, pruning an entry unsettles no pair compared before: the
\* entry that is pruned was not the word another unpruned entry needs, since
\* that entry would have been the word it lacked itself.
LEMMA StaysSettled ==
  ASSUME Kept, TwoLeaves, NEW q \in Pairs, Compare(q), Crossed(q),
         ~({q[1], q[2]} \subseteq pruned),
         NEW p \in Pairs, p = q \/ Settled(p)
  PROVE  Settled(p)'
<1> USE DEF Kept
<1>1. UNCHANGED <<leaves, table, Entries>> /\ pruned' = pruned \cup Checked(q)
  BY DEF Compare, Entries
<1>2. UNCHANGED <<Leaf(p[1]), Leaf(p[2]), Crossed(p)>>
  BY <1>1 DEF Leaf, Crossed
<1>3. SUFFICES ASSUME Crossed(p), ~({p[1], p[2]} \subseteq pruned')
               PROVE  Checked(p)' \subseteq pruned'
  BY <1>2 DEF Settled
<1>4. /\ Leaf(p[1]) = Leaf(q[1]) /\ Leaf(p[2]) = Leaf(q[2])
      /\ Leaf(p[1]) # Leaf(p[2])
  BY <1>3, TwoLeavesCross
<1>5. \A d \in Entries : d[1] \in Int
  BY EntryOf
<1>6. /\ p[1] \in Entries /\ p[2] \in Entries /\ p[1][1] < p[2][1]
      /\ q[1] \in Entries /\ q[2] \in Entries /\ q[1][1] < q[2][1]
  BY DEF Pairs
<1>7. Checked(p) \subseteq pruned'
  BY <1>1, <1>3 DEF Settled
<1>8. ASSUME p[2] \notin pruned'
      PROVE  HasLater(Leaf(p[1]), p[2][1])'
  <2>1. HasLater(Leaf(p[1]), p[2][1])
    BY <1>7, <1>8 DEF Checked
  <2>2. PICK x \in Entries \ pruned : x[1] > p[2][1] /\ Leaf(x) = Leaf(p[1])
    BY <2>1 DEF HasLater
  <2>3. ASSUME x \in Checked(q) PROVE FALSE
    <3>1. x = q[1] /\ ~HasSooner(Leaf(q[2]), q[1][1])
      BY <1>4, <2>2, <2>3 DEF Checked
    <3>2. p[2] \in Entries \ pruned /\ p[2][1] < x[1]
      BY <1>1, <1>5, <1>6, <1>8, <2>2
    <3> QED
      BY <1>4, <3>1, <3>2 DEF HasSooner
  <2>4. x \in Entries' \ pruned' /\ Leaf(x)' = Leaf(p[1])
    BY <1>1, <2>2, <2>3 DEF Leaf
  <2> QED
    BY <1>2, <2>2, <2>4 DEF HasLater
<1>9. ASSUME p[1] \notin pruned'
      PROVE  HasSooner(Leaf(p[2]), p[1][1])'
  <2>1. HasSooner(Leaf(p[2]), p[1][1])
    BY <1>7, <1>9 DEF Checked
  <2>2. PICK x \in Entries \ pruned : x[1] < p[1][1] /\ Leaf(x) = Leaf(p[2])
    BY <2>1 DEF HasSooner
  <2>3. ASSUME x \in Checked(q) PROVE FALSE
    <3>1. x = q[2] /\ ~HasLater(Leaf(q[1]), q[2][1])
      BY <1>4, <2>2, <2>3 DEF Checked
    <3>2. p[1] \in Entries \ pruned /\ p[1][1] > x[1]
      BY <1>1, <1>5, <1>6, <1>9, <2>2
    <3> QED
      BY <1>4, <3>1, <3>2 DEF HasLater
  <2>4. x \in Entries' \ pruned' /\ Leaf(x)' = Leaf(p[2])
    BY <1>1, <2>2, <2>3 DEF Leaf
  <2> QED
    BY <1>2, <2>2, <2>4 DEF HasSooner
<1> QED
  BY <1>8, <1>9 DEF Checked

\* A round of the loops keeps the invariant.
LEMMA CompareKeeps ==
  ASSUME Kept, NEW q \in Pairs, Compare(q)
  PROVE  Kept'
<1>1. TypeOK' /\ ReadingsSurvive'
  BY CompareSafe
<1>2. UNCHANGED <<leaves, table, TwoLeaves>> /\ passed' = passed \cup {q}
  BY DEF Compare, TwoLeaves
<1>3. ASSUME TwoLeaves, NEW p \in passed'
      PROVE  Settled(p)'
  <2>1. p \in Pairs /\ (p = q \/ Settled(p))
    BY <1>2, <1>3 DEF Kept, TypeOK
  <2>2. CASE Crossed(q) /\ ~({q[1], q[2]} \subseteq pruned)
    BY <1>3, <2>1, <2>2, StaysSettled
  <2>3. CASE ~Crossed(q) \/ {q[1], q[2]} \subseteq pruned
    <3>1. UNCHANGED <<leaves, table, pruned>>
      BY <2>3 DEF Compare
    <3>2. Settled(p)
      BY <2>1, <2>3 DEF Settled
    <3> QED
      BY <3>1, <3>2 DEF Settled, Crossed, Leaf, Checked, HasLater, HasSooner, Entries
  <2> QED
    BY <2>2, <2>3
<1> QED
  BY <1>1, <1>2, <1>3 DEF Kept

LEMMA StepKept == Kept /\ [Next]_vars => Kept'
<1> SUFFICES ASSUME Kept, [Next]_vars PROVE Kept'
  OBVIOUS
<1>1. CASE Next
  BY <1>1, CompareKeeps DEF Next
<1>2. CASE UNCHANGED vars
  <2>1. UNCHANGED <<leaves, table, given, pruned, passed>>
    BY <1>2 DEF vars
  <2>2. UNCHANGED <<Entries, Pairs, Readings, TwoLeaves>>
    BY <2>1 DEF Entries, Pairs, Readings, TwoLeaves, Leaf
  <2>3. TypeOK' /\ ReadingsSurvive'
    BY <2>1, <2>2 DEF Kept, TypeOK, ReadingsSurvive
  <2>4. ASSUME NEW p \in passed, Settled(p) PROVE Settled(p)'
    BY <2>1, <2>4 DEF Settled, Crossed, Leaf, Checked, HasLater, HasSooner, Entries
  <2> QED
    BY <2>1, <2>2, <2>3, <2>4 DEF Kept
<1> QED
  BY <1>1, <1>2

\* Pruning is safe for every tree and every sentence, whatever was pruned
\* before: what the parser could use is still there.
THEOREM PruningIsSafe == Spec => []ReadingsSurvive
<1>1. Kept => ReadingsSurvive
  BY DEF Kept
<1> QED
  BY InitKept, StepKept, <1>1, PTL DEF Spec

\* One pass is enough for every tree with two anchors or terminals and every
\* sentence.
THEOREM PassIsEnough == Spec => []OnePassEnough
<1>1. Kept => OnePassEnough
  BY DEF Kept, OnePassEnough
<1> QED
  BY InitKept, StepKept, <1>1, PTL DEF Spec
=============================================================================
