----------------------------- MODULE MCLexPrune -----------------------------
(***************************************************************************)
(* Small lexicalised trees for checking LexPrune with TLC.                 *)
(***************************************************************************)
EXTENDS LexPrune

\* Every way to let words stand at the leaves: four or five words, each at one
\* leaf or at none, and three words that may stand at two.
Tables(words, lists, lvs) ==
  {[leaves |-> lvs, table |-> t] : t \in [1 .. words -> lists]}

One(lvs) == {<<>>} \cup {<<n>> : n \in lvs}
Two == {<<2, 1>>, <<1, 3>>, <<3, 2>>}

SmallLexicons ==
  Tables(5, One(1 .. 2), 1 .. 2) \cup Tables(4, One(1 .. 3), 1 .. 3)
    \cup Tables(3, One(1 .. 3) \cup Two, 1 .. 3)
    \cup Tables(3, One(1 .. 2) \cup {<<2, 1>>}, 1 .. 2)
=============================================================================
