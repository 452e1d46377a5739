--------------------------------- MODULE Ia ---------------------------------
(***************************************************************************)
(* The infinite arrays (src/src/parser/ia.c): a linked list of blocs of    *)
(* ia_blocsize entries each, and the index of the last entry.              *)
(***************************************************************************)
EXTENDS Integers, Sequences, Null

CONSTANTS
  IaBlocsize,      \* ia_blocsize
  IaValues,        \* what is stored
  MaxIndex         \* bound: the highest index used

ASSUME IaAssumption ==
  /\ IaBlocsize \in Nat \ {0}
  /\ MaxIndex \in Nat
  /\ null \notin IaValues

VARIABLES
  ia_bloc,         \* the blocs, each a function from 0 .. ia_blocsize - 1
  ia_index         \* the index of the last entry

iaVars == <<ia_bloc, ia_index>>

Empty == -1        \* IA_EMPTY

iabloc_new == [k \in 0 .. IaBlocsize - 1 |-> null]

IaInit == ia_bloc = <<iabloc_new>> /\ ia_index = Empty

BlocOf(idx) == idx \div IaBlocsize + 1

\* ia_get finds the entry; beyond the blocs it warns, and directly behind the
\* last of them it does not even notice.
Exists(idx) == BlocOf(idx) <= Len(ia_bloc)

ia_get(idx) == ia_bloc[BlocOf(idx)][idx - IaBlocsize * (BlocOf(idx) - 1)]

\* Fault: the remainder is taken from the bloc before.
WrittenAbove(blocs, idx, v) ==
  [blocs EXCEPT ![BlocOf(idx)][IaBlocsize * BlocOf(idx) - idx - 1] = v]

\* b->bloc[idx - (blocsize * i)] = value.
Written(blocs, idx, v) ==
  [blocs EXCEPT ![BlocOf(idx)][idx - IaBlocsize * (BlocOf(idx) - 1)] = v]

\* ia_put makes every bloc that is missing.
ia_put(idx, v) ==
  LET missing == BlocOf(idx) - Len(ia_bloc)
      blocs   == ia_bloc \o [k \in 1 .. (IF missing > 0 THEN missing ELSE 0) |-> iabloc_new]
  IN /\ ia_index' = IF ia_index < idx THEN idx ELSE ia_index
     /\ ia_bloc' = Written(blocs, idx, v)

\* ia_append makes one bloc at most.
ia_append(v) ==
  LET idx   == ia_index + 1
      blocs == IF Exists(idx) THEN ia_bloc ELSE Append(ia_bloc, iabloc_new)
  IN /\ idx <= MaxIndex
     /\ ia_index' = idx
     /\ ia_bloc' = Written(blocs, idx, v)

ia_shrink == ia_index # Empty /\ ia_index' = ia_index - 1 /\ UNCHANGED ia_bloc

\* "it does not vacate earlier insertions" (ia.h).
ia_reset == ia_index' = Empty /\ UNCHANGED ia_bloc

ia_exchange(a, b) ==
  /\ Exists(a) /\ Exists(b)
  /\ LET high == IF a > b THEN a ELSE b
     IN ia_index' = IF ia_index < high THEN high ELSE ia_index
  /\ ia_bloc' = Written(Written(ia_bloc, a, ia_get(b)), b, ia_get(a))

IaNext ==
  \/ \E idx \in 0 .. MaxIndex, v \in IaValues : ia_put(idx, v)
  \/ \E v \in IaValues : ia_append(v)
  \/ ia_shrink \/ ia_reset
  \/ \E a, b \in 0 .. MaxIndex : ia_exchange(a, b)

IaSpec == IaInit /\ [][IaNext]_iaVars

-----------------------------------------------------------------------------
A == INSTANCE Array WITH
       contents <- [k \in 0 .. MaxIndex |-> IF Exists(k) THEN ia_get(k) ELSE null],
       last <- ia_index

\* An entry keeps what was written to it last, whatever blocs are added and
\* however the array shrinks and starts again; appending never needs a bloc
\* that is not there.
ArrayImplements == A!ArraySpec
=============================================================================
