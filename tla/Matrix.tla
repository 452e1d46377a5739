------------------------------- MODULE Matrix -------------------------------
(***************************************************************************)
(* What a sparse matrix promises: a matrix.  Its cells are empty at first, *)
(* and putting a value into one cell changes no other.                     *)
(***************************************************************************)
CONSTANTS
  Cells,           \* the cells, <<column, row>>
  Values,          \* what can be put into a cell
  empty            \* what an empty cell gives

VARIABLE matrix

Init == matrix = [p \in Cells |-> empty]

Put(p, v) == matrix' = [matrix EXCEPT ![p] = v]

Next == \E p \in Cells, v \in Values : Put(p, v)

Spec == Init /\ [][Next]_matrix
=============================================================================
