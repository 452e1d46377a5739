-------------------------------- MODULE Spar --------------------------------
(***************************************************************************)
(* The sparse matrix (src/src/parser/spar.c) that holds the parser's chart *)
(* and the lexicon's table of trees per word.                              *)
(*                                                                         *)
(* Column i is stored in the places col[i] .. col[i+1]-1 of the arrays row *)
(* and value; a place not in use has the row -1.  The arrays grow; a value *)
(* put into a column that is followed by others moves these up.            *)
(***************************************************************************)
EXTENDS Integers, Null

CONSTANTS
  C,               \* the number of columns, s->c
  R,               \* the highest row, s->r: row r itself passes invalid_indices
  Size,            \* the places at first, c * r * load rounded down
  Incr,            \* the places added when there are too few
  Values           \* the pointers stored

ASSUME SparAssumption ==
  /\ C \in Nat /\ R \in Nat /\ Size \in Nat /\ Incr \in Nat \ {0}
  /\ null \notin Values

VARIABLES
  col,             \* where each column starts, and where the last one ends
  rr,              \* the number of places
  row, value       \* the row and the value at each place

vars == <<col, rr, row, value>>

Columns == 0 .. C - 1
Rows    == 0 .. R
free    == -1

\* The places of a column, and the one with a given row.
Column(i) == col[i] .. col[i + 1] - 1

\* Fault: the search starts one place too late.
SlotsAfterFirst(i, j) == {k \in Column(i) : k > col[i] /\ row[k] = j}

Slots(i, j) == {k \in Column(i) : row[k] = j}

FirstSlot(i, j) == CHOOSE k \in Slots(i, j) : \A l \in Slots(i, j) : k <= l

\* spar_get.
spar_get(i, j) == IF Slots(i, j) = {} THEN null ELSE value[FirstSlot(i, j)]

-----------------------------------------------------------------------------
\* The arrays after spar_expand, when it is called for.
Expanded(f, need, fill) ==
  IF need THEN [k \in 0 .. rr + Incr - 1 |-> IF k < rr THEN f[k] ELSE fill] ELSE f

\* The cell has been put before.
Replace(i, j, v) ==
  /\ Slots(i, j) # {}
  /\ value' = [value EXCEPT ![FirstSlot(i, j)] = v]
  /\ UNCHANGED <<col, rr, row>>

\* The place after column i is free, and hence all that follow: the columns
\* from i+1 on are empty.
PutAtEnd(i, j, v) ==
  LET at   == col[i + 1]
      need == at + 1 > rr
  IN /\ Slots(i, j) = {}
     /\ Expanded(row, need, free)[at] = free
     /\ col' = [k \in DOMAIN col |-> IF k > i THEN at + 1 ELSE col[k]]
     /\ row' = [Expanded(row, need, free) EXCEPT ![at] = j]
     /\ value' = [Expanded(value, need, null) EXCEPT ![at] = v]
     /\ rr' = IF need THEN rr + Incr ELSE rr

\* Fault: the last entry is overwritten and not moved.
ShiftedShort(f, at, last, x) ==
  [k \in DOMAIN f |-> IF k = at THEN x
                      ELSE IF at < k /\ k < last THEN f[k - 1] ELSE f[k]]

\* An array with x at the place at, its entries from there to last moved up.
Shifted(f, at, last, x) ==
  [k \in DOMAIN f |-> IF k = at THEN x
                      ELSE IF at < k /\ k <= last THEN f[k - 1] ELSE f[k]]

\* The place after column i belongs to a later column: all later entries move.
PutAmong(i, j, v) ==
  LET at   == col[i + 1]
      last == col[C]
      need == last = rr
  IN /\ Slots(i, j) = {}
     /\ at < rr /\ row[at] # free
     /\ col' = [k \in DOMAIN col |-> IF k > i THEN col[k] + 1 ELSE col[k]]
     /\ row' = Shifted(Expanded(row, need, free), at, last, j)
     /\ value' = Shifted(Expanded(value, need, null), at, last, v)
     /\ rr' = IF need THEN rr + Incr ELSE rr

spar_put(i, j, v) == Replace(i, j, v) \/ PutAtEnd(i, j, v) \/ PutAmong(i, j, v)

Init ==
  /\ col = [k \in 0 .. C |-> 0]
  /\ rr = Size
  /\ row = [k \in 0 .. Size - 1 |-> free]
  /\ value = [k \in 0 .. Size - 1 |-> null]

Next == \E i \in Columns, j \in Rows, v \in Values : spar_put(i, j, v)

Spec == Init /\ [][Next]_vars

-----------------------------------------------------------------------------
\* The two arrays have rr places each, and a column starts and ends in them.
TypeOK ==
  /\ rr \in Nat
  /\ col \in [0 .. C -> 0 .. rr]
  /\ row \in [0 .. rr - 1 -> Rows \cup {free}]
  /\ value \in [0 .. rr - 1 -> Values \cup {null}]

\* "Column i of the matrix is always represented between col[i] and
\* col[i+1]-1" (spar.h): the columns lie one after another, and the places in
\* use are those up to the end of the last column.
ColumnsInOrder ==
  /\ col[0] = 0
  /\ \A i, k \in 0 .. C : i <= k => col[i] <= col[k]
  /\ \A k \in 0 .. rr - 1 : row[k] = free <=> col[C] <= k

\* A row occurs once in a column, so that spar_get finds what spar_put left.
RowsOnce ==
  \A i \in Columns : \A k, l \in Column(i) : row[k] = row[l] => k = l

\* The representation is a matrix's, after any calls (spar.h).
SparInv == TypeOK /\ ColumnsInOrder /\ RowsOnce

\* What spar_get gives changes as a matrix's cells do.
Cells == Columns \X Rows

M == INSTANCE Matrix WITH empty <- null,
                          matrix <- [p \in Cells |-> spar_get(p[1], p[2])]

\* spar_put of one cell changes what spar_get gives for that cell and for no
\* other, whatever order the cells are put in and however the places grow.
Implements == M!Spec
=============================================================================
