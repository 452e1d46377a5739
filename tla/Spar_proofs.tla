----------------------------- MODULE Spar_proofs -----------------------------
(***************************************************************************)
(* For a matrix of every size: the columns of the sparse matrix stay in    *)
(* order whatever order its cells are put in, and what spar_get gives is   *)
(* what a matrix would hold.                                               *)
(*                                                                         *)
(* The two ways spar_put makes room, at the end of the columns and among   *)
(* them, come to the same: Inserted says what, and the rest of the proof   *)
(* reads only that.                                                        *)
(***************************************************************************)
EXTENDS Spar, TLAPS

\* A new place for the row j at the end of column i; every place behind it
\* moves up by one, and so does every column behind column i.
Inserted(i, j, v) ==
  /\ Slots(i, j) = {}
  /\ rr' \in Nat /\ rr <= rr' /\ col[C] < rr'
  /\ col' = [k \in 0 .. C |-> IF k > i THEN col[k] + 1 ELSE col[k]]
  /\ row' = [k \in 0 .. rr' - 1 |->
               IF k < col[i + 1] THEN row[k]
               ELSE IF k = col[i + 1] THEN j
               ELSE IF k <= col[C] THEN row[k - 1] ELSE free]
  /\ value' \in [0 .. rr' - 1 -> Values \cup {null}]
  /\ \A k \in 0 .. col[C] :
       value'[k] = IF k < col[i + 1] THEN value[k]
                   ELSE IF k = col[i + 1] THEN v ELSE value[k - 1]

-----------------------------------------------------------------------------
\* The places of a column are places in use.
LEMMA InUse ==
  ASSUME SparInv, NEW i \in Columns
  PROVE  /\ i \in Nat /\ i + 1 \in 0 .. C /\ i \in 0 .. C /\ C \in 0 .. C
         /\ col[i] \in Nat /\ col[i + 1] \in Nat /\ col[C] \in Nat
         /\ col[i] <= col[i + 1] /\ col[i + 1] <= col[C] /\ col[C] <= rr
         /\ \A k \in Column(i) : /\ k \in 0 .. rr - 1 /\ k < col[C]
                                 /\ row[k] \in Rows
<1>1. /\ i \in Nat /\ i + 1 \in 0 .. C /\ i \in 0 .. C /\ C \in 0 .. C
  BY SparAssumption DEF Columns
<1>2. /\ col[i] \in Nat /\ col[i + 1] \in Nat /\ col[C] \in Nat
      /\ col[C] <= rr /\ rr \in Nat
  <2>1. rr \in Nat /\ col \in [0 .. C -> 0 .. rr]
    BY DEF SparInv, TypeOK
  <2>2. \A k \in 0 .. C : col[k] \in 0 .. rr
    BY <2>1
  <2> QED
    BY <2>1, <2>2, <1>1
<1>3. col[i] <= col[i + 1] /\ col[i + 1] <= col[C]
  BY <1>1 DEF SparInv, ColumnsInOrder
<1>4. ASSUME NEW k \in Column(i)
      PROVE  k \in 0 .. rr - 1 /\ k < col[C] /\ row[k] \in Rows
  <2>1. k \in 0 .. rr - 1 /\ k < col[C]
    BY <1>2, <1>3 DEF Column
  <2>2. row[k] # free
    BY <2>1, <1>2 DEF SparInv, ColumnsInOrder
  <2> QED
    BY <2>1, <2>2 DEF SparInv, TypeOK
<1> QED
  BY <1>1, <1>2, <1>3, <1>4

\* Making room at the end of the columns: those behind column i are empty.
LEMMA AtEndInserts ==
  ASSUME SparInv, NEW i \in Columns, NEW j \in Rows, NEW v \in Values,
         PutAtEnd(i, j, v)
  PROVE  Inserted(i, j, v)
<1> DEFINE at == col[i + 1]
<1> DEFINE need == at + 1 > rr
<1> DEFINE rows == Expanded(row, need, free)
<1> DEFINE values == Expanded(value, need, null)
<1>1. /\ Slots(i, j) = {}
      /\ rows[at] = free
      /\ col' = [k \in DOMAIN col |-> IF k > i THEN at + 1 ELSE col[k]]
      /\ row' = [rows EXCEPT ![at] = j]
      /\ value' = [values EXCEPT ![at] = v]
      /\ rr' = IF need THEN rr + Incr ELSE rr
  BY DEF PutAtEnd
<1>2. /\ i \in Nat /\ i + 1 \in 0 .. C /\ C \in 0 .. C
      /\ at \in Nat /\ at <= col[C] /\ col[C] \in Nat /\ col[C] <= rr
  BY InUse
<1>3. /\ rr \in Nat /\ DOMAIN col = 0 .. C
      /\ row \in [0 .. rr - 1 -> Rows \cup {free}]
      /\ value \in [0 .. rr - 1 -> Values \cup {null}]
      /\ \A k \in 0 .. C : col[k] \in Nat
  BY DEF SparInv, TypeOK
<1>n. SUFFICES ASSUME NEW n \in Nat, n = rr'
               PROVE  Inserted(i, j, v)
  BY <1>1, <1>3, SparAssumption
<1>4. n = (IF need THEN rr + Incr ELSE rr) /\ rr <= n /\ at < n
  BY <1>n, <1>1, <1>2, <1>3, SparAssumption
<1>5. /\ rows \in [0 .. n - 1 -> Rows \cup {free}]
      /\ \A k \in 0 .. n - 1 : k < rr => rows[k] = row[k]
      /\ \A k \in 0 .. n - 1 : k >= rr => rows[k] = free
  <2>1. CASE need
    BY <2>1, <1>3, <1>4, SparAssumption DEF Expanded
  <2>2. CASE ~ need
    BY <2>2, <1>3, <1>4 DEF Expanded
  <2> QED
    BY <2>1, <2>2
<1>6. /\ values \in [0 .. n - 1 -> Values \cup {null}]
      /\ \A k \in 0 .. n - 1 : k < rr => values[k] = value[k]
      /\ \A k \in 0 .. n - 1 : k >= rr => values[k] = null
  <2>0. rr \in Nat /\ value \in [0 .. rr - 1 -> Values \cup {null}]
    BY <1>3
  <2>1. CASE need
    <3>n. n = rr + Incr /\ Incr \in Nat
      BY <2>1, <1>4, SparAssumption
    <3>1. values = [k \in 0 .. rr + Incr - 1 |-> IF k < rr THEN value[k] ELSE null]
      BY <2>1, Zenon DEF Expanded
    <3> HIDE DEF values
    <3>2. values \in [0 .. rr + Incr - 1 -> Values \cup {null}]
      BY <2>0, <3>1, <3>n
    <3>3. /\ \A k \in 0 .. rr + Incr - 1 : k < rr => values[k] = value[k]
          /\ \A k \in 0 .. rr + Incr - 1 : k >= rr => values[k] = null
      BY <2>0, <3>1, <3>n
    <3> QED
      BY <2>0, <3>2, <3>3, <3>n
  <2>2. CASE ~ need
    <3>1. values = value /\ n = rr
      BY <2>2, <1>4 DEF Expanded
    <3> HIDE DEF values
    <3> QED
      BY <2>0, <3>1
  <2> QED
    BY <2>1, <2>2
<1> HIDE DEF rows, values, need
<1>7. \A k \in 0 .. rr - 1 : row[k] = free <=> col[C] <= k
  BY DEF SparInv, ColumnsInOrder
<1>8. col[C] = at
  <2>1. CASE at < rr
    <3>1. row[at] = free
      BY <2>1, <1>1, <1>2, <1>4, <1>5
    <3> QED
      BY <3>1, <2>1, <1>2, <1>3, <1>7
  <2>2. CASE ~ (at < rr)
    BY <2>2, <1>2, <1>3
  <2> QED
    BY <2>1, <2>2
<1>9. \A k \in 0 .. C : k > i => col[k] = at
  <2>1. \A k, l \in 0 .. C : k <= l => col[k] <= col[l]
    BY DEF SparInv, ColumnsInOrder
  <2>2. ASSUME NEW k \in 0 .. C, k > i
        PROVE  col[k] = at
    <3>1. at <= col[k]
      BY <2>1, <2>2, <1>2
    <3>2. col[k] <= col[C]
      BY <2>1, <2>2, <1>2
    <3> QED
      BY <3>1, <3>2, <1>2, <1>3, <1>8
  <2> QED
    BY <2>2
<1>10. col' = [k \in 0 .. C |-> IF k > i THEN col[k] + 1 ELSE col[k]]
  BY <1>1, <1>3, <1>9
<1>11. row' = [k \in 0 .. n - 1 |->
                 IF k < at THEN row[k] ELSE IF k = at THEN j
                 ELSE IF k <= col[C] THEN row[k - 1] ELSE free]
  <2>1. \A k \in 0 .. n - 1 : k > at => rows[k] = free
    BY <1>2, <1>3, <1>5, <1>7, <1>8
  <2>2. \A k \in 0 .. n - 1 : k < at => rows[k] = row[k]
    BY <1>2, <1>3, <1>5
  <2>3. row' = [k \in 0 .. n - 1 |-> IF k = at THEN j ELSE rows[k]]
    BY <1>1, <1>5
  <2>4. ASSUME NEW k \in 0 .. n - 1
        PROVE  (IF k = at THEN j ELSE rows[k])
               = (IF k < at THEN row[k] ELSE IF k = at THEN j
                  ELSE IF k <= col[C] THEN row[k - 1] ELSE free)
    BY <2>1, <2>2, <1>2, <1>8
  <2> QED
    BY <2>3, <2>4
<1>12. value' \in [0 .. n - 1 -> Values \cup {null}]
  BY <1>1, <1>6
<1>13. \A k \in 0 .. col[C] :
         value'[k] = IF k < at THEN value[k]
                     ELSE IF k = at THEN v ELSE value[k - 1]
  BY <1>1, <1>2, <1>3, <1>4, <1>6, <1>8
<1> QED
  BY <1>n, <1>1, <1>2, <1>4, <1>8, <1>10, <1>11, <1>12, <1>13 DEF Inserted

\* Making room among the columns.
LEMMA AmongInserts ==
  ASSUME SparInv, NEW i \in Columns, NEW j \in Rows, NEW v \in Values,
         PutAmong(i, j, v)
  PROVE  Inserted(i, j, v)
<1> DEFINE at == col[i + 1]
<1> DEFINE last == col[C]
<1> DEFINE need == last = rr
<1> DEFINE rows == Expanded(row, need, free)
<1> DEFINE values == Expanded(value, need, null)
<1>1. /\ Slots(i, j) = {}
      /\ col' = [k \in DOMAIN col |-> IF k > i THEN col[k] + 1 ELSE col[k]]
      /\ row' = Shifted(rows, at, last, j)
      /\ value' = Shifted(values, at, last, v)
      /\ rr' = IF need THEN rr + Incr ELSE rr
      /\ at < rr /\ row[at] # free
  BY DEF PutAmong
<1>2. /\ i \in Nat /\ at \in Nat /\ at <= last /\ last \in Nat /\ last <= rr
  BY InUse
<1>3. /\ rr \in Nat /\ DOMAIN col = 0 .. C
      /\ row \in [0 .. rr - 1 -> Rows \cup {free}]
      /\ value \in [0 .. rr - 1 -> Values \cup {null}]
  BY DEF SparInv, TypeOK
<1>n. SUFFICES ASSUME NEW n \in Nat, n = rr'
               PROVE  Inserted(i, j, v)
  BY <1>1, <1>3, SparAssumption
<1>4. n = (IF need THEN rr + Incr ELSE rr) /\ rr <= n /\ last < n
  BY <1>n, <1>1, <1>2, <1>3, SparAssumption
<1>5. /\ rows \in [0 .. n - 1 -> Rows \cup {free}]
      /\ \A k \in 0 .. n - 1 : k < rr => rows[k] = row[k]
      /\ \A k \in 0 .. n - 1 : k >= rr => rows[k] = free
  <2>1. CASE need
    BY <2>1, <1>3, <1>4, SparAssumption DEF Expanded
  <2>2. CASE ~ need
    BY <2>2, <1>3, <1>4 DEF Expanded
  <2> QED
    BY <2>1, <2>2
<1>6. /\ values \in [0 .. n - 1 -> Values \cup {null}]
      /\ \A k \in 0 .. n - 1 : k < rr => values[k] = value[k]
      /\ \A k \in 0 .. n - 1 : k >= rr => values[k] = null
  <2>1. CASE need
    BY <2>1, <1>3, <1>4, SparAssumption DEF Expanded
  <2>2. CASE ~ need
    BY <2>2, <1>3, <1>4 DEF Expanded
  <2> QED
    BY <2>1, <2>2
<1> HIDE DEF rows, values, need
<1>7. \A k \in 0 .. rr - 1 : row[k] = free <=> last <= k
  BY DEF SparInv, ColumnsInOrder
<1>8. row' = [k \in 0 .. n - 1 |->
                IF k < at THEN row[k] ELSE IF k = at THEN j
                ELSE IF k <= last THEN row[k - 1] ELSE free]
  <2>1. /\ row' \in [0 .. n - 1 -> Rows \cup {free}]
        /\ row'[at] = j
        /\ \A k \in 0 .. n - 1 : at < k /\ k <= last => row'[k] = rows[k - 1]
        /\ \A k \in 0 .. n - 1 : k < at \/ last < k => row'[k] = rows[k]
    <3>1. \A k \in 0 .. n - 1 : at < k => k - 1 \in 0 .. n - 1
      BY <1>2
    <3>2. row' = [k \in 0 .. n - 1 |->
                    IF k = at THEN j
                    ELSE IF at < k /\ k <= last THEN rows[k - 1] ELSE rows[k]]
      BY <1>1, <1>5 DEF Shifted
    <3>3. \A k \in 0 .. n - 1 : rows[k] \in Rows \cup {free}
      BY <1>5
    <3> HIDE DEF at, last
    <3>4. row' \in [0 .. n - 1 -> Rows \cup {free}]
      BY <3>1, <3>2, <3>3
    <3> QED
      BY <3>2, <3>4, <1>2, <1>4
  <2>2. \A k \in 0 .. n - 1 : k > last => rows[k] = free
    BY <1>2, <1>3, <1>5, <1>7
  <2>3. \A k \in 0 .. n - 1 : k < last => rows[k] = row[k]
    BY <1>2, <1>3, <1>5
  <2>4. ASSUME NEW k \in 0 .. n - 1
        PROVE  row'[k] = IF k < at THEN row[k] ELSE IF k = at THEN j
                         ELSE IF k <= last THEN row[k - 1] ELSE free
    <3>1. CASE k <= at \/ last < k
      BY <3>1, <2>1, <2>2, <2>3, <1>2
    <3>2. CASE at < k /\ k <= last
      <4>1. k - 1 \in 0 .. n - 1 /\ k - 1 < last
        BY <3>2, <1>2, <1>4
      <4> QED
        BY <3>2, <4>1, <2>1, <2>3, <1>2
    <3> QED
      BY <3>1, <3>2, <1>2
  <2> QED
    BY <2>1, <2>4
<1>9. /\ value' \in [0 .. n - 1 -> Values \cup {null}]
      /\ \A k \in 0 .. last :
           value'[k] = IF k < at THEN value[k]
                       ELSE IF k = at THEN v ELSE value[k - 1]
  <2>1. /\ value' \in [0 .. n - 1 -> Values \cup {null}]
        /\ value'[at] = v
        /\ \A k \in 0 .. n - 1 : at < k /\ k <= last => value'[k] = values[k - 1]
        /\ \A k \in 0 .. n - 1 : k < at \/ last < k => value'[k] = values[k]
    <3>1. \A k \in 0 .. n - 1 : at < k => k - 1 \in 0 .. n - 1
      BY <1>2
    <3>2. value' = [k \in 0 .. n - 1 |->
                      IF k = at THEN v
                      ELSE IF at < k /\ k <= last THEN values[k - 1] ELSE values[k]]
      BY <1>1, <1>6 DEF Shifted
    <3>3. \A k \in 0 .. n - 1 : values[k] \in Values \cup {null}
      BY <1>6
    <3> HIDE DEF at, last
    <3>4. value' \in [0 .. n - 1 -> Values \cup {null}]
      BY <3>1, <3>2, <3>3
    <3> QED
      BY <3>2, <3>4, <1>2, <1>4
  <2>2. \A k \in 0 .. n - 1 : k < last => values[k] = value[k]
    BY <1>2, <1>3, <1>6
  <2>3. ASSUME NEW k \in 0 .. last
        PROVE  value'[k] = IF k < at THEN value[k]
                           ELSE IF k = at THEN v ELSE value[k - 1]
    <3>1. k \in 0 .. n - 1
      BY <1>2, <1>4
    <3>2. CASE k <= at
      BY <3>1, <3>2, <2>1, <2>2, <1>2
    <3>3. CASE at < k
      <4>1. k - 1 \in 0 .. n - 1 /\ k - 1 < last
        BY <3>3, <1>2, <1>4
      <4> QED
        BY <3>1, <3>3, <4>1, <2>1, <2>2, <1>2
    <3> QED
      BY <3>2, <3>3, <1>2
  <2> QED
    BY <2>1, <2>3
<1>10. col' = [k \in 0 .. C |-> IF k > i THEN col[k] + 1 ELSE col[k]]
  BY <1>1, <1>3
<1> QED
  BY <1>n, <1>1, <1>2, <1>4, <1>8, <1>9, <1>10 DEF Inserted

-----------------------------------------------------------------------------
\* The columns after an insertion: those before i are as they were, i has the
\* new place too, and the later ones are moved up.
LEMMA InsertedColumns ==
  ASSUME SparInv, NEW i \in Columns, NEW j \in Rows, NEW v \in Values,
         Inserted(i, j, v), NEW m \in Columns
  PROVE  /\ m < i => /\ Column(m)' = Column(m)
                    /\ \A k \in Column(m) : /\ k < col[i + 1]
                                            /\ row'[k] = row[k]
                                            /\ value'[k] = value[k]
         /\ m = i => /\ Column(m)' = Column(m) \cup {col[i + 1]}
                    /\ \A k \in Column(m) : /\ k < col[i + 1]
                                            /\ row'[k] = row[k]
                                            /\ value'[k] = value[k]
         /\ m > i => /\ \A k \in Column(m)' : k - 1 \in Column(m)
                    /\ \A k \in Column(m) : /\ k + 1 \in Column(m)'
                                            /\ row'[k + 1] = row[k]
                                            /\ value'[k + 1] = value[k]
<1> DEFINE at == col[i + 1]
<1> DEFINE last == col[C]
<1>1. /\ i \in Nat /\ m \in Nat /\ i \in 0 .. C /\ i + 1 \in 0 .. C /\ C \in 0 .. C
      /\ m \in 0 .. C /\ m + 1 \in 0 .. C
      /\ at \in Nat /\ last \in Nat /\ at <= last
      /\ col[i] \in Nat /\ col[m] \in Nat /\ col[m + 1] \in Nat
      /\ col[i] <= at /\ col[m] <= col[m + 1] /\ col[m + 1] <= last
  BY InUse
<1>2. \A k, l \in 0 .. C : k <= l => col[k] <= col[l]
  BY DEF SparInv, ColumnsInOrder
<1>3. PICK n \in Nat : n = rr'
  BY DEF Inserted
<1>4. /\ last < n
      /\ col' = [k \in 0 .. C |-> IF k > i THEN col[k] + 1 ELSE col[k]]
      /\ row' = [k \in 0 .. n - 1 |->
                   IF k < at THEN row[k] ELSE IF k = at THEN j
                   ELSE IF k <= last THEN row[k - 1] ELSE free]
      /\ \A k \in 0 .. last :
           value'[k] = IF k < at THEN value[k] ELSE IF k = at THEN v ELSE value[k - 1]
  BY <1>3 DEF Inserted
<1>5. /\ \A k \in 0 .. at - 1 : row'[k] = row[k] /\ value'[k] = value[k]
      /\ row'[at] = j /\ value'[at] = v
      /\ \A k \in at .. last - 1 : row'[k + 1] = row[k] /\ value'[k + 1] = value[k]
  <2>1. /\ \A k \in 0 .. at - 1 : row'[k] = row[k] /\ value'[k] = value[k]
        /\ row'[at] = j /\ value'[at] = v
    <3>1. at \in Nat /\ last \in Nat /\ at <= last /\ last < n
      BY <1>1, <1>4
    <3> HIDE DEF at, last
    <3>2. at \in 0 .. n - 1 /\ at \in 0 .. last /\ ~ (at < at)
      BY <3>1
    <3>3. \A k \in 0 .. at - 1 : k \in 0 .. n - 1 /\ k \in 0 .. last /\ k < at
      BY <3>1
    <3>4. /\ \A k \in 0 .. at - 1 : row'[k] = row[k]
          /\ row'[at] = j
      BY <3>2, <3>3, <1>4
    <3>5. /\ \A k \in 0 .. at - 1 : value'[k] = value[k]
          /\ value'[at] = v
      BY <3>2, <3>3, <1>4
    <3> QED
      BY <3>4, <3>5
  <2>2. ASSUME NEW k \in at .. last - 1
        PROVE  row'[k + 1] = row[k] /\ value'[k + 1] = value[k]
    <3>0. at \in Nat /\ last \in Nat /\ last < n
      BY <1>1, <1>4
    <3> HIDE DEF at, last
    <3>1. k \in Nat /\ at <= k /\ k <= last - 1 /\ last < n /\ at \in Nat /\ last \in Nat
      BY <3>0
    <3>2. k + 1 \in 0 .. n - 1 /\ k + 1 \in 0 .. last
      BY <3>1
    <3>3. ~ (k + 1 < at) /\ k + 1 # at /\ k + 1 <= last /\ (k + 1) - 1 = k
      BY <3>1
    <3> QED
      BY <3>2, <3>3, <1>4
  <2> QED
    BY <2>1, <2>2
<1>6. Column(m)' = col'[m] .. col'[m + 1] - 1
  BY DEF Column
<1> HIDE DEF at, last
<1>7. CASE m < i
  <2>1. col'[m] = col[m] /\ col'[m + 1] = col[m + 1]
    BY <1>7, <1>1, <1>4
  <2>2. col[m + 1] <= at
    BY <1>7, <1>1, <1>2 DEF at
  <2>3. Column(m)' = Column(m)
    BY <2>1, <1>6 DEF Column
  <2>4. \A k \in Column(m) : k \in 0 .. at - 1
    BY <2>2, <1>1 DEF Column
  <2> QED
    BY <2>3, <2>4, <1>1, <1>5, <1>7 DEF at
<1>8. CASE m = i
  <2>1. col'[m] = col[m] /\ col'[m + 1] = at + 1
    BY <1>8, <1>1, <1>4 DEF at
  <2>2. Column(m)' = col[m] .. at
    BY <2>1, <1>1, <1>6
  <2>3. Column(m) = col[m] .. at - 1
    BY <1>8 DEF Column, at
  <2>4. Column(m)' = Column(m) \cup {at}
    BY <2>2, <2>3, <1>1, <1>8
  <2>5. \A k \in Column(m) : k \in 0 .. at - 1
    BY <2>3, <1>1
  <2> QED
    BY <2>4, <2>5, <1>1, <1>5, <1>8 DEF at
<1>9. CASE m > i
  <2>1. col'[m] = col[m] + 1 /\ col'[m + 1] = col[m + 1] + 1
    BY <1>9, <1>1, <1>4
  <2>2. Column(m)' = col[m] + 1 .. col[m + 1]
    BY <2>1, <1>1, <1>6
  <2>3. at <= col[m]
    BY <1>9, <1>1, <1>2 DEF at
  <2>4. Column(m) = col[m] .. col[m + 1] - 1
    BY DEF Column
  <2>5. ASSUME NEW k \in Column(m)'
        PROVE  k - 1 \in Column(m)
    <3>1. k \in Nat /\ col[m] + 1 <= k /\ k <= col[m + 1]
      BY <2>2, <1>1
    <3>2. k - 1 \in col[m] .. col[m + 1] - 1
      BY <3>1, <1>1
    <3> QED
      BY <3>2, <2>4
  <2>6. \A k \in Column(m) : k + 1 \in Column(m)' /\ k \in at .. last - 1
    <3>1. ASSUME NEW k \in Column(m)
          PROVE  k + 1 \in Column(m)' /\ k \in at .. last - 1
      <4>1. k \in Nat /\ col[m] <= k /\ k < col[m + 1]
        BY <2>4, <1>1
      <4>2. k + 1 \in col[m] + 1 .. col[m + 1]
        BY <4>1, <1>1
      <4>3. k \in at .. last - 1
        BY <4>1, <2>3, <1>1
      <4> QED
        BY <4>2, <4>3, <2>2
    <3> QED
      BY <3>1
  <2> QED
    BY <2>5, <2>6, <1>1, <1>5, <1>9
<1> QED
  BY <1>1, <1>7, <1>8, <1>9

\* The new place.
LEMMA InsertedAt ==
  ASSUME SparInv, NEW i \in Columns, NEW j \in Rows, NEW v \in Values,
         Inserted(i, j, v)
  PROVE  row'[col[i + 1]] = j /\ value'[col[i + 1]] = v
<1>1. col[i + 1] \in Nat /\ col[C] \in Nat /\ col[i + 1] <= col[C]
  BY InUse
<1>2. PICK n \in Nat : n = rr'
  BY DEF Inserted
<1>3. /\ col[C] < n
      /\ row' = [k \in 0 .. n - 1 |->
                   IF k < col[i + 1] THEN row[k]
                   ELSE IF k = col[i + 1] THEN j
                   ELSE IF k <= col[C] THEN row[k - 1] ELSE free]
      /\ \A k \in 0 .. col[C] :
           value'[k] = IF k < col[i + 1] THEN value[k]
                       ELSE IF k = col[i + 1] THEN v ELSE value[k - 1]
  BY <1>2 DEF Inserted
<1> QED
  BY <1>1, <1>3

\* An insertion leaves the columns in order.
LEMMA InsertedKeeps ==
  ASSUME SparInv, NEW i \in Columns, NEW j \in Rows, NEW v \in Values,
         Inserted(i, j, v)
  PROVE  SparInv'
<1> DEFINE at == col[i + 1]
<1> DEFINE last == col[C]
<1>1. /\ i \in Nat /\ i + 1 \in 0 .. C /\ C \in 0 .. C /\ C \in Nat /\ C > i
      /\ at \in Nat /\ last \in Nat /\ at <= last /\ last <= rr
  BY InUse, SparAssumption DEF Columns
<1>2. /\ rr \in Nat /\ col \in [0 .. C -> 0 .. rr]
      /\ row \in [0 .. rr - 1 -> Rows \cup {free}]
  BY DEF SparInv, TypeOK
<1>3. /\ col[0] = 0
      /\ \A k, l \in 0 .. C : k <= l => col[k] <= col[l]
      /\ \A k \in 0 .. rr - 1 : row[k] = free <=> last <= k
  BY DEF SparInv, ColumnsInOrder
<1>4. PICK n \in Nat : n = rr'
  BY DEF Inserted
<1>5. /\ last < n /\ rr <= n
      /\ col' = [k \in 0 .. C |-> IF k > i THEN col[k] + 1 ELSE col[k]]
      /\ row' = [k \in 0 .. n - 1 |->
                   IF k < at THEN row[k] ELSE IF k = at THEN j
                   ELSE IF k <= last THEN row[k - 1] ELSE free]
      /\ value' \in [0 .. n - 1 -> Values \cup {null}]
      /\ Slots(i, j) = {}
  BY <1>4 DEF Inserted
<1>6. TypeOK'
  <2>1. \A k \in 0 .. C : col[k] \in Nat /\ col[k] <= last
    BY <1>1, <1>2, <1>3
  <2>2. col' \in [0 .. C -> 0 .. n]
    <3>0. last \in Nat /\ last < n
      BY <1>1, <1>5
    <3> HIDE DEF at, last
    <3>1. \A k \in 0 .. C : col[k] \in 0 .. n /\ col[k] + 1 \in 0 .. n
      BY <3>0, <2>1
    <3> QED
      BY <3>1, <1>5
  <2>3. \A k \in 0 .. n - 1 : at < k /\ k <= last => k - 1 \in 0 .. rr - 1
    BY <1>1, <1>2
  <2>4. row' \in [0 .. n - 1 -> Rows \cup {free}]
    <3>1. \A k \in 0 .. n - 1 : k < at => k \in 0 .. rr - 1
      BY <1>1, <1>2
    <3>2. \A k \in 0 .. rr - 1 : row[k] \in Rows \cup {free}
      BY <1>2
    <3>3. /\ \A k \in 0 .. n - 1 : k < at => row[k] \in Rows \cup {free}
          /\ \A k \in 0 .. n - 1 :
               at < k /\ k <= last => row[k - 1] \in Rows \cup {free}
      BY <2>3, <3>1, <3>2
    <3>4. \A k \in 0 .. n - 1 : ~ (k < at) /\ k # at => at < k
      BY <1>1
    <3> HIDE DEF at, last
    <3> QED
      BY <3>3, <3>4, <1>5
  <2> QED
    BY <2>2, <2>4, <1>4, <1>5 DEF TypeOK
<1>7. ColumnsInOrder'
  <2>1. col'[0] = 0 /\ col'[C] = last + 1
    BY <1>1, <1>2, <1>3, <1>5
  <2>2. \A k \in 0 .. C : col[k] \in Nat
    BY <1>2
  <2>3. ASSUME NEW k \in 0 .. C, NEW l \in 0 .. C, k <= l
        PROVE  col'[k] <= col'[l]
    <3>1. col[k] \in Nat /\ col[l] \in Nat /\ col[k] <= col[l]
      BY <2>2, <2>3, <1>3
    <3>2. /\ col'[k] = IF k > i THEN col[k] + 1 ELSE col[k]
          /\ col'[l] = IF l > i THEN col[l] + 1 ELSE col[l]
      BY <1>5
    <3> QED
      BY <3>1, <3>2, <2>3, <1>1
  <2>4. ASSUME NEW k \in 0 .. n - 1
        PROVE  row'[k] = free <=> last + 1 <= k
    <3>1. j # free
      BY DEF Rows, free
    <3>2. CASE k < at
      BY <3>2, <1>1, <1>2, <1>3, <1>5
    <3>3. CASE k = at
      BY <3>1, <3>3, <1>1, <1>5
    <3>4. CASE at < k /\ k <= last
      <4>1. k - 1 \in 0 .. rr - 1 /\ k - 1 < last
        BY <3>4, <1>1, <1>2
      <4>2. row[k - 1] # free
        BY <4>1, <1>1, <1>3
      <4>3. row'[k] = row[k - 1]
        BY <3>4, <1>1, <1>5
      <4> QED
        BY <4>2, <4>3, <3>4, <1>1
    <3>5. CASE last < k
      BY <3>5, <1>1, <1>5
    <3> QED
      BY <3>2, <3>3, <3>4, <3>5, <1>1
  <2>5. \A k \in 0 .. rr' - 1 : row'[k] = free <=> col'[C] <= k
    BY <2>1, <2>4, <1>4
  <2> QED
    BY <2>1, <2>3, <2>5 DEF ColumnsInOrder
<1>8. RowsOnce'
  <2>1. ASSUME NEW m \in Columns, NEW k \in Column(m)', NEW l \in Column(m)',
               row'[k] = row'[l]
        PROVE  k = l
    <3>1. \A p, q \in Column(m) : row[p] = row[q] => p = q
      BY DEF SparInv, RowsOnce
    <3>2. m \in Nat /\ Column(m) \subseteq Nat
      BY InUse, <1>2
    <3>3. CASE m < i
      BY <3>1, <3>3, <2>1, InsertedColumns
    <3>4. CASE m = i
      <4>1. \A p \in Column(m) : row[p] # j
        BY <3>4, <1>5 DEF Slots
      <4>2. Column(i)' = Column(i) \cup {at}
        BY InsertedColumns
      <4>3. \A p \in Column(i) : row'[p] = row[p]
        BY InsertedColumns
      <4>4. row'[at] = j
        BY <1>1, <1>5
      <4> HIDE DEF at
      <4> QED
        BY <4>1, <4>2, <4>3, <4>4, <3>1, <3>4, <2>1
    <3>5. CASE m > i
      <4>1. /\ k - 1 \in Column(m) /\ l - 1 \in Column(m)
            /\ \A p \in Column(m) : row'[p + 1] = row[p]
        BY <3>5, InsertedColumns
      <4>2. k \in Int /\ l \in Int
        BY DEF Column
      <4>3. (k - 1) + 1 = k /\ (l - 1) + 1 = l
        BY <4>2
      <4>4. row[k - 1] = row[l - 1]
        BY <4>1, <4>3, <2>1
      <4>5. k - 1 = l - 1
        BY <4>1, <4>4, <3>1
      <4> QED
        BY <4>2, <4>5
    <3> QED
      BY <3>2, <3>3, <3>4, <3>5, <1>1
  <2> QED
    BY <2>1 DEF RowsOnce
<1> QED
  BY <1>6, <1>7, <1>8 DEF SparInv

-----------------------------------------------------------------------------
\* The place a cell is found at, and that it is the only one.
LEMMA GetFound ==
  SparInv => \A i \in Columns, j \in Rows : \A k \in Column(i) :
               row[k] = j => FirstSlot(i, j) = k /\ spar_get(i, j) = value[k]
<1> SUFFICES ASSUME SparInv, NEW i \in Columns, NEW j \in Rows,
                    NEW k \in Column(i), row[k] = j
             PROVE  FirstSlot(i, j) = k /\ spar_get(i, j) = value[k]
  OBVIOUS
<1>1. \A p, q \in Column(i) : row[p] = row[q] => p = q
  BY DEF SparInv, RowsOnce
<1>2. Slots(i, j) = {k}
  BY <1>1 DEF Slots
<1>3. k <= k
  BY DEF Column
<1>4. FirstSlot(i, j) = k
  BY <1>2, <1>3 DEF FirstSlot
<1> QED
  BY <1>2, <1>4 DEF spar_get

LEMMA GetNone ==
  \A i \in Columns, j \in Rows :
    (\A k \in Column(i) : row[k] # j) => spar_get(i, j) = null
BY DEF spar_get, Slots

\* The invariant holds of the empty matrix and is kept by each way of putting.
LEMMA InitKeeps == Init => SparInv
<1> SUFFICES ASSUME Init PROVE SparInv
  OBVIOUS
<1> USE SparAssumption
<1>1. TypeOK
  BY DEF Init, TypeOK
<1>2. ColumnsInOrder
  BY DEF Init, ColumnsInOrder
<1>3. RowsOnce
  <2>1. \A i \in Columns : Column(i) = {}
    BY DEF Init, Columns, Column
  <2> QED
    BY <2>1 DEF RowsOnce
<1> QED
  BY <1>1, <1>2, <1>3 DEF SparInv

LEMMA ReplaceKeeps ==
  ASSUME SparInv, NEW i \in Columns, NEW j \in Rows, NEW v \in Values,
         Replace(i, j, v)
  PROVE  SparInv'
<1>1. UNCHANGED <<col, rr, row>> /\ value' = [value EXCEPT ![FirstSlot(i, j)] = v]
  BY DEF Replace
<1>2. value' \in [0 .. rr - 1 -> Values \cup {null}]
  BY <1>1 DEF SparInv, TypeOK
<1>3. TypeOK'
  BY <1>1, <1>2 DEF SparInv, TypeOK
<1>4. ColumnsInOrder'
  BY <1>1 DEF SparInv, ColumnsInOrder
<1>5. RowsOnce'
  BY <1>1 DEF SparInv, RowsOnce, Column
<1> QED
  BY <1>3, <1>4, <1>5 DEF SparInv

LEMMA PutInserts ==
  ASSUME SparInv, NEW i \in Columns, NEW j \in Rows, NEW v \in Values,
         spar_put(i, j, v)
  PROVE  Replace(i, j, v) \/ Inserted(i, j, v)
BY AtEndInserts, AmongInserts DEF spar_put

LEMMA StepKeeps == SparInv /\ [Next]_vars => SparInv'
<1> SUFFICES ASSUME SparInv, [Next]_vars PROVE SparInv'
  OBVIOUS
<1>1. CASE Next
  <2>1. PICK i \in Columns, j \in Rows, v \in Values : spar_put(i, j, v)
    BY <1>1 DEF Next
  <2> QED
    BY <2>1, PutInserts, ReplaceKeeps, InsertedKeeps
<1>2. CASE UNCHANGED vars
  BY <1>2 DEF vars, SparInv, TypeOK, ColumnsInOrder, RowsOnce, Column
<1> QED
  BY <1>1, <1>2

\* Whatever the matrix's size and whatever order its cells are put in, the
\* columns lie one after another, hold no row twice and leave no gap.
THEOREM SparHolds == Spec => []SparInv
<1>1. Init => SparInv
  BY InitKeeps
<1>2. SparInv /\ [Next]_vars => SparInv'
  BY StepKeeps
<1> QED
  BY <1>1, <1>2, PTL DEF Spec

-----------------------------------------------------------------------------
\* A place in use belongs to one column.
LEMMA OneColumn ==
  ASSUME SparInv, NEW a \in Columns, NEW i \in Columns,
         NEW k \in Column(a), k \in Column(i)
  PROVE  a = i
<1>1. /\ a \in Nat /\ i \in Nat /\ a + 1 \in 0 .. C /\ i + 1 \in 0 .. C
      /\ a \in 0 .. C /\ i \in 0 .. C
      /\ col[a] \in Nat /\ col[a + 1] \in Nat /\ col[i] \in Nat /\ col[i + 1] \in Nat
  BY InUse
<1>2. /\ col[a] <= k /\ k < col[a + 1] /\ col[i] <= k /\ k < col[i + 1] /\ k \in Nat
  BY <1>1 DEF Column
<1>3. \A p, q \in 0 .. C : p <= q => col[p] <= col[q]
  BY DEF SparInv, ColumnsInOrder
<1>4. ~ (a < i)
  BY <1>1, <1>2, <1>3
<1>5. ~ (i < a)
  BY <1>1, <1>2, <1>3
<1> QED
  BY <1>1, <1>4, <1>5

\* GetFound and GetNone of the state after a step.
LEMMA GetFoundNext ==
  SparInv' => \A i \in Columns, j \in Rows : \A k \in Column(i)' :
                row'[k] = j => spar_get(i, j)' = value'[k]
<1>1. (SparInv => \A i \in Columns, j \in Rows : \A k \in Column(i) :
         row[k] = j => FirstSlot(i, j) = k /\ spar_get(i, j) = value[k])'
  BY GetFound, PTL
<1> QED
  BY <1>1 DEF Columns, Rows

LEMMA GetNoneNext ==
  \A i \in Columns, j \in Rows :
    (\A k \in Column(i)' : row'[k] # j) => spar_get(i, j)' = null
<1>1. (\A i \in Columns, j \in Rows :
         (\A k \in Column(i) : row[k] # j) => spar_get(i, j) = null)'
  BY GetNone, PTL
<1> QED
  BY <1>1 DEF Columns, Rows

\* A cell that is replaced is found where it was, the others too.
LEMMA ReplaceGet ==
  ASSUME SparInv, SparInv', NEW i \in Columns, NEW j \in Rows, NEW v \in Values,
         Replace(i, j, v), NEW a \in Columns, NEW b \in Rows
  PROVE  spar_get(a, b)' = IF a = i /\ b = j THEN v ELSE spar_get(a, b)
<1>1. /\ UNCHANGED <<col, rr, row>> /\ Slots(i, j) # {}
      /\ value' = [value EXCEPT ![FirstSlot(i, j)] = v]
  BY DEF Replace
<1>2. PICK s \in Column(i) : row[s] = j
  BY <1>1 DEF Slots
<1>3. FirstSlot(i, j) = s
  BY <1>2, GetFound
<1>4. s \in 0 .. rr - 1 /\ DOMAIN value = 0 .. rr - 1
  BY InUse DEF SparInv, TypeOK
<1>5. /\ value'[s] = v
      /\ \A k \in 0 .. rr - 1 : k # s => value'[k] = value[k]
  BY <1>1, <1>3, <1>4
<1>6. Column(a)' = Column(a)
  BY <1>1 DEF Column
<1>7. CASE \A k \in Column(a) : row[k] # b
  <2>1. spar_get(a, b) = null
    BY <1>7, GetNone
  <2>2. \A k \in Column(a)' : row'[k] # b
    BY <1>1, <1>6, <1>7
  <2>3. spar_get(a, b)' = null
    BY <2>2, GetNoneNext
  <2>4. ~ (a = i /\ b = j)
    BY <1>2, <1>7
  <2> QED
    BY <2>1, <2>3, <2>4
<1>8. ASSUME NEW k \in Column(a), row[k] = b
      PROVE  spar_get(a, b)' = IF a = i /\ b = j THEN v ELSE spar_get(a, b)
  <2>1. spar_get(a, b) = value[k]
    BY <1>8, GetFound
  <2>2. k \in Column(a)' /\ row'[k] = b
    BY <1>1, <1>6, <1>8
  <2>3. spar_get(a, b)' = value'[k]
    BY <2>2, GetFoundNext
  <2>4. CASE k = s
    BY <2>3, <2>4, <1>2, <1>5, <1>8, OneColumn
  <2>5. CASE k # s
    <3>1. ~ (a = i /\ b = j)
      BY <2>5, <1>2, <1>8 DEF SparInv, RowsOnce
    <3>2. k \in 0 .. rr - 1
      BY InUse
    <3> QED
      BY <3>1, <3>2, <2>1, <2>3, <2>5, <1>5
  <2> QED
    BY <2>4, <2>5
<1> QED
  BY <1>7, <1>8

\* A cell that is put for the first time is found, and the others are found
\* where they have moved to.
LEMMA InsertedGet ==
  ASSUME SparInv, SparInv', NEW i \in Columns, NEW j \in Rows, NEW v \in Values,
         Inserted(i, j, v), NEW a \in Columns, NEW b \in Rows
  PROVE  spar_get(a, b)' = IF a = i /\ b = j THEN v ELSE spar_get(a, b)
<1> DEFINE at == col[i + 1]
<1>1. a \in Nat /\ i \in Nat
  BY DEF Columns
<1>2. \A k \in Column(i) : row[k] # j
  BY DEF Inserted, Slots
<1>3. CASE a < i
  <2>1. /\ Column(a)' = Column(a)
        /\ \A k \in Column(a) : row'[k] = row[k] /\ value'[k] = value[k]
    BY <1>3, InsertedColumns
  <2>2. a # i
    BY <1>3, <1>1
  <2>3. CASE \A k \in Column(a) : row[k] # b
    BY <2>1, <2>2, <2>3, GetNone, GetNoneNext
  <2>4. ASSUME NEW k \in Column(a), row[k] = b
        PROVE  spar_get(a, b)' = spar_get(a, b)
    BY <2>1, <2>4, GetFound, GetFoundNext
  <2> QED
    BY <2>2, <2>3, <2>4
<1>4. CASE a = i
  <2>1. Column(a)' = Column(a) \cup {at}
    BY <1>4, InsertedColumns
  <2>2. \A k \in Column(a) : row'[k] = row[k] /\ value'[k] = value[k]
    BY <1>4, InsertedColumns
  <2>3. row'[at] = j /\ value'[at] = v
    BY InsertedAt
  <2> HIDE DEF at
  <2>4. CASE b = j
    <3>1. at \in Column(a)'
      BY <2>1
    <3>2. spar_get(a, b)' = value'[at]
      BY <3>1, <2>3, <2>4, GetFoundNext
    <3> QED
      BY <3>2, <2>3, <2>4, <1>4
  <2>5. CASE b # j
    <3>1. CASE \A k \in Column(a) : row[k] # b
      <4>1. \A k \in Column(a)' : row'[k] # b
        BY <3>1, <2>1, <2>2, <2>3, <2>5
      <4> QED
        BY <4>1, <3>1, <2>5, GetNone, GetNoneNext
    <3>2. ASSUME NEW k \in Column(a), row[k] = b
          PROVE  spar_get(a, b)' = spar_get(a, b)
      <4>1. k \in Column(a)' /\ row'[k] = b /\ value'[k] = value[k]
        BY <3>2, <2>1, <2>2
      <4> QED
        BY <4>1, <3>2, GetFound, GetFoundNext
    <3> QED
      BY <3>1, <3>2, <2>5
  <2> QED
    BY <2>4, <2>5
<1>5. CASE a > i
  <2>1. \A k \in Column(a)' : k - 1 \in Column(a)
    BY <1>5, InsertedColumns
  <2>2. \A k \in Column(a) : k + 1 \in Column(a)' /\ row'[k + 1] = row[k]
                           /\ value'[k + 1] = value[k]
    BY <1>5, InsertedColumns
  <2>3. a # i
    BY <1>5, <1>1
  <2>4. CASE \A k \in Column(a) : row[k] # b
    <3>1. ASSUME NEW k \in Column(a)'
          PROVE  row'[k] # b
      <4>1. k - 1 \in Column(a) /\ (k - 1) + 1 = k
        BY <2>1 DEF Column
      <4> QED
        BY <4>1, <2>2, <2>4
    <3> QED
      BY <3>1, <2>3, <2>4, GetNone, GetNoneNext
  <2>5. ASSUME NEW k \in Column(a), row[k] = b
        PROVE  spar_get(a, b)' = spar_get(a, b)
    <3>1. spar_get(a, b) = value[k]
      BY <2>5, GetFound
    <3>2. spar_get(a, b)' = value'[k + 1]
      BY <2>2, <2>5, GetFoundNext
    <3> QED
      BY <3>1, <3>2, <2>2
  <2> QED
    BY <2>3, <2>4, <2>5
<1> QED
  BY <1>1, <1>3, <1>4, <1>5

\* Putting a value changes one cell of the matrix that spar_get shows.
LEMMA PutSteps ==
  ASSUME SparInv, SparInv', NEW i \in Columns, NEW j \in Rows, NEW v \in Values,
         spar_put(i, j, v)
  PROVE  M!Put(<<i, j>>, v)
<1>1. \A a \in Columns, b \in Rows :
        spar_get(a, b)' = IF a = i /\ b = j THEN v ELSE spar_get(a, b)
  BY PutInserts, ReplaceGet, InsertedGet
<1>2. \A p \in Cells : spar_get(p[1], p[2])' =
                       IF p = <<i, j>> THEN v ELSE spar_get(p[1], p[2])
  BY <1>1 DEF Cells
<1>3. <<i, j>> \in Cells
  BY DEF Cells
<1>4. [p \in Cells |-> spar_get(p[1], p[2])]'
      = [[p \in Cells |-> spar_get(p[1], p[2])] EXCEPT ![<<i, j>>] = v]
  <2>1. Cells' = Cells
    BY DEF Cells, Columns, Rows
  <2> QED
    BY <1>2, <1>3, <2>1
<1> QED
  BY <1>4 DEF M!Put

\* The sparse matrix is a matrix: what spar_get gives changes as a matrix's
\* cells do, for a matrix of every size, put in every order.
THEOREM SparIsMatrix == Spec => Implements
<1>1. Init => M!Init
  <2> SUFFICES ASSUME Init PROVE M!Init
    OBVIOUS
  <2>1. \A i \in Columns, j \in Rows : \A k \in Column(i) : FALSE
    BY SparAssumption DEF Init, Columns, Column
  <2>2. \A i \in Columns, j \in Rows : spar_get(i, j) = null
    BY <2>1, GetNone
  <2> QED
    BY <2>2 DEF M!Init, Cells
<1>2. SparInv /\ SparInv' /\ [Next]_vars =>
        [M!Next]_([p \in Cells |-> spar_get(p[1], p[2])])
  <2> SUFFICES ASSUME SparInv, SparInv', [Next]_vars
               PROVE  [M!Next]_([p \in Cells |-> spar_get(p[1], p[2])])
    OBVIOUS
  <2>1. CASE Next
    <3>1. PICK i \in Columns, j \in Rows, v \in Values : spar_put(i, j, v)
      BY <2>1 DEF Next
    <3>2. <<i, j>> \in Cells /\ M!Put(<<i, j>>, v)
      BY <3>1, PutSteps DEF Cells
    <3> QED
      BY <3>2 DEF M!Next
  <2>2. CASE UNCHANGED vars
    BY <2>2 DEF vars, Cells, Columns, Rows, spar_get, Slots, FirstSlot, Column
  <2> QED
    BY <2>1, <2>2
<1>3. Spec => []SparInv
  BY SparHolds
<1> QED
  BY <1>1, <1>2, <1>3, PTL DEF Spec, Implements, M!Spec
=============================================================================
