--------------------------- MODULE Storage_proofs ---------------------------
(***************************************************************************)
(* What the chart keeps its states in.                                     *)
(*                                                                         *)
(* For blocs of every size: an infinite array keeps what was put into it.  *)
(*                                                                         *)
(* For a heap of every capacity and every ranking: an element ranks no     *)
(* higher than its parent, but about the place that a loop of heap_insert  *)
(* or heapify is at, and hence heap_extract gives an element of the        *)
(* highest rank.  The loops only exchange elements, so the heap implements *)
(* a priority queue.                                                       *)
(***************************************************************************)
EXTENDS Ia, Heap, FiniteSetTheorems, WellFoundedInduction, TLAPS

Bloc == [0 .. IaBlocsize - 1 -> IaValues \cup {null}]

\* The entry at an index of some blocs.
At(blocs, k) == blocs[BlocOf(k)][k - IaBlocsize * (BlocOf(k) - 1)]

-----------------------------------------------------------------------------
(* Where an index lies.                                                     *)

LEMMA PlaceIn ==
  ASSUME NEW k \in Nat
  PROVE  /\ BlocOf(k) \in Nat \ {0}
         /\ k - IaBlocsize * (BlocOf(k) - 1) \in 0 .. IaBlocsize - 1
<1>1. IaBlocsize \in Nat /\ IaBlocsize > 0
  BY IaAssumption
<1>2. k = IaBlocsize * (k \div IaBlocsize) + (k % IaBlocsize) /\ k % IaBlocsize \in 0 .. IaBlocsize - 1 /\ k \div IaBlocsize \in Nat
  BY <1>1
<1> QED
  BY <1>1, <1>2 DEF BlocOf

LEMMA PlaceOfNext ==
  ASSUME NEW k \in Nat
  PROVE  BlocOf(k + 1) <= BlocOf(k) + 1
<1>1. IaBlocsize \in Nat /\ IaBlocsize > 0
  BY IaAssumption
<1> QED
  BY <1>1 DEF BlocOf

\* Two indices never share a place.
LEMMA PlaceIsOne ==
  ASSUME NEW j \in Nat, NEW k \in Nat, BlocOf(j) = BlocOf(k),
         j - IaBlocsize * (BlocOf(j) - 1) = k - IaBlocsize * (BlocOf(k) - 1)
  PROVE  j = k
<1> DEFINE c == IaBlocsize * (BlocOf(j) - 1)
<1>1. c \in Int
  BY PlaceIn, IaAssumption
<1>2. j - c = k - c
  OBVIOUS
<1> HIDE DEF c
<1> QED
  BY <1>1, <1>2

\* Smaller indices lie in earlier blocs.
LEMMA PlaceOfSmaller ==
  ASSUME NEW j \in Nat, NEW k \in Nat, j <= k
  PROVE  BlocOf(j) <= BlocOf(k)
<1>1. IaBlocsize \in Nat /\ IaBlocsize > 0
  BY IaAssumption
<1> QED
  BY <1>1 DEF BlocOf

-----------------------------------------------------------------------------
(* Writing to a place, and adding blocs behind the last.                    *)

LEMMA WrittenAt ==
  ASSUME NEW blocs \in Seq(Bloc), NEW j \in Nat, BlocOf(j) <= Len(blocs),
         NEW v \in IaValues \cup {null}
  PROVE  /\ Written(blocs, j, v) \in Seq(Bloc) /\ Len(Written(blocs, j, v)) = Len(blocs)
         /\ \A k \in Nat : BlocOf(k) <= Len(blocs) =>
              At(Written(blocs, j, v), k) = IF k = j THEN v ELSE At(blocs, k)
<1> DEFINE b == BlocOf(j)
           r == j - IaBlocsize * (b - 1)
           new == [blocs EXCEPT ![b] = [blocs[b] EXCEPT ![r] = v]]
<1>1. b \in 1 .. Len(blocs) /\ r \in 0 .. IaBlocsize - 1
  BY PlaceIn
<1>2. Written(blocs, j, v) = new
  BY DEF Written
<1>3. [blocs[b] EXCEPT ![r] = v] \in Bloc /\ blocs[b] \in Bloc
  BY <1>1 DEF Bloc
<1>4. new \in Seq(Bloc) /\ Len(new) = Len(blocs)
  BY <1>1, <1>3
<1>5. ASSUME NEW k \in Nat, BlocOf(k) <= Len(blocs)
      PROVE  At(new, k) = IF k = j THEN v ELSE At(blocs, k)
  <2>1. BlocOf(k) \in 1 .. Len(blocs) /\ k - IaBlocsize * (BlocOf(k) - 1) \in 0 .. IaBlocsize - 1
    BY <1>5, PlaceIn
  <2>2. CASE BlocOf(k) # b
    <3>1. new[BlocOf(k)] = blocs[BlocOf(k)] /\ k # j
      BY <2>1, <2>2
    <3> QED
      BY <3>1 DEF At
  <2>3. CASE BlocOf(k) = b /\ k = j
    <3>1. new[b] = [blocs[b] EXCEPT ![r] = v]
      BY <1>1
    <3>2. [blocs[b] EXCEPT ![r] = v][r] = v
      BY <1>1, <1>3 DEF Bloc
    <3> QED
      BY <3>1, <3>2, <2>3 DEF At
  <2>4. CASE BlocOf(k) = b /\ k # j
    <3>1. k - IaBlocsize * (BlocOf(k) - 1) # r
      BY <2>4, PlaceIsOne
    <3>2. new[b] = [blocs[b] EXCEPT ![r] = v]
      BY <1>1
    <3>3. new[b][k - IaBlocsize * (BlocOf(k) - 1)] = blocs[b][k - IaBlocsize * (BlocOf(k) - 1)]
      BY <3>1, <3>2, <2>1, <1>3 DEF Bloc
    <3> QED
      BY <3>3, <2>4 DEF At
  <2> QED
    BY <2>2, <2>3, <2>4
<1> QED
  BY <1>2, <1>4, <1>5

LEMMA NewBloc == iabloc_new \in Bloc
BY DEF iabloc_new, Bloc

LEMMA Grown ==
  ASSUME NEW blocs \in Seq(Bloc), NEW n \in Nat
  PROVE  LET more == blocs \o [k \in 1 .. n |-> iabloc_new]
         IN /\ more \in Seq(Bloc) /\ Len(more) = Len(blocs) + n
            /\ \A k \in Nat : BlocOf(k) <= Len(more) =>
                 At(more, k) = IF BlocOf(k) <= Len(blocs) THEN At(blocs, k) ELSE null
<1> DEFINE add == [k \in 1 .. n |-> iabloc_new]
           more == blocs \o add
<1>1. add \in Seq(Bloc) /\ Len(add) = n
  BY NewBloc
<1> HIDE DEF add
<1>2. more \in Seq(Bloc) /\ Len(more) = Len(blocs) + n
  BY <1>1
<1>3. ASSUME NEW k \in Nat, BlocOf(k) <= Len(more)
      PROVE  At(more, k) = IF BlocOf(k) <= Len(blocs) THEN At(blocs, k) ELSE null
  <2>1. BlocOf(k) \in 1 .. Len(more) /\ k - IaBlocsize * (BlocOf(k) - 1) \in 0 .. IaBlocsize - 1
    BY <1>3, PlaceIn
  <2>2. CASE BlocOf(k) <= Len(blocs)
    <3>1. more[BlocOf(k)] = blocs[BlocOf(k)]
      BY <2>1, <2>2, <1>1
    <3> QED
      BY <3>1, <2>2 DEF At
  <2>3. CASE BlocOf(k) > Len(blocs)
    <3>1. BlocOf(k) - Len(blocs) \in 1 .. n /\ BlocOf(k) \in Nat
      BY <2>1, <2>3, <1>1, <1>2
    <3>2. more[BlocOf(k)] = add[BlocOf(k) - Len(blocs)]
      BY <3>1, <2>1, <2>3, <1>1, <1>2
    <3>3. more[BlocOf(k)] = iabloc_new
      BY <3>1, <3>2 DEF add
    <3> QED
      BY <3>1, <3>3, <2>1, <2>3 DEF At, iabloc_new
  <2> QED
    BY <2>1, <2>2, <2>3, <1>2
<1> HIDE DEF more
<1> QED
  BY <1>2, <1>3 DEF more, add

-----------------------------------------------------------------------------
(* The blocs are of the right size, and the last index lies in one of them: *)
(* ia_append may therefore do with one more.                                *)

IaInv ==
  /\ ia_bloc \in Seq(Bloc) /\ Len(ia_bloc) >= 1
  /\ ia_index \in -1 .. MaxIndex
  /\ ia_index # Empty => Exists(ia_index)

Contents == [k \in 0 .. MaxIndex |-> IF Exists(k) THEN ia_get(k) ELSE null]

LEMMA InitArray == IaInit => IaInv /\ A!ArrayInit
<1> SUFFICES ASSUME IaInit PROVE IaInv /\ A!ArrayInit
  OBVIOUS
<1>1. ia_bloc = <<iabloc_new>> /\ ia_index = -1
  BY DEF IaInit, Empty
<1>2. IaInv
  BY <1>1, NewBloc, IaAssumption DEF IaInv, Empty
<1>3. ASSUME NEW k \in 0 .. MaxIndex, Exists(k) PROVE ia_get(k) = null
  <2>0. k \in Nat /\ Len(ia_bloc) = 1 /\ BlocOf(k) <= Len(ia_bloc)
    BY <1>1, <1>3, IaAssumption DEF Exists
  <2>1. BlocOf(k) = 1 /\ k - IaBlocsize * (BlocOf(k) - 1) \in 0 .. IaBlocsize - 1
    BY <2>0, PlaceIn
  <2> QED
    BY <2>1, <1>1 DEF ia_get, iabloc_new
<1>4. Contents = [k \in 0 .. MaxIndex |-> null]
  BY <1>3 DEF Contents
<1> QED
  BY <1>1, <1>2, <1>4 DEF A!ArrayInit, A!Indices, Contents

\* What a write does, to an array with all the blocs it takes.
LEMMA PutStep ==
  ASSUME IaInv, NEW j \in 0 .. MaxIndex, NEW n \in Nat, NEW v \in IaValues,
         BlocOf(j) <= Len(ia_bloc) + n,
         ia_bloc' = Written(ia_bloc \o [k \in 1 .. n |-> iabloc_new], j, v)
  PROVE  /\ ia_bloc' \in Seq(Bloc) /\ Len(ia_bloc') = Len(ia_bloc) + n
         /\ Contents' = [Contents EXCEPT ![j] = v]
<1> DEFINE more == ia_bloc \o [k \in 1 .. n |-> iabloc_new]
<1>1. /\ more \in Seq(Bloc) /\ Len(more) = Len(ia_bloc) + n
      /\ \A k \in Nat : BlocOf(k) <= Len(more) =>
           At(more, k) = IF BlocOf(k) <= Len(ia_bloc) THEN At(ia_bloc, k) ELSE null
  BY Grown DEF IaInv
<1>a. ia_bloc' = Written(more, j, v) /\ j \in Nat /\ v \in IaValues \cup {null} /\ BlocOf(j) <= Len(more)
  BY <1>1, IaAssumption
<1> HIDE DEF more
<1>b. /\ Written(more, j, v) \in Seq(Bloc) /\ Len(Written(more, j, v)) = Len(more)
      /\ \A k \in Nat : BlocOf(k) <= Len(more) =>
           At(Written(more, j, v), k) = IF k = j THEN v ELSE At(more, k)
  BY <1>a, <1>1, WrittenAt
<1>2. /\ ia_bloc' \in Seq(Bloc) /\ Len(ia_bloc') = Len(more)
      /\ \A k \in Nat : BlocOf(k) <= Len(more) =>
           At(ia_bloc', k) = IF k = j THEN v ELSE At(more, k)
  BY <1>a, <1>b
<1>3. ASSUME NEW k \in 0 .. MaxIndex
      PROVE  Contents'[k] = IF k = j THEN v ELSE Contents[k]
  <2>1. Contents'[k] = IF BlocOf(k) <= Len(ia_bloc') THEN At(ia_bloc', k) ELSE null
    BY DEF Contents, Exists, ia_get, At, BlocOf
  <2>2. Contents[k] = IF BlocOf(k) <= Len(ia_bloc) THEN At(ia_bloc, k) ELSE null
    BY DEF Contents, Exists, ia_get, At
  <2>a. k \in Nat
    BY IaAssumption
  <2>3. BlocOf(k) \in Nat /\ Len(ia_bloc) \in Nat /\ k \in Nat
    BY <2>a, PlaceIn DEF IaInv
  <2>4. CASE BlocOf(k) <= Len(more)
    BY <2>1, <2>2, <2>3, <2>4, <1>1, <1>2
  <2>5. CASE ~(BlocOf(k) <= Len(more))
    BY <2>1, <2>2, <2>3, <2>5, <1>1, <1>2
  <2> QED
    BY <2>4, <2>5
<1>4. Contents' = [Contents EXCEPT ![j] = v]
  BY <1>3 DEF Contents
<1> QED
  BY <1>1, <1>2, <1>4

LEMMA IaPut ==
  ASSUME IaInv, NEW j \in 0 .. MaxIndex, NEW v \in IaValues, ia_put(j, v)
  PROVE  IaInv' /\ A!Put(j, v)
<1> DEFINE m == BlocOf(j) - Len(ia_bloc)
           n == IF m > 0 THEN m ELSE 0
<1>0. BlocOf(j) \in Nat /\ Len(ia_bloc) \in Nat /\ j \in Nat /\ MaxIndex \in Nat
  BY PlaceIn, IaAssumption DEF IaInv
<1>1. n \in Nat /\ BlocOf(j) <= Len(ia_bloc) + n
  BY <1>0
<1>2. ia_bloc' = Written(ia_bloc \o [k \in 1 .. n |-> iabloc_new], j, v)
  BY DEF ia_put
<1>3. ia_index' = IF ia_index < j THEN j ELSE ia_index
  BY DEF ia_put
<1> HIDE DEF n
<1>4. ia_bloc' \in Seq(Bloc) /\ Len(ia_bloc') = Len(ia_bloc) + n /\ Contents' = [Contents EXCEPT ![j] = v]
  BY <1>1, <1>2, PutStep
<1>5. ia_index' \in 0 .. MaxIndex /\ BlocOf(ia_index') <= Len(ia_bloc')
  <2>1. CASE ia_index < j
    BY <2>1, <1>0, <1>1, <1>3, <1>4
  <2>2. CASE ~(ia_index < j)
    <3>1. ia_index' = ia_index /\ ia_index \in 0 .. MaxIndex /\ BlocOf(ia_index) <= Len(ia_bloc)
      BY <2>2, <1>0, <1>3 DEF IaInv, Exists, Empty
    <3>2. BlocOf(ia_index) \in Nat
      BY <3>1, <1>0, PlaceIn
    <3> QED
      BY <3>1, <3>2, <1>0, <1>1, <1>4
  <2> QED
    BY <2>1, <2>2
<1>6. IaInv'
  BY <1>0, <1>1, <1>4, <1>5 DEF IaInv, Exists, Empty
<1> QED
  BY <1>3, <1>4, <1>6 DEF A!Put, Contents

LEMMA IaAppend ==
  ASSUME IaInv, NEW v \in IaValues, ia_append(v)
  PROVE  IaInv' /\ A!Append(v)
<1> DEFINE j == ia_index + 1
           n == IF Exists(j) THEN 0 ELSE 1
<1>0. BlocOf(j) \in Nat /\ Len(ia_bloc) \in Nat /\ j \in 0 .. MaxIndex /\ MaxIndex \in Nat
  BY PlaceIn, IaAssumption DEF IaInv, ia_append
<1>1. n \in Nat /\ BlocOf(j) <= Len(ia_bloc) + n
  <2>1. CASE ia_index = Empty
    <3>1. BlocOf(0) = 1
      BY IaAssumption DEF BlocOf
    <3> QED
      BY <3>1, <2>1, <1>0 DEF Empty, Exists, IaInv
  <2>2. CASE ia_index # Empty
    <3>1. ia_index \in Nat /\ BlocOf(ia_index) <= Len(ia_bloc)
      BY <2>2 DEF IaInv, Empty, Exists
    <3>2. BlocOf(j) <= BlocOf(ia_index) + 1 /\ BlocOf(ia_index) \in Nat
      BY <3>1, PlaceOfNext, PlaceIn
    <3> QED
      BY <3>1, <3>2, <1>0 DEF Exists
  <2> QED
    BY <2>1, <2>2
<1>2. ia_bloc' = Written(ia_bloc \o [k \in 1 .. n |-> iabloc_new], j, v)
  <2>1. CASE Exists(j)
    <3>1. ia_bloc \o [k \in 1 .. 0 |-> iabloc_new] = ia_bloc
      <4>1. [k \in 1 .. 0 |-> iabloc_new] = <<>>
        OBVIOUS
      <4> QED
        BY <4>1 DEF IaInv
    <3> QED
      BY <3>1, <2>1 DEF ia_append
  <2>2. CASE ~Exists(j)
    <3>1. ia_bloc \o [k \in 1 .. 1 |-> iabloc_new] = Append(ia_bloc, iabloc_new)
      <4>1. [k \in 1 .. 1 |-> iabloc_new] = <<iabloc_new>>
        OBVIOUS
      <4> QED
        BY <4>1, NewBloc DEF IaInv
    <3> QED
      BY <3>1, <2>2 DEF ia_append
  <2> QED
    BY <2>1, <2>2
<1>3. ia_index' = j
  BY DEF ia_append
<1> HIDE DEF n
<1>4. ia_bloc' \in Seq(Bloc) /\ Len(ia_bloc') = Len(ia_bloc) + n /\ Contents' = [Contents EXCEPT ![j] = v]
  BY <1>0, <1>1, <1>2, PutStep
<1>5. IaInv'
  BY <1>0, <1>1, <1>3, <1>4 DEF IaInv, Exists, Empty
<1> QED
  BY <1>0, <1>3, <1>4, <1>5 DEF A!Append, A!Put, Contents, IaInv

\* Nothing is written, and the index is lowered.
LEMMA IaLowered ==
  ASSUME IaInv, UNCHANGED ia_bloc, NEW n \in -1 .. MaxIndex, n < ia_index, ia_index' = n
  PROVE  IaInv' /\ A!Cut(n)
<1>1. Contents' = Contents
  BY DEF Contents, Exists, ia_get
<1>2. n # Empty => BlocOf(n) <= Len(ia_bloc)
  <2>1. ASSUME n # Empty PROVE BlocOf(n) <= Len(ia_bloc)
    <3>1. n \in Nat /\ ia_index \in Nat /\ n <= ia_index /\ Exists(ia_index)
      BY <2>1 DEF IaInv, Empty
    <3> QED
      BY <3>1, PlaceOfSmaller, PlaceIn DEF Exists, IaInv
  <2> QED
    BY <2>1
<1>3. IaInv'
  BY <1>2 DEF IaInv, Exists
<1> QED
  BY <1>1, <1>3 DEF A!Cut, Contents

LEMMA IaExchange ==
  ASSUME IaInv, NEW j \in 0 .. MaxIndex, NEW k \in 0 .. MaxIndex, ia_exchange(j, k)
  PROVE  IaInv' /\ A!Swap(j, k)
<1>0. /\ j \in Nat /\ k \in Nat /\ BlocOf(j) \in Nat /\ BlocOf(k) \in Nat
      /\ BlocOf(j) <= Len(ia_bloc) /\ BlocOf(k) <= Len(ia_bloc) /\ Len(ia_bloc) \in Nat
      /\ MaxIndex \in Nat /\ ia_index \in Int
  BY PlaceIn, IaAssumption DEF ia_exchange, Exists, IaInv
<1>1. ASSUME NEW l \in Nat, BlocOf(l) <= Len(ia_bloc)
      PROVE  At(ia_bloc, l) \in IaValues \cup {null}
  <2>0. BlocOf(l) \in Nat \ {0} /\ l - IaBlocsize * (BlocOf(l) - 1) \in 0 .. IaBlocsize - 1
    BY <1>1, PlaceIn
  <2>1. BlocOf(l) \in 1 .. Len(ia_bloc)
    BY <2>0, <1>0, <1>1
  <2>2. ia_bloc[BlocOf(l)] \in Bloc
    BY <2>1 DEF IaInv
  <2> QED
    BY <2>0, <2>2 DEF At, Bloc
<1>2. ia_bloc' = Written(Written(ia_bloc, j, At(ia_bloc, k)), k, At(ia_bloc, j))
  BY DEF ia_exchange, ia_get, At
<1> DEFINE mid == Written(ia_bloc, j, At(ia_bloc, k))
<1>3. /\ mid \in Seq(Bloc) /\ Len(mid) = Len(ia_bloc)
      /\ \A l \in Nat : BlocOf(l) <= Len(ia_bloc) =>
           At(mid, l) = IF l = j THEN At(ia_bloc, k) ELSE At(ia_bloc, l)
  BY <1>0, <1>1, WrittenAt DEF IaInv
<1> HIDE DEF mid
<1>4. /\ ia_bloc' \in Seq(Bloc) /\ Len(ia_bloc') = Len(ia_bloc)
      /\ \A l \in Nat : BlocOf(l) <= Len(ia_bloc) =>
           At(ia_bloc', l) = IF l = k THEN At(ia_bloc, j) ELSE At(mid, l)
  BY <1>0, <1>1, <1>2, <1>3, WrittenAt DEF mid
<1>5. ASSUME NEW l \in 0 .. MaxIndex
      PROVE  Contents'[l] = IF l = k THEN Contents[j] ELSE IF l = j THEN Contents[k] ELSE Contents[l]
  <2>1. Contents'[l] = IF BlocOf(l) <= Len(ia_bloc') THEN At(ia_bloc', l) ELSE null
    BY DEF Contents, Exists, ia_get, At, BlocOf
  <2>2. \A x \in 0 .. MaxIndex : Contents[x] = IF BlocOf(x) <= Len(ia_bloc) THEN At(ia_bloc, x) ELSE null
    BY DEF Contents, Exists, ia_get, At
  <2>3. l \in Nat
    BY <1>0
  <2> QED
    BY <2>1, <2>2, <2>3, <1>0, <1>3, <1>4
<1>6. Contents' = [Contents EXCEPT ![j] = Contents[k], ![k] = Contents[j]]
  BY <1>5 DEF Contents
<1>7. ia_index' \in {ia_index, j, k} /\ ia_index' >= ia_index
  BY <1>0 DEF ia_exchange
<1>8. IaInv'
  BY <1>0, <1>4, <1>7 DEF IaInv, Exists, Empty
<1> QED
  BY <1>6, <1>7, <1>8 DEF A!Swap, Contents

LEMMA IaStep == IaInv /\ [IaNext]_iaVars => IaInv' /\ [A!ArrayNext]_<<Contents, ia_index>>
<1> SUFFICES ASSUME IaInv, [IaNext]_iaVars
             PROVE  IaInv' /\ [A!ArrayNext]_<<Contents, ia_index>>
  OBVIOUS
<1>1. ASSUME NEW j \in 0 .. MaxIndex, NEW v \in IaValues, ia_put(j, v)
      PROVE  IaInv' /\ A!ArrayNext
  BY <1>1, IaPut DEF A!ArrayNext, A!Indices
<1>2. ASSUME NEW v \in IaValues, ia_append(v)
      PROVE  IaInv' /\ A!ArrayNext
  BY <1>2, IaAppend DEF A!ArrayNext
<1>3. CASE ia_shrink
  <2>1. ia_index - 1 \in -1 .. MaxIndex /\ ia_index - 1 < ia_index /\ ia_index' = ia_index - 1 /\ UNCHANGED ia_bloc
    BY <1>3, IaAssumption DEF ia_shrink, IaInv, Empty
  <2> QED
    BY <2>1, IaLowered DEF A!ArrayNext
<1>4. CASE ia_reset
  <2>1. CASE ia_index = Empty
    <3>1. UNCHANGED iaVars
      BY <1>4, <2>1 DEF ia_reset, iaVars
    <3> QED
      BY <3>1 DEF iaVars, IaInv, Contents, Exists, ia_get
  <2>2. CASE ia_index # Empty
    <3>1. -1 \in -1 .. MaxIndex /\ -1 < ia_index /\ ia_index' = -1 /\ UNCHANGED ia_bloc
      BY <1>4, <2>2, IaAssumption DEF ia_reset, IaInv, Empty
    <3> QED
      BY <3>1, IaLowered DEF A!ArrayNext
  <2> QED
    BY <2>1, <2>2
<1>5. ASSUME NEW j \in 0 .. MaxIndex, NEW k \in 0 .. MaxIndex, ia_exchange(j, k)
      PROVE  IaInv' /\ A!ArrayNext
  BY <1>5, IaExchange DEF A!ArrayNext, A!Indices
<1>6. CASE UNCHANGED iaVars
  BY <1>6 DEF iaVars, IaInv, Contents, Exists, ia_get
<1> QED
  BY <1>1, <1>2, <1>3, <1>4, <1>5, <1>6 DEF IaNext

\* Whatever is put, appended, exchanged and cut off, and however often the array
\* starts again: an entry is what was written there last (ia_get), and the index
\* is that of the last entry.
THEOREM IaIsArray == IaSpec => ArrayImplements
<1>1. Contents = [k \in 0 .. MaxIndex |-> IF Exists(k) THEN ia_get(k) ELSE null]
  BY DEF Contents
<1> QED
  BY InitArray, IaStep, PTL DEF IaSpec, ArrayImplements, A!ArraySpec, Contents

-----------------------------------------------------------------------------
(* The heap.                                                               *)

\* The tree of places: a place is a child of its half.
LEMMA Halves ==
  ASSUME NEW k \in Nat
  PROVE  /\ heap_parent(k) \in Nat
         /\ k = 2 * heap_parent(k) \/ k = 2 * heap_parent(k) + 1
         /\ k >= 2 => heap_parent(k) >= 1
         /\ k >= 1 => heap_parent(k) < k
BY DEF heap_parent

LEMMA Children ==
  ASSUME NEW k \in Nat, NEW j \in Nat
  PROVE  /\ heap_left(j) \in Nat /\ heap_right(j) \in Nat
         /\ heap_parent(k) = j <=> k = heap_left(j) \/ k = heap_right(j)
BY DEF heap_parent, heap_left, heap_right

-----------------------------------------------------------------------------
LEMMA InitHeap == HeapInit => HeapInv
BY HeapAssumption DEF HeapInit, HeapInv, HeapTypeOK, HeapOrder

\* A place is opened behind the last one; the tree above it is as before.
LEMMA InsertStep ==
  ASSUME HeapInv, NEW e \in Elements, heap_insert(e)
  PROVE  HeapInv'
<1> USE HeapAssumption
<1>1. /\ len' = len + 1 /\ i' = len + 1 /\ key' = e /\ pc' = "up" /\ pc = "idle"
      /\ len \in Nat /\ len < Capacity
      /\ \A k \in 1 .. len : arr'[k] = arr[k] /\ arr[k] \in Elements
      /\ arr' \in [0 .. Capacity -> Elements \cup {null}]
  BY DEF heap_insert, HeapInv, HeapTypeOK
<1>2. HeapTypeOK'
  BY <1>1 DEF HeapTypeOK
<1>3. ASSUME NEW k \in 2 .. len'
      PROVE  \/ k = i'
             \/ Rank[arr'[k]] <= Rank[arr'[heap_parent(k)]]
  <2>1. CASE k = len + 1
    BY <2>1, <1>1
  <2>2. CASE k # len + 1
    <3>1. k \in 2 .. len /\ heap_parent(k) \in 1 .. len
      BY <2>2, <1>1, Halves
    <3>2. Rank[arr[k]] <= Rank[arr[heap_parent(k)]]
      BY <3>1, <1>1 DEF HeapInv, HeapOrder
    <3> QED
      BY <3>1, <3>2, <1>1
  <2> QED
    BY <2>1, <2>2
<1>4. ASSUME NEW k \in 2 .. len' PROVE heap_parent(k) # i'
  BY <1>1, Halves
<1>5. HeapOrder'
  BY <1>1, <1>3, <1>4 DEF HeapOrder
<1> QED
  BY <1>2, <1>5 DEF HeapInv

\* The parent moves down to the open place, which moves up to the parent's.
LEMMA SiftUpStep ==
  ASSUME HeapInv, SiftUp
  PROVE  HeapInv'
<1> USE HeapAssumption
<1> DEFINE p == heap_parent(i)
<1>1. /\ len' = len /\ key' = key /\ pc' = "up" /\ pc = "up" /\ i' = p
      /\ len \in Nat /\ len <= Capacity /\ i \in 2 .. len /\ key \in Elements
      /\ p \in 1 .. len /\ p < i
      /\ arr' = [arr EXCEPT ![i] = arr[p]]
      /\ Rank[arr[p]] < Rank[key]
  <2>1. /\ pc = "up" /\ i > 1 /\ Rank[arr[p]] < Rank[key] /\ len' = len /\ key' = key
        /\ pc' = pc /\ i' = p /\ arr' = [arr EXCEPT ![i] = arr[p]]
    BY DEF SiftUp, Rises
  <2>2. len \in Nat /\ len <= Capacity /\ i \in 1 .. len /\ key \in Elements
    BY <2>1 DEF HeapInv, HeapTypeOK
  <2>3. p \in 1 .. len /\ p < i
    BY <2>1, <2>2, Halves
  <2> QED
    BY <2>1, <2>2, <2>3
<1>2. /\ \A k \in 1 .. len : k # i => arr[k] \in Elements /\ arr'[k] = arr[k]
      /\ arr'[i] = arr[p] /\ arr[p] \in Elements
      /\ arr' \in [0 .. Capacity -> Elements \cup {null}]
  BY <1>1 DEF HeapInv, HeapTypeOK
<1>3. HeapTypeOK'
  BY <1>1, <1>2 DEF HeapTypeOK
<1>4. /\ \A k \in 2 .. len : k # i /\ heap_parent(k) # i => Rank[arr[k]] <= Rank[arr[heap_parent(k)]]
      /\ \A k \in 2 .. len : heap_parent(k) = i =>
           Rank[arr[k]] <= Rank[key] /\ Rank[arr[k]] <= Rank[arr[p]]
  BY <1>1 DEF HeapInv, HeapOrder
<1>5. \A k \in 1 .. len : k # i => Rank[arr[k]] \in Int
  BY <1>2
<1>5a. Rank[key] \in Int
  BY <1>1
<1>6. ASSUME NEW k \in 2 .. len, k # p, heap_parent(k) # p
      PROVE  Rank[arr'[k]] <= Rank[arr'[heap_parent(k)]]
  <2>0. heap_parent(k) \in 1 .. len /\ heap_parent(k) < k
    BY <1>1, Halves
  <2>1. k # i
    BY <1>6
  <2>2. CASE heap_parent(k) = i
    BY <2>1, <2>2, <1>1, <1>2, <1>4
  <2>3. CASE heap_parent(k) # i
    BY <2>0, <2>1, <2>3, <1>1, <1>2, <1>4
  <2> QED
    BY <2>2, <2>3
<1>7. ASSUME NEW k \in 2 .. len, heap_parent(k) = p
      PROVE  /\ Rank[arr'[k]] <= Rank[key]
             /\ p > 1 => Rank[arr'[k]] <= Rank[arr'[heap_parent(p)]]
  <2>0. /\ p > 1 => heap_parent(p) \in 1 .. len /\ heap_parent(p) # i
        /\ p # i
    BY <1>1, Halves
  <2>a. p > 1 => p \in 2 .. len /\ heap_parent(p) # i
    BY <2>0, <1>1
  <2>1. p > 1 => Rank[arr[p]] <= Rank[arr[heap_parent(p)]]
    BY <2>a, <2>0, <1>4
  <2>1a. p > 1 => arr'[heap_parent(p)] = arr[heap_parent(p)] /\ Rank[arr[heap_parent(p)]] \in Int
    BY <2>0, <1>2, <1>5
  <2>2. CASE k = i
    BY <2>2, <2>1, <2>1a, <1>1, <1>2, <1>5, <1>5a
  <2>3. CASE k # i
    <3>1. Rank[arr[k]] <= Rank[arr[p]]
      BY <2>3, <2>0, <1>7, <1>4
    <3>2. Rank[arr[k]] \in Int /\ Rank[arr[p]] \in Int /\ arr'[k] = arr[k]
      BY <2>3, <2>0, <1>1, <1>2, <1>5
    <3> QED
      BY <3>1, <3>2, <2>1, <2>1a, <1>1, <1>5a
  <2> QED
    BY <2>2, <2>3
<1>8. HeapOrder'
  BY <1>1, <1>6, <1>7 DEF HeapOrder
<1> QED
  BY <1>3, <1>8 DEF HeapInv

\* The key ranks no higher than the parent, and no child ranks above the key.
LEMMA PlaceStep ==
  ASSUME HeapInv, Place
  PROVE  HeapInv'
<1> USE HeapAssumption
<1>1. /\ len' = len /\ pc' = "idle" /\ pc = "up" /\ len \in Nat /\ len <= Capacity
      /\ i \in 1 .. len /\ key \in Elements
      /\ arr' = [arr EXCEPT ![i] = key]
      /\ ~Rises
  BY DEF Place, HeapInv, HeapTypeOK
<1>2. /\ \A k \in 1 .. len : k # i => arr[k] \in Elements /\ arr'[k] = arr[k]
      /\ arr'[i] = key
      /\ arr' \in [0 .. Capacity -> Elements \cup {null}]
  BY <1>1 DEF HeapInv, HeapTypeOK
<1>3. HeapTypeOK'
  BY <1>1, <1>2 DEF HeapTypeOK
<1>4. ASSUME NEW k \in 2 .. len
      PROVE  Rank[arr'[k]] <= Rank[arr'[heap_parent(k)]]
  <2>0. heap_parent(k) \in 1 .. len /\ heap_parent(k) < k /\ k \in 1 .. len
    BY <1>1, Halves
  <2>1. CASE k = i
    <3>1. ~(Rank[arr[heap_parent(i)]] < Rank[key])
      BY <2>1, <1>1 DEF Rises
    <3> QED
      BY <3>1, <2>0, <2>1, <1>1, <1>2
  <2>2. CASE k # i /\ heap_parent(k) = i
    BY <2>0, <2>2, <1>1, <1>2 DEF HeapInv, HeapOrder
  <2>3. CASE k # i /\ heap_parent(k) # i
    BY <2>0, <2>3, <1>1, <1>2 DEF HeapInv, HeapOrder
  <2> QED
    BY <2>1, <2>2, <2>3
<1>5. HeapOrder'
  BY <1>1, <1>4 DEF HeapOrder
<1> QED
  BY <1>3, <1>5 DEF HeapInv

\* The last element comes to the top, whose children are the only ones that
\* may rank above it.
LEMMA ExtractStep ==
  ASSUME HeapInv, heap_extract
  PROVE  HeapInv'
<1> USE HeapAssumption
<1>1. /\ len' = len - 1 /\ pc' = "down" /\ pc = "idle" /\ i' = 1
      /\ len \in Nat /\ len <= Capacity /\ 1 <= len
      /\ arr' = [arr EXCEPT ![1] = arr[len], ![len] = arr[1]]
  BY DEF heap_extract, HeapInv, HeapTypeOK
<1>2. /\ \A k \in 1 .. len : arr[k] \in Elements
      /\ \A k \in 2 .. len - 1 : arr'[k] = arr[k]
      /\ \A k \in 1 .. len - 1 : arr'[k] \in Elements
      /\ arr' \in [0 .. Capacity -> Elements \cup {null}]
  BY <1>1 DEF HeapInv, HeapTypeOK
<1>3. HeapTypeOK'
  BY <1>1, <1>2 DEF HeapTypeOK
<1>4. ASSUME NEW k \in 2 .. len - 1, heap_parent(k) # 1
      PROVE  Rank[arr'[k]] <= Rank[arr'[heap_parent(k)]]
  <2>1. k \in 2 .. len /\ heap_parent(k) \in 2 .. len - 1
    BY <1>1, <1>4, Halves
  <2>2. Rank[arr[k]] <= Rank[arr[heap_parent(k)]]
    BY <2>1, <1>1 DEF HeapInv, HeapOrder
  <2> QED
    BY <2>1, <2>2, <1>2
<1>5. HeapOrder'
  <2>1. \A k \in 2 .. len' : heap_parent(k) = i' \/ Rank[arr'[k]] <= Rank[arr'[heap_parent(k)]]
    BY <1>1, <1>4
  <2>2. ~(i' > 1) /\ pc' # "up" /\ pc' # "idle"
    BY <1>1
  <2> QED
    BY <2>1, <2>2 DEF HeapOrder
<1> QED
  BY <1>3, <1>5 DEF HeapInv

\* What heapify chooses: a place that no child ranks above.
LEMMA LargestOf ==
  ASSUME HeapInv, pc = "down"
  PROVE  /\ Largest = i \/ Largest \in {k \in 2 .. len : heap_parent(k) = i}
         /\ \A k \in 2 .. len : heap_parent(k) = i => Rank[arr[k]] <= Rank[arr[Largest]]
         /\ Largest # i => i \in 1 .. len /\ Largest > i /\ Rank[arr[i]] < Rank[arr[Largest]]
<1> USE HeapAssumption
<1> DEFINE l == heap_left(i)
           r == heap_right(i)
<1>1. /\ len \in Nat /\ i \in Nat /\ i >= 1 /\ l \in Nat /\ r \in Nat
      /\ l = 2 * i /\ r = 2 * i + 1 /\ l > i /\ r > i
      /\ \A k \in 1 .. len : arr[k] \in Elements /\ Rank[arr[k]] \in Int
      /\ \A k \in Nat : heap_parent(k) = i <=> k = l \/ k = r
  BY Children DEF HeapInv, HeapTypeOK, heap_left, heap_right
<1>2. CASE l > len
  <2>1. r > len /\ \A k \in 2 .. len : heap_parent(k) # i
    BY <1>1, <1>2
  <2>2. Largest = i
    BY <2>1, <1>1, <1>2 DEF Largest, Above
  <2> QED
    BY <2>1, <2>2
<1>3. CASE l <= len
  <2>1. i \in 1 .. len /\ l \in 2 .. len /\ Rank[arr[i]] \in Int /\ Rank[arr[l]] \in Int
    BY <1>1, <1>3
  <2>2. PICK m : m = Above(l, i)
    OBVIOUS
  <2>3. /\ m = l \/ m = i
        /\ Rank[arr[l]] <= Rank[arr[m]] /\ Rank[arr[i]] <= Rank[arr[m]]
        /\ m = l => Rank[arr[i]] < Rank[arr[m]]
        /\ Rank[arr[m]] \in Int
    <3>1. m = IF Rank[arr[l]] > Rank[arr[i]] THEN l ELSE i
      BY <1>3, <2>2 DEF Above
    <3>2. CASE Rank[arr[l]] > Rank[arr[i]]
      <4>1. m = l
        BY <3>1, <3>2
      <4> QED
        BY <4>1, <3>2, <2>1
    <3>3. CASE ~(Rank[arr[l]] > Rank[arr[i]])
      <4>1. m = i
        BY <3>1, <3>3
      <4> QED
        BY <4>1, <3>3, <2>1, <1>1
    <3> QED
      BY <3>2, <3>3
  <2>4. CASE r <= len
    <3>1. r \in 2 .. len /\ Rank[arr[r]] \in Int
      BY <2>4, <1>1
    <3>2. Largest = IF Rank[arr[r]] > Rank[arr[m]] THEN r ELSE m
      BY <2>2, <2>4 DEF Largest, Above
    <3> QED
      BY <3>1, <3>2, <2>1, <2>3, <1>1
  <2>5. CASE r > len
    <3>1. Largest = m
      BY <2>2, <2>5, <1>1 DEF Largest, Above
    <3> QED
      BY <3>1, <2>5, <2>1, <2>3, <1>1
  <2> QED
    BY <2>4, <2>5, <1>1
<1> QED
  BY <1>2, <1>3, <1>1

\* The larger child comes up, and the element goes down to its place.
LEMMA SiftDownStep ==
  ASSUME HeapInv, SiftDown
  PROVE  HeapInv'
<1> USE HeapAssumption
<1> DEFINE m == Largest
<1>1. /\ len' = len /\ pc' = "down" /\ pc = "down" /\ i' = m /\ m # i
      /\ len \in Nat /\ len <= Capacity
      /\ arr' = [arr EXCEPT ![i] = arr[m], ![m] = arr[i]]
  BY DEF SiftDown, HeapInv, HeapTypeOK
<1>2. /\ m \in 2 .. len /\ heap_parent(m) = i /\ i \in 1 .. len /\ m > i
      /\ \A k \in 2 .. len : heap_parent(k) = i => Rank[arr[k]] <= Rank[arr[m]]
      /\ Rank[arr[i]] < Rank[arr[m]]
  BY <1>1, LargestOf
<1> HIDE DEF m
<1>3. /\ \A k \in 1 .. len : arr[k] \in Elements /\ Rank[arr[k]] \in Int
      /\ \A k \in 1 .. len : k # i /\ k # m => arr'[k] = arr[k]
      /\ arr'[i] = arr[m] /\ arr'[m] = arr[i]
      /\ arr' \in [0 .. Capacity -> Elements \cup {null}]
  BY <1>1, <1>2 DEF HeapInv, HeapTypeOK
<1>4. HeapTypeOK'
  <2>1. \A k \in 1 .. len : arr'[k] \in Elements
    BY <1>3, <1>2
  <2> QED
    BY <2>1, <1>1, <1>2, <1>3 DEF HeapTypeOK
<1>5. /\ \A k \in 2 .. len : heap_parent(k) # i => Rank[arr[k]] <= Rank[arr[heap_parent(k)]]
      /\ \A k \in 2 .. len : heap_parent(k) = i /\ i > 1 => Rank[arr[k]] <= Rank[arr[heap_parent(i)]]
  BY <1>1 DEF HeapInv, HeapOrder
<1>6. ASSUME NEW k \in 2 .. len, heap_parent(k) # m
      PROVE  Rank[arr'[k]] <= Rank[arr'[heap_parent(k)]]
  <2>0. heap_parent(k) \in 1 .. len /\ heap_parent(k) < k /\ k \in 1 .. len
    BY <1>1, Halves
  <2>1. CASE k = m
    BY <2>0, <2>1, <1>2, <1>3
  <2>2. CASE k # m /\ heap_parent(k) = i
    <3>1. k # i
      BY <2>0, <2>2
    <3> QED
      BY <3>1, <2>0, <2>2, <1>2, <1>3
  <2>3. CASE k = i
    <3>1. i > 1 /\ heap_parent(i) # i /\ heap_parent(i) # m /\ heap_parent(i) \in 1 .. len
      BY <2>0, <2>3, <1>2
    <3>2. Rank[arr[m]] <= Rank[arr[heap_parent(i)]]
      BY <3>1, <1>2, <1>5
    <3> QED
      BY <3>1, <3>2, <2>3, <1>3
  <2>4. CASE k # m /\ k # i /\ heap_parent(k) # i
    BY <2>0, <2>4, <1>6, <1>3, <1>5
  <2> QED
    BY <2>1, <2>2, <2>3, <2>4
<1>7. ASSUME NEW k \in 2 .. len, heap_parent(k) = m
      PROVE  Rank[arr'[k]] <= Rank[arr'[heap_parent(m)]]
  <2>0. heap_parent(k) < k /\ k \in 1 .. len /\ k # i /\ k # m
    BY <1>1, <1>2, <1>7, Halves
  <2>1. Rank[arr[k]] <= Rank[arr[m]]
    BY <2>0, <1>7, <1>2, <1>5
  <2> QED
    BY <2>0, <2>1, <1>2, <1>3
<1>8. HeapOrder'
  BY <1>1, <1>6, <1>7 DEF HeapOrder
<1> QED
  BY <1>4, <1>8 DEF HeapInv

\* No child ranks above: the heap is in order everywhere.
LEMMA SettleStep ==
  ASSUME HeapInv, Settle
  PROVE  HeapInv'
<1>1. /\ pc = "down" /\ pc' = "idle" /\ Largest = i
      /\ arr' = arr /\ len' = len /\ i' = i /\ key' = key
  BY DEF Settle
<1>2. \A k \in 2 .. len : heap_parent(k) = i => Rank[arr[k]] <= Rank[arr[i]]
  BY <1>1, LargestOf
<1>3. HeapTypeOK'
  BY <1>1 DEF HeapInv, HeapTypeOK
<1>4. \A k \in 2 .. len : Rank[arr[k]] <= Rank[arr[heap_parent(k)]]
  BY <1>1, <1>2 DEF HeapInv, HeapOrder
<1>5. HeapOrder'
  BY <1>1, <1>4 DEF HeapOrder
<1> QED
  BY <1>3, <1>5 DEF HeapInv

LEMMA HeapStep == HeapInv /\ [HeapNext]_heapVars => HeapInv'
<1> SUFFICES ASSUME HeapInv, [HeapNext]_heapVars PROVE HeapInv'
  OBVIOUS
<1>1. ASSUME NEW e \in Elements, heap_insert(e) PROVE HeapInv'
  BY <1>1, InsertStep
<1>2. CASE SiftUp
  BY <1>2, SiftUpStep
<1>3. CASE Place
  BY <1>3, PlaceStep
<1>4. CASE heap_extract
  BY <1>4, ExtractStep
<1>5. CASE SiftDown
  BY <1>5, SiftDownStep
<1>6. CASE Settle
  BY <1>6, SettleStep
<1>7. CASE UNCHANGED heapVars
  BY <1>7 DEF heapVars, HeapInv, HeapTypeOK, HeapOrder
<1> QED
  BY <1>1, <1>2, <1>3, <1>4, <1>5, <1>6, <1>7 DEF HeapNext

\* The heap is in order whenever no loop is under way, and in a loop everywhere
\* but about its place (heap_insert, heapify).
THEOREM InOrder == HeapSpec => []HeapInv
BY InitHeap, HeapStep, PTL DEF HeapSpec

-----------------------------------------------------------------------------
(* Nothing ranks above the top: a least place that did would have a parent   *)
(* that did.                                                                 *)

Less == {p \in Nat \X Nat : p[1] < p[2]}

LEMMA LessFounded == IsWellFoundedOn(Less, Nat)
BY NatLessThanWellFounded DEF OpToRel, Less

LEMMA TopIsHighest ==
  ASSUME HeapInv, pc = "idle"
  PROVE  \A k \in 1 .. len : Rank[arr[k]] <= Rank[arr[1]]
<1> USE HeapAssumption
<1> DEFINE Above1 == {k \in 1 .. len : ~(Rank[arr[k]] <= Rank[arr[1]])}
<1>1. \A k \in 1 .. len : Rank[arr[k]] \in Int
  BY DEF HeapInv, HeapTypeOK
<1>2. SUFFICES ASSUME Above1 # {} PROVE FALSE
  OBVIOUS
<1>3. len \in Nat /\ Above1 \subseteq Nat
  BY DEF HeapInv, HeapTypeOK
<1>4. PICK k \in Above1 : \A j \in Above1 : <<j, k>> \notin Less
  BY <1>2, <1>3, LessFounded, WFMin
<1>5. k \in 2 .. len /\ 1 \in 1 .. len
  BY <1>1, <1>3, <1>4
<1>6. heap_parent(k) \in 1 .. len /\ heap_parent(k) < k
  BY <1>3, <1>5, Halves
<1>7. Rank[arr[k]] <= Rank[arr[heap_parent(k)]]
  BY <1>5 DEF HeapInv, HeapOrder
<1>8. heap_parent(k) \in Above1
  BY <1>1, <1>4, <1>5, <1>6, <1>7
<1>9. <<heap_parent(k), k>> \in Less
  BY <1>3, <1>5, <1>6 DEF Less
<1> QED
  BY <1>4, <1>8, <1>9

\* heap_extract never gives an element while one of a higher rank is in the
\* heap.
THEOREM Serves == HeapSpec => ServesBest
<1>1. ASSUME HeapInv, [HeapNext]_heapVars
      PROVE  [heap_extract => \A k \in 1 .. len : Rank[arr[k]] <= Rank[max']]_heapVars
  <2>1. ASSUME heap_extract PROVE \A k \in 1 .. len : Rank[arr[k]] <= Rank[max']
    <3>1. pc = "idle" /\ max' = arr[1]
      BY <2>1 DEF heap_extract
    <3> QED
      BY <1>1, <3>1, TopIsHighest
  <2> QED
    BY <2>1
<1> QED
  BY <1>1, InOrder, PTL DEF HeapSpec, ServesBest
-----------------------------------------------------------------------------
(* The heap is a priority queue: nothing is lost or doubled on the way.      *)

\* The places 1 .. n of the function f that hold e.
Places(f, n, e) == {k \in 1 .. n : f[k] = e}

Items == [k \in 1 .. len |-> Item(k)]

Held == [e \in Elements |-> Cardinality({k \in 1 .. len : Item(k) = e})]

LEMMA HeldIs ==
  /\ Held = [e \in Elements |-> Cardinality(Places(Items, len, e))]
  /\ Held' = [e \in Elements |-> Cardinality(Places(Items', len', e))]
<1>1. \A e \in Elements : /\ {k \in 1 .. len : Item(k) = e} = Places(Items, len, e)
                          /\ {k \in 1 .. len : Item(k) = e}' = Places(Items', len', e)
  BY DEF Places, Items
<1> QED  BY <1>1 DEF Held

LEMMA PlacesFinite ==
  ASSUME NEW f, NEW n \in Nat, NEW e
  PROVE  IsFiniteSet(Places(f, n, e)) /\ Cardinality(Places(f, n, e)) \in Nat
<1>1. IsFiniteSet(1 .. n)
  BY FS_Interval
<1>2. Places(f, n, e) \in SUBSET (1 .. n)
  BY DEF Places
<1>3. IsFiniteSet(Places(f, n, e))
  BY <1>1, <1>2, FS_Subset
<1> QED  BY <1>3, FS_CardinalityType

\* Two places exchange what they hold.
Exchanged(f, g, n) ==
  \E a, b \in 1 .. n :
    /\ g[a] = f[b] /\ g[b] = f[a]
    /\ \A k \in 1 .. n : k \notin {a, b} => g[k] = f[k]

LEMMA Exchange ==
  ASSUME NEW n \in Nat, NEW f, NEW g, Exchanged(f, g, n), NEW e
  PROVE  Cardinality(Places(g, n, e)) = Cardinality(Places(f, n, e))
<1>. PICK a, b \in 1 .. n : /\ g[a] = f[b] /\ g[b] = f[a]
                           /\ \A k \in 1 .. n : k \notin {a, b} => g[k] = f[k]
  BY DEF Exchanged
<1> DEFINE S == Places(f, n, e)
           T == Places(g, n, e)
<1>1. IsFiniteSet(S) /\ Cardinality(S) \in Nat
  BY PlacesFinite
<1>2. CASE f[a] = f[b]
  <2>1. T = S
    BY <1>2 DEF Places
  <2> QED  BY <2>1
<1>3. ASSUME NEW x \in {a, b}, NEW y \in {a, b}, x # y, f[x] = e, f[y] # e
      PROVE  Cardinality(T) = Cardinality(S)
  <2>1. x \in S /\ y \notin S /\ y \notin S \ {x} /\ T = (S \ {x}) \cup {y}
    BY <1>3 DEF Places
  <2> HIDE DEF S, T
  <2>2. IsFiniteSet(S \ {x}) /\ Cardinality(S \ {x}) = Cardinality(S) - 1
    BY <1>1, <2>1, FS_RemoveElement
  <2>3. Cardinality((S \ {x}) \cup {y}) = Cardinality(S \ {x}) + 1
    BY <2>1, <2>2, FS_AddElement
  <2> QED  BY <1>1, <2>1, <2>2, <2>3
<1>4. CASE f[a] # e /\ f[b] # e
  <2>1. T = S
    BY <1>4 DEF Places
  <2> QED  BY <2>1
<1> QED  BY <1>2, <1>3, <1>4

\* What is at the last place comes to the others.
Begins(f, g, n) == \A k \in 1 .. n : g[k] = f[k]

LEMMA OneMore ==
  ASSUME NEW n \in Nat, NEW f, NEW g, Begins(f, g, n), NEW e
  PROVE  Cardinality(Places(g, n + 1, e)) =
           Cardinality(Places(f, n, e)) + (IF g[n + 1] = e THEN 1 ELSE 0)
<1> DEFINE S == Places(f, n, e)
           T == Places(g, n + 1, e)
<1>1. IsFiniteSet(S) /\ Cardinality(S) \in Nat
  BY PlacesFinite
<1>2. CASE g[n + 1] = e
  <2>1. T = S \cup {n + 1} /\ n + 1 \notin S
    BY <1>2 DEF Places, Begins
  <2> HIDE DEF S, T
  <2>2. Cardinality(S \cup {n + 1}) = Cardinality(S) + 1
    BY <1>1, <2>1, FS_AddElement
  <2>3. Cardinality(T) = Cardinality(S) + 1
    BY <2>1, <2>2
  <2> QED  BY <1>2, <2>3 DEF S, T
<1>3. CASE g[n + 1] # e
  <2>1. T = S
    BY <1>3 DEF Places, Begins
  <2> QED  BY <1>1, <1>3, <2>1
<1> QED  BY <1>2, <1>3

\* A step of a loop exchanges two elements, the one it is about to place among
\* them, or none.
LEMMA LoopHolds ==
  ASSUME HeapInv, HeapInv', SiftUp \/ Place \/ SiftDown \/ Settle
  PROVE  Held' = Held /\ max' = max
<1>1. len' = len /\ len \in Nat /\ max' = max
  BY DEF SiftUp, Place, SiftDown, Settle, HeapInv, HeapTypeOK
<1>2. ASSUME Exchanged(Items, Items', len) PROVE Held' = Held
  <2> DEFINE f == Items
             g == Items'
  <2>1. Exchanged(f, g, len)
    BY <1>2
  <2> HIDE DEF f, g
  <2>2. \A e \in Elements : Cardinality(Places(g, len, e)) = Cardinality(Places(f, len, e))
    BY <1>1, <2>1, Exchange
  <2> QED  BY <1>1, <2>2, HeldIs DEF f, g
<1>3. ASSUME \A k \in 1 .. len : Item(k)' = Item(k) PROVE Held' = Held
  BY <1>1, <1>3 DEF Held
<1>4. /\ DOMAIN arr = 0 .. Capacity /\ \A k \in 1 .. len : k \in 0 .. Capacity
      /\ pc = "up" => i \in 1 .. len
  BY HeapAssumption DEF HeapInv, HeapTypeOK
<1>5. CASE SiftUp
  <2> DEFINE p == heap_parent(i)
  <2>1. /\ pc = "up" /\ pc' = "up" /\ i > 1 /\ i' = p /\ key' = key
        /\ arr' = [arr EXCEPT ![i] = arr[p]]
    BY <1>5 DEF SiftUp, Rises
  <2>2. i \in 1 .. len /\ p \in 1 .. len /\ p # i
    BY <1>1, <1>4, <2>1, Halves
  <2> HIDE DEF p
  <2>3. arr'[i] = arr[p] /\ \A k \in 1 .. len : k # i => arr'[k] = arr[k]
    BY <1>4, <2>1, <2>2
  <2>4. \A k \in 1 .. len : Items[k] = (IF k = i THEN key ELSE arr[k])
    BY <2>1 DEF Items, Item
  <2>5. \A k \in 1 .. len : Items'[k] = (IF k = p THEN key ELSE arr'[k])
    BY <1>1, <2>1 DEF Items, Item
  <2>6. Exchanged(Items, Items', len)
    <3> DEFINE f == Items
               g == Items'
    <3>1. /\ g[i] = f[p] /\ g[p] = f[i]
          /\ \A k \in 1 .. len : k \notin {i, p} => g[k] = f[k]
      BY <2>2, <2>3, <2>4, <2>5
    <3> HIDE DEF f, g
    <3>2. Exchanged(f, g, len)
      BY <2>2, <3>1 DEF Exchanged
    <3> QED  BY <3>2 DEF f, g
  <2> QED  BY <1>1, <1>2, <2>6
<1>6. CASE Place
  <2>1. /\ pc = "up" /\ pc' = "idle" /\ arr' = [arr EXCEPT ![i] = key]
    BY <1>6 DEF Place
  <2>2. \A k \in 1 .. len : Item(k)' = Item(k)
    BY <1>4, <2>1 DEF Item
  <2> QED  BY <1>1, <1>3, <2>2
<1>7. CASE SiftDown
  <2> DEFINE m == Largest
  <2>1. /\ pc = "down" /\ pc' = "down" /\ m # i
        /\ arr' = [arr EXCEPT ![i] = arr[m], ![m] = arr[i]]
    BY <1>7 DEF SiftDown
  <2>2. m \in 1 .. len /\ i \in 1 .. len
    <3>1. m \in 2 .. len /\ i \in 1 .. len
      BY <2>1, LargestOf
    <3> QED  BY <1>1, <3>1
  <2> HIDE DEF m
  <2>3. /\ arr'[i] = arr[m] /\ arr'[m] = arr[i]
        /\ \A k \in 1 .. len : k \notin {i, m} => arr'[k] = arr[k]
    BY <1>4, <2>1, <2>2
  <2>4. \A k \in 1 .. len : Items[k] = arr[k] /\ Items'[k] = arr'[k]
    BY <1>1, <2>1 DEF Items, Item
  <2>5. Exchanged(Items, Items', len)
    <3> DEFINE f == Items
               g == Items'
    <3>1. /\ g[i] = f[m] /\ g[m] = f[i]
          /\ \A k \in 1 .. len : k \notin {i, m} => g[k] = f[k]
      BY <2>2, <2>3, <2>4
    <3> HIDE DEF f, g
    <3>2. Exchanged(f, g, len)
      BY <2>2, <3>1 DEF Exchanged
    <3> QED  BY <3>2 DEF f, g
  <2> QED  BY <1>1, <1>2, <2>5
<1>8. CASE Settle
  <2>1. \A k \in 1 .. len : Item(k)' = Item(k)
    BY <1>8 DEF Settle, Item
  <2> QED  BY <1>1, <1>3, <2>1
<1> QED  BY <1>1, <1>5, <1>6, <1>7, <1>8

LEMMA InsertHolds ==
  ASSUME HeapInv, NEW e \in Elements, heap_insert(e)
  PROVE  Q!Insert(e)
<1>1. /\ pc = "idle" /\ len' = len + 1 /\ i' = len + 1 /\ key' = e /\ pc' = "up" /\ max' = max
      /\ arr' = [arr EXCEPT ![len + 1] = null] /\ len \in Nat
      /\ arr \in [0 .. Capacity -> Elements \cup {null}]
  BY DEF heap_insert, HeapInv, HeapTypeOK
<1> DEFINE f == Items
           g == Items'
<1>2. Begins(f, g, len) /\ g[len + 1] = e
  BY <1>1 DEF Items, Item, Begins
<1>3. Held' = [Held EXCEPT ![e] = @ + 1]
  <2> HIDE DEF f, g
  <2>1. \A d \in Elements : Cardinality(Places(g, len + 1, d)) =
          Cardinality(Places(f, len, d)) + (IF d = e THEN 1 ELSE 0)
    BY <1>1, <1>2, OneMore
  <2>2. \A d \in Elements : Cardinality(Places(f, len, d)) \in Nat
    BY <1>1, PlacesFinite
  <2>3. /\ Held = [d \in Elements |-> Cardinality(Places(f, len, d))]
        /\ Held' = [d \in Elements |-> Cardinality(Places(g, len + 1, d))]
    BY <1>1, HeldIs DEF f, g
  <2> QED  BY <2>1, <2>2, <2>3
<1> QED  BY <1>1, <1>3 DEF Q!Insert, Held

\* The first element goes; the last one takes its place.
LEMMA ExtractHolds ==
  ASSUME HeapInv, heap_extract
  PROVE  arr[1] \in Elements /\ Q!Extract(arr[1])
<1> DEFINE e == arr[1]
           f == Items
           g == [k \in 1 .. len |-> IF k = len THEN arr[1] ELSE IF k = 1 THEN arr[len] ELSE arr[k]]
           h == Items'
           n == len - 1
<1>1. /\ pc = "idle" /\ len \in Nat /\ len >= 1 /\ len' = n /\ pc' = "down" /\ max' = e
      /\ arr' = [arr EXCEPT ![1] = arr[len], ![len] = arr[1]] /\ len <= Capacity
      /\ arr \in [0 .. Capacity -> Elements \cup {null}]
      /\ \A k \in 1 .. len : arr[k] \in Elements
  BY DEF heap_extract, HeapInv, HeapTypeOK
<1>2. n \in Nat /\ n + 1 = len /\ 1 \in 1 .. len /\ len \in 1 .. len
  BY <1>1
<1>3. \A k \in 1 .. len : f[k] = arr[k]
  BY <1>1 DEF Items, Item
<1>4. Begins(h, g, n)
  <2>1. \A k \in 1 .. len : k \in 0 .. Capacity
    BY <1>1, HeapAssumption
  <2>2. \A k \in 1 .. n : arr'[k] = g[k]
    BY <1>1, <1>2, <2>1
  <2>3. \A k \in 1 .. n : h[k] = arr'[k]
    BY <1>1 DEF Items, Item
  <2> HIDE DEF g, h
  <2> QED  BY <2>2, <2>3 DEF Begins
<1>5. /\ g[1] = f[len] /\ g[len] = f[1] /\ g[n + 1] = e
      /\ \A k \in 1 .. len : k \notin {1, len} => g[k] = f[k]
  BY <1>2, <1>3
<1> HIDE DEF f, g, h
<1>5a. Exchanged(f, g, len)
  BY <1>2, <1>5 DEF Exchanged
<1>6. \A d \in Elements : Cardinality(Places(g, len, d)) = Cardinality(Places(f, len, d))
  BY <1>1, <1>5a, Exchange
<1>7. \A d \in Elements : Cardinality(Places(g, n + 1, d)) =
        Cardinality(Places(h, n, d)) + (IF d = e THEN 1 ELSE 0)
  <2> HIDE DEF e, n
  <2> QED  BY <1>2, <1>4, <1>5, OneMore
<1>8. \A d \in Elements : /\ Cardinality(Places(h, n, d)) \in Nat
                          /\ Cardinality(Places(f, len, d)) \in Nat
                          /\ IsFiniteSet(Places(f, len, d))
  BY <1>1, <1>2, PlacesFinite
<1>9. /\ Held = [d \in Elements |-> Cardinality(Places(f, len, d))]
      /\ Held' = [d \in Elements |-> Cardinality(Places(h, n, d))]
  BY <1>1, HeldIs DEF f, h
<1>10. e \in Elements
  BY <1>1, <1>2
<1>11. Held' = [Held EXCEPT ![e] = @ - 1]
  <2>1. \A d \in Elements : Cardinality(Places(h, n, d)) =
          Cardinality(Places(f, len, d)) - (IF d = e THEN 1 ELSE 0)
    BY <1>2, <1>6, <1>7, <1>8
  <2> HIDE DEF e, n
  <2> QED  BY <1>8, <1>9, <1>10, <2>1
<1>12. Held[e] > 0
  <2>1. 1 \in Places(f, len, e)
    BY <1>2, <1>3 DEF Places
  <2>2. Cardinality(Places(f, len, e)) # 0
    BY <1>8, <1>10, <2>1, FS_EmptySet
  <2> HIDE DEF e
  <2> QED  BY <1>8, <1>9, <1>10, <2>2
<1>13. ASSUME NEW d \in Elements, Held[d] > 0 PROVE Rank[d] <= Rank[e]
  <2>1. Places(f, len, d) # {}
    <3>1. Cardinality(Places(f, len, d)) > 0
      BY <1>9, <1>13
    <3> QED  BY <1>8, <3>1, FS_EmptySet
  <2>2. PICK k \in 1 .. len : arr[k] = d
    BY <1>3, <2>1 DEF Places
  <2> QED  BY <1>1, <2>2, TopIsHighest
<1> QED  BY <1>1, <1>10, <1>11, <1>12, <1>13 DEF Q!Extract, Held

\* heap_insert and heap_extract are those of a priority queue, whatever the
\* loops of other calls have moved before: nothing is lost or doubled, and what
\* is given is of the highest rank there is.
THEOREM HeapIsQueue == HeapSpec => HeapImplements
<1>1. HeapInit => Q!QueueInit
  <2> SUFFICES ASSUME HeapInit PROVE Q!QueueInit
    OBVIOUS
  <2>1. \A e \in Elements : {k \in 1 .. len : Item(k) = e} = {}
    BY DEF HeapInit
  <2>2. \A e \in Elements : Cardinality({k \in 1 .. len : Item(k) = e}) = 0
    BY <2>1, FS_EmptySet
  <2> QED  BY <2>2 DEF HeapInit, Q!QueueInit
<1>2. HeapInv /\ HeapInv' /\ [HeapNext]_heapVars =>
        [\E e \in Elements : Q!Insert(e) \/ Q!Extract(e)]_<<Held, max>>
  <2> SUFFICES ASSUME HeapInv, HeapInv', [HeapNext]_heapVars
               PROVE  [\E e \in Elements : Q!Insert(e) \/ Q!Extract(e)]_<<Held, max>>
    OBVIOUS
  <2>1. ASSUME NEW e \in Elements, heap_insert(e) PROVE \E d \in Elements : Q!Insert(d)
    BY <2>1, InsertHolds
  <2>2. ASSUME heap_extract PROVE \E d \in Elements : Q!Extract(d)
    BY <2>2, ExtractHolds
  <2>3. CASE SiftUp \/ Place \/ SiftDown \/ Settle
    BY <2>3, LoopHolds
  <2>4. CASE UNCHANGED heapVars
    BY <2>4 DEF heapVars, Held, Item
  <2> QED  BY <2>1, <2>2, <2>3, <2>4 DEF HeapNext
<1>3. HeapSpec => []HeapInv
  BY InOrder
<1> QED
  BY <1>1, <1>2, <1>3, PTL DEF HeapSpec, HeapImplements, Q!QueueSpec, Held

=============================================================================
