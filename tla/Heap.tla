-------------------------------- MODULE Heap --------------------------------
(***************************************************************************)
(* The binary heap of the parser (src/src/parser/heap.c): the states of a  *)
(* span and the back-pointers of a state are kept in heaps.                *)
(*                                                                         *)
(* arr[1 .. len] is the heap, in an infinite array (Ia) whose entry 0 is   *)
(* not used.  A step is a call or one round of its loop; what an entry     *)
(* beyond len held stays there.                                            *)
(***************************************************************************)
EXTENDS Integers, FiniteSets, Null

CONSTANTS
  Elements,        \* the pointers in the heap
  Rank,            \* compare(a, b) has the sign of Rank[a] - Rank[b]
  Capacity         \* bound: the length of the heap

ASSUME HeapAssumption ==
  /\ Rank \in [Elements -> Int]
  /\ null \notin Elements
  /\ Capacity \in Nat

VARIABLES
  arr, len,
  pc,              \* idle, or in the loop of heap_insert or of heapify
  i, key,          \* their variables
  max              \* what the last heap_extract gives

heapVars == <<arr, len, pc, i, key, max>>

heap_left(k)   == 2 * k
heap_right(k)  == 2 * k + 1
heap_parent(k) == k \div 2

HeapInit ==
  /\ arr = [k \in 0 .. Capacity |-> null]
  /\ len = 0 /\ pc = "idle" /\ i = 0 /\ key = null /\ max = null

-----------------------------------------------------------------------------
heap_insert(e) ==
  /\ pc = "idle" /\ len < Capacity
  /\ arr' = [arr EXCEPT ![len + 1] = null]
  /\ len' = len + 1
  /\ i' = len + 1 /\ key' = e /\ pc' = "up"
  /\ UNCHANGED max

\* Fault: no element rises to the place at the top.
RisesShort == i > 2 /\ Rank[arr[heap_parent(i)]] < Rank[key]

Rises == i > 1 /\ Rank[arr[heap_parent(i)]] < Rank[key]

SiftUp ==
  /\ pc = "up" /\ Rises
  /\ arr' = [arr EXCEPT ![i] = arr[heap_parent(i)]]
  /\ i' = heap_parent(i)
  /\ UNCHANGED <<len, pc, key, max>>

Place ==
  /\ pc = "up" /\ ~Rises
  /\ arr' = [arr EXCEPT ![i] = key]
  /\ pc' = "idle"
  /\ UNCHANGED <<len, i, key, max>>

\* Callers look at heap_isempty: the abort on underflow is never reached.
heap_extract ==
  /\ pc = "idle" /\ len >= 1
  /\ max' = arr[1]
  /\ arr' = [arr EXCEPT ![1] = arr[len], ![len] = arr[1]]
  /\ len' = len - 1
  /\ i' = 1 /\ pc' = "down"
  /\ UNCHANGED key

Above(k, m) == IF k <= len /\ Rank[arr[k]] > Rank[arr[m]] THEN k ELSE m

\* Fault: the right child is compared with the parent and not with the left.
LargestEither == IF Above(heap_right(i), i) # i THEN heap_right(i) ELSE Above(heap_left(i), i)

Largest == Above(heap_right(i), Above(heap_left(i), i))

SiftDown ==
  /\ pc = "down" /\ Largest # i
  /\ arr' = [arr EXCEPT ![i] = arr[Largest], ![Largest] = arr[i]]
  /\ i' = Largest
  /\ UNCHANGED <<len, pc, key, max>>

Settle ==
  /\ pc = "down" /\ Largest = i
  /\ pc' = "idle"
  /\ UNCHANGED <<arr, len, i, key, max>>

HeapNext ==
  \/ \E e \in Elements : heap_insert(e)
  \/ SiftUp \/ Place \/ heap_extract \/ SiftDown \/ Settle

HeapSpec == HeapInit /\ [][HeapNext]_heapVars

-----------------------------------------------------------------------------
HeapTypeOK ==
  /\ arr \in [0 .. Capacity -> Elements \cup {null}]
  /\ len \in 0 .. Capacity
  /\ pc \in {"idle", "up", "down"}
  /\ pc = "up" => i \in 1 .. len /\ key \in Elements
  /\ pc = "down" => i \in Nat \ {0}
  /\ \A k \in 1 .. len : (pc = "up" /\ k = i) \/ arr[k] \in Elements

\* Every element but those about the place i ranks no higher than its parent,
\* and the children of i rank no higher than the parent of i.
HeapOrder ==
  /\ \A k \in 2 .. len :
       \/ pc = "up" /\ k = i
       \/ pc # "idle" /\ heap_parent(k) = i
       \/ Rank[arr[k]] <= Rank[arr[heap_parent(k)]]
  /\ \A k \in 2 .. len :
       heap_parent(k) = i =>
         /\ pc = "up" => Rank[arr[k]] <= Rank[key]
         /\ pc # "idle" /\ i > 1 => Rank[arr[k]] <= Rank[arr[heap_parent(i)]]

\* The order of a heap, but about the place that a loop is at.
HeapInv == HeapTypeOK /\ HeapOrder

\* heap_extract gives an element that no element in the heap ranks above,
\* whatever was inserted and extracted before.
ServesBest ==
  [][heap_extract => \A k \in 1 .. len : Rank[arr[k]] <= Rank[max']]_heapVars

\* The heap is a priority queue: between its loops nothing is lost or doubled.
Item(k) == IF pc = "up" /\ k = i THEN key ELSE arr[k]

Q == INSTANCE PriorityQueue WITH
       queue <- [e \in Elements |-> Cardinality({k \in 1 .. len : Item(k) = e})],
       given <- max

\* heap_insert and heap_extract are those of a priority queue, step by step.
HeapImplements == Q!QueueSpec
=============================================================================
