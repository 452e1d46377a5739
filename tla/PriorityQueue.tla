--------------------------- MODULE PriorityQueue ---------------------------
(***************************************************************************)
(* What a heap promises: a bag of elements that gives one of the highest   *)
(* rank each time.                                                         *)
(***************************************************************************)
EXTENDS Integers

CONSTANTS Elements, Rank, null

VARIABLES queue, given

QueueInit == queue = [e \in Elements |-> 0] /\ given = null

Insert(e) == queue' = [queue EXCEPT ![e] = @ + 1] /\ UNCHANGED given

Extract(e) ==
  /\ queue[e] > 0
  /\ \A d \in Elements : queue[d] > 0 => Rank[d] <= Rank[e]
  /\ queue' = [queue EXCEPT ![e] = @ - 1]
  /\ given' = e

QueueSpec == QueueInit /\ [][\E e \in Elements : Insert(e) \/ Extract(e)]_<<queue, given>>
=============================================================================
