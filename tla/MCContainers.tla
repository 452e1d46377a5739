---------------------------- MODULE MCContainers ----------------------------
(***************************************************************************)
(* The containers on small instances, one of them in each behaviour.       *)
(***************************************************************************)
EXTENDS Spar, Ia, Heap, Hash, CircList

CONSTANTS e1, e2, e3

VARIABLE part

\* Elements of one rank are the same ones, inserted again.
MCRank  == [e \in {e1, e2, e3} |-> IF e = e1 THEN 1 ELSE IF e = e2 THEN 2 ELSE 3]

\* Two of four names share a bucket of four, all of them one of one.
MCnhash == <<5, 2, 9, 7>>

MCInit ==
  /\ part \in {"matrix", "array", "heap", "hash", "assoc", "list"}
  /\ Init /\ IaInit /\ HeapInit /\ HashInit /\ AssocInit /\ ListInit

others == <<vars, iaVars, heapVars, hashVars, assocVars, listVars>>

MCNext ==
  /\ UNCHANGED part
  /\ \/ part = "matrix" /\ Next /\ UNCHANGED <<iaVars, heapVars, hashVars, assocVars, listVars>>
     \/ part = "array" /\ IaNext /\ UNCHANGED <<vars, heapVars, hashVars, assocVars, listVars>>
     \/ part = "heap" /\ HeapNext /\ UNCHANGED <<vars, iaVars, hashVars, assocVars, listVars>>
     \/ part = "hash" /\ HashNext /\ UNCHANGED <<vars, iaVars, heapVars, assocVars, listVars>>
     \/ part = "assoc" /\ AssocNext /\ UNCHANGED <<vars, iaVars, heapVars, hashVars, listVars>>
     \/ part = "list" /\ ListNext /\ UNCHANGED <<vars, iaVars, heapVars, hashVars, assocVars>>

MCSpec == MCInit /\ [][MCNext]_<<part, others>>
=============================================================================
