------------------------------- MODULE Array -------------------------------
(***************************************************************************)
(* What an infinite array promises: entries, one by one, and an index up   *)
(* to which they count.                                                    *)
(***************************************************************************)
EXTENDS Integers

CONSTANTS IaValues, null, MaxIndex

VARIABLES contents, last

Indices == 0 .. MaxIndex

ArrayInit == contents = [k \in Indices |-> null] /\ last = -1

Put(k, v)    == contents' = [contents EXCEPT ![k] = v] /\ last' = (IF last < k THEN k ELSE last)
Append(v)    == last < MaxIndex /\ Put(last + 1, v)
Cut(n)       == n < last /\ last' = n /\ UNCHANGED contents
Swap(j, k)   == /\ contents' = [contents EXCEPT ![j] = contents[k], ![k] = contents[j]]
                /\ last' \in {last, j, k} /\ last' >= last

ArrayNext ==
  \/ \E k \in Indices, v \in IaValues : Put(k, v)
  \/ \E v \in IaValues : Append(v)
  \/ Cut(last - 1) \/ Cut(-1)
  \/ \E j, k \in Indices : Swap(j, k)

ArraySpec == ArrayInit /\ [][ArrayNext]_<<contents, last>>
=============================================================================
