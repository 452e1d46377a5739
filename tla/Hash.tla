-------------------------------- MODULE Hash --------------------------------
(***************************************************************************)
(* The tables by name: the hash tables of the parser                       *)
(* (src/src/parser/hash.c) and the sorted tables of the feature checker    *)
(* (StringAssoc, src/src/featchecker/nl-stringassoc.h).                    *)
(***************************************************************************)
EXTENDS Integers, Sequences, SequencesExt, Null

CONSTANTS
  Names,           \* strings, as natural numbers in the order of strcmp
  nhash,           \* the hash value of each
  HashValues,      \* what is entered
  Sizes,           \* what hash_new is called with
  iMax,            \* what StringAssoc::Init is called with
  MaxEntries       \* bound: the calls of hash_enter

VARIABLES
  tab,             \* the buckets, each a list of entries; null before hash_new
  enters,          \* how often hash_enter was called
  entered,         \* history: the value entered last for each name
  pptEntries,      \* StringAssoc: pointers to objects in the order of names
  ptObjects,       \* the name of each object, in the order of their creation
  overrun          \* an entry was written behind the end of the arrays

hashVars  == <<tab, enters, entered>>
assocVars == <<pptEntries, ptObjects, overrun>>

-----------------------------------------------------------------------------
(* hash.c                                                                   *)

HashInit == tab = null /\ enters = 0 /\ entered = [n \in Names |-> null]

PowerOfTwo(n) == n \in {2 ^ k : k \in 0 .. 30}

\* Any other number of buckets is refused: the bucket is the hash value's
\* lowest bits.
hash_new(n) ==
  /\ tab = null /\ PowerOfTwo(n)
  /\ tab' = [b \in 0 .. n - 1 |-> <<>>]
  /\ UNCHANGED <<enters, entered>>

Bucket(name) == nhash[name] % Cardinality(DOMAIN tab)

\* A new entry goes before the others, of the same name too.
hash_enter(name, v) ==
  /\ tab # null /\ enters < MaxEntries
  /\ tab' = [tab EXCEPT ![Bucket(name)] = <<[key |-> name, value |-> v]>> \o @]
  /\ enters' = enters + 1
  /\ entered' = [entered EXCEPT ![name] = v]

\* Fault: the first entry of the bucket is taken.
hash_lookup_first(name) ==
  IF tab[Bucket(name)] = <<>> THEN null ELSE tab[Bucket(name)][1].value

hash_lookup(name) ==
  LET found == SelectSeq(tab[Bucket(name)], LAMBDA e : e.key = name)
  IN IF found = <<>> THEN null ELSE found[1].value

HashNext ==
  \/ \E n \in Sizes : hash_new(n)
  \/ \E name \in Names, v \in HashValues : hash_enter(name, v)

-----------------------------------------------------------------------------
(* StringAssoc                                                              *)

AssocInit == pptEntries = <<>> /\ ptObjects = <<>> /\ overrun = FALSE

\* The binary search: the place looked at last, counted from 1, and the sign
\* of the last comparison.
RECURSIVE Search(_, _, _, _)
Search(name, from, to, at) ==
  LET mid  == (from + to - 2) \div 2 + 1
      diff == name - ptObjects[pptEntries[mid]]
  IN IF from > to THEN at
     ELSE IF diff < 0 THEN Search(name, from, mid - 1, [targ |-> mid, diff |-> diff])
     ELSE IF diff > 0 THEN Search(name, mid + 1, to, [targ |-> mid, diff |-> diff])
     ELSE [targ |-> mid, diff |-> 0]

Found(name) == Search(name, 1, Len(pptEntries), [targ |-> 0, diff |-> 1])

\* Fault: the place found is not adjusted.
TargetShort(name) == LET f == Found(name) IN IF f.targ = 0 THEN 1 ELSE f.targ

\* "Adjust for overshot".
Target(name) == LET f == Found(name) IN IF f.diff > 0 THEN f.targ + 1 ELSE f.targ

\* AddObject of a name that is not found.  The test for a full table passes
\* when iLast is iMax - 1 and all the iMax entries are taken.
AddObject(name) ==
  /\ ~overrun /\ Found(name).diff # 0
  /\ ptObjects' = Append(ptObjects, name)
  /\ pptEntries' = InsertAt(pptEntries, Target(name), Len(ptObjects) + 1)
  /\ overrun' = (Len(ptObjects) = iMax)

\* GetObject, and AddObject of a name that is there.
GetObject(name) == IF Found(name).diff = 0 THEN pptEntries[Found(name).targ] ELSE null

AssocNext == \E name \in Names : AddObject(name)

-----------------------------------------------------------------------------
\* A name is found with the value it was entered with last, whatever other
\* names share its bucket; and every name added to a sorted table has an
\* object of its own, found by every later search.
TablesFind ==
  /\ tab # null => \A n \in Names : hash_lookup(n) = entered[n]
  /\ \A n \in Names :
       IF n \in ToSet(ptObjects)
       THEN GetObject(n) # null /\ ptObjects[GetObject(n)] = n
       ELSE GetObject(n) = null
=============================================================================
