---------------------------- MODULE Chart_proofs ----------------------------
(***************************************************************************)
(* The lists and the chart of the parser are in order, for every grammar   *)
(* and sentences of every length.                                          *)
(*                                                                         *)
(* The lists of hparse() never hold anything but the newest states, in the *)
(* order of allocation: Store appends the state it has just allocated, and *)
(* NextList drops a list that has been passed in full.  So the place in    *)
(* plist tells which states have been through hparse_init_head; the proof  *)
(* needs, besides the invariant of HParse_proofs, that the handlers after  *)
(* hparse_init_head run on a state of the list.                            *)
(*                                                                         *)
(* A heap keeps the states of its span because heap_insert permutes: it    *)
(* moves entries one place down along the path to the root and puts the    *)
(* new one where the last came from.  hp_check_heap searches one heap and  *)
(* so finds every state that makes a new one superfluous.  That a later    *)
(* change of type or goal makes none superfluous needs Goals: a goal for a *)
(* node never serves another goal at that node.                            *)
(***************************************************************************)
EXTENDS HParse_proofs, FiniteSetTheorems

\* The number of the first state on the lists.
First == Len(states) + 1 - Len(plist) - Len(nlist)

\* AgendaComplete, said of the two lists apart.
OnLists ==
  /\ \A k \in DOMAIN plist : plist[k] = First + k - 1
  /\ \A k \in DOMAIN nlist : nlist[k] = First + Len(plist) + k - 1
  /\ \A p \in Ids : states[p].type = "init" => p >= First + Expanded

\* The handlers that follow hparse_init_head run on the state it was given.
InPlace == stage \in {"move", "complete"} => idx <= Len(plist)

AgendaInv == Inv /\ OnLists /\ InPlace

-----------------------------------------------------------------------------
\* The types that the steps below reason with.
LEMMA AgendaTypes ==
  ASSUME Inv, InPlace
  PROVE  /\ Len(states) \in Nat /\ Ids = 1 .. Len(states)
         /\ Len(plist) \in Nat /\ DOMAIN plist = 1 .. Len(plist)
         /\ Len(nlist) \in Nat /\ DOMAIN nlist = 1 .. Len(nlist)
         /\ plist \in Seq(Ids) /\ nlist \in Seq(Ids)
         /\ idx \in 1 .. Len(plist) + 1 /\ First \in Int
         /\ Expanded \in 0 .. Len(plist)
<1>1. /\ plist \in Seq(Ids) /\ nlist \in Seq(Ids) /\ idx \in 1 .. Len(plist) + 1
  BY DEF Inv, Inductive, TypeOK
<1>2. Len(states) \in Nat /\ Ids = 1 .. Len(states)
  BY StatesOK
<1>3. /\ Len(plist) \in Nat /\ DOMAIN plist = 1 .. Len(plist)
      /\ Len(nlist) \in Nat /\ DOMAIN nlist = 1 .. Len(nlist)
  BY <1>1
<1>4. Expanded \in 0 .. Len(plist)
  BY <1>1, <1>3 DEF Expanded, InPlace
<1> QED  BY <1>1, <1>2, <1>3, <1>4 DEF First

\* Before the seeds are added there is nothing on the lists.
LEMMA AgendaInit ==
  ASSUME Init
  PROVE  AgendaInv
<1>1. Inv  BY InitInv
<1>2. DOMAIN plist = {} /\ DOMAIN nlist = {} /\ Ids = {}
  BY DEF Init, Ids
<1> QED  BY <1>1, <1>2 DEF AgendaInv, OnLists, InPlace, Init

\* What is done to states already there moves nothing on the lists, unless it
\* makes one a prediction.
LEMMA AgendaKept ==
  ASSUME AgendaInv, Len(states') = Len(states), DOMAIN states' = Ids,
         \A p \in Ids : states'[p].type = "init" => states[p].type = "init",
         plist' = plist, nlist' = nlist, idx' = idx,
         stage' = stage \/ stage' = "abort" \/ (stage = "move" /\ stage' = "complete")
  PROVE  OnLists' /\ InPlace'
<1>1. First' = First /\ Ids' = Ids
  BY DEF First, Ids
<1>2. Expanded' <= Expanded /\ Expanded' \in Int /\ InPlace'
  BY AgendaTypes DEF Expanded, AgendaInv, InPlace
<1>3. ASSUME NEW p \in Ids, states'[p].type = "init"
      PROVE  p >= First' + Expanded'
  BY <1>1, <1>2, <1>3, AgendaTypes DEF AgendaInv, OnLists
<1> QED  BY <1>1, <1>2, <1>3 DEF AgendaInv, OnLists

\* A stored state goes to the end of the next list, where it is the newest.
LEMMA AgendaStore ==
  ASSUME AgendaInv, NEW t, t \in State, Store(t), UNCHANGED <<plist, idx>>
  PROVE  OnLists' /\ InPlace'
<1> DEFINE id == Len(states) + 1
<1>1. states \in Seq(State) /\ nlist \in Seq(Ids) /\ id \in Nat
  BY StatesOK, AgendaTypes DEF AgendaInv
<1>2. /\ states' = Append(states, t) /\ nlist' = Append(nlist, id) /\ stage' = stage
  BY DEF Store
<1>3. /\ Len(states') = id /\ states'[id] = t /\ DOMAIN states' = 1 .. id
      /\ \A p \in Ids : states'[p] = states[p]
  BY <1>1, <1>2, AppendProperties, AgendaTypes DEF AgendaInv
<1>4. /\ Len(nlist') = Len(nlist) + 1 /\ nlist'[Len(nlist) + 1] = id
      /\ DOMAIN nlist' = 1 .. Len(nlist) + 1
      /\ \A k \in 1 .. Len(nlist) : nlist'[k] = nlist[k]
  BY <1>1, <1>2
<1> HIDE DEF id
<1>5. First' = First /\ Expanded' = Expanded /\ InPlace'
  BY <1>2, <1>3, <1>4, AgendaTypes DEF First, Expanded, InPlace, AgendaInv, id
<1>6. ASSUME NEW k \in DOMAIN nlist'
      PROVE  nlist'[k] = First + Len(plist) + k - 1
  <2>1. k \in 1 .. Len(nlist) + 1 /\ Len(nlist) \in Nat
    BY <1>4, AgendaTypes DEF AgendaInv
  <2>2. CASE k \in 1 .. Len(nlist)
    BY <1>4, <2>2, AgendaTypes DEF AgendaInv, OnLists
  <2>3. CASE k = Len(nlist) + 1
    BY <1>4, <2>3, AgendaTypes DEF AgendaInv, First, id
  <2> QED  BY <2>1, <2>2, <2>3
<1>7. ASSUME NEW p \in Ids', states'[p].type = "init"
      PROVE  p >= First + Expanded
  <2>1. CASE p \in Ids
    BY <1>3, <1>7, <2>1 DEF AgendaInv, OnLists
  <2>2. CASE p = id
    BY <2>2, AgendaTypes DEF AgendaInv, First, id
  <2>3. p \in 1 .. Len(states) + 1 /\ Ids = 1 .. Len(states) /\ Len(states) \in Nat
    BY <1>3, AgendaTypes DEF Ids, id, AgendaInv
  <2> QED  BY <2>1, <2>2, <2>3 DEF id
<1> QED  BY <1>5, <1>6, <1>7 DEF AgendaInv, OnLists

\* Merging changes nothing but back pointers.
LEMMA AgendaMerge ==
  ASSUME AgendaInv, NEW d \in Ids, NEW t, Merge(d, t), UNCHANGED <<plist, idx>>
  PROVE  OnLists' /\ InPlace'
<1>1. PICK ptrs : /\ stage' \in {stage, "abort"} /\ nlist' = nlist
                  /\ states' = states \/ states' = [states EXCEPT ![d].bp = @ \o ptrs]
  BY DEF Merge
<1>2. states[d] \in State
  BY StatesOK DEF AgendaInv
<1>3. /\ DOMAIN states' = Ids /\ Len(states') = Len(states)
      /\ \A p \in Ids : states'[p].type = states[p].type
  <2>1. CASE states' = states
    BY <2>1 DEF Ids
  <2>2. CASE states' = [states EXCEPT ![d].bp = @ \o ptrs]
    <3>1. states' = [states EXCEPT ![d] = [states[d] EXCEPT !.bp = states[d].bp \o ptrs]]
      BY <2>2
    <3>2. [states[d] EXCEPT !.bp = states[d].bp \o ptrs].type = states[d].type
      BY <1>2 DEF State
    <3>3. DOMAIN states' = Ids /\ \A p \in Ids : states'[p].type = states[p].type
      BY <3>1, <3>2 DEF Ids
    <3>4. Len(states') = Len(states)
      BY <3>1, StatesOK DEF AgendaInv
    <3> QED  BY <3>3, <3>4
  <2> QED  BY <1>1, <2>1, <2>2
<1>4. \A p \in Ids : states'[p].type = "init" => states[p].type = "init"
  BY <1>3
<1>5. plist' = plist /\ idx' = idx /\ nlist' = nlist /\ (stage' = stage \/ stage' = "abort")
  BY <1>1
<1> QED  BY <1>3, <1>4, <1>5, AgendaKept

\* hparse_add keeps the lists complete.
LEMMA AgendaAdd ==
  ASSUME AgendaInv, Add
  PROVE  OnLists' /\ InPlace'
<1>1. PICK r \in todo : hparse_add(r.t)
  BY DEF Add
<1>2. UNCHANGED <<plist, idx>>
  BY DEF Add
<1>3. Sound(hand, states, r.t) /\ r.t \in State
  BY DEF AgendaInv, Inv, Inductive, Sound, Bounded
<1>4. CASE Drop(r.t)
  <2>1. /\ plist' = plist /\ idx' = idx /\ nlist' = nlist /\ stage' = stage
        /\ states' = states
    BY <1>2, <1>4 DEF Drop
  <2>2. DOMAIN states' = Ids /\ Len(states') = Len(states)
    BY <2>1 DEF Ids
  <2> QED  BY <2>1, <2>2, AgendaKept
<1>5. CASE CheckHeap(r.t) # 0 /\ Merge(CheckHeap(r.t), r.t)
  <2>1. CheckHeap(r.t) \in Ids
    BY <1>3, <1>5, CheckHeapIn DEF Sound, AgendaInv
  <2> QED  BY <1>2, <1>5, <2>1, AgendaMerge
<1>6. CASE Store(r.t)
  BY <1>2, <1>3, <1>6, AgendaStore
<1> QED  BY <1>1, <1>4, <1>5, <1>6 DEF hparse_add

\* hparse_init_head takes the prediction at the current place, the lowest that
\* may be left, and makes it a goal.
LEMMA AgendaInitHead ==
  ASSUME AgendaInv, InitHead
  PROVE  OnLists' /\ InPlace'
<1> DEFINE p == plist[idx]
<1>1. /\ stage = "head" /\ stage' = "move" /\ UNCHANGED <<plist, nlist, idx>>
      /\ idx \in 1 .. Len(plist)
  BY AgendaTypes DEF InitHead, Current, AgendaInv
<1>2. p \in Ids /\ p = First + idx - 1
  <2>1. /\ plist \in Seq(Ids) /\ DOMAIN plist = 1 .. Len(plist)
        /\ \A k \in DOMAIN plist : plist[k] = First + k - 1
    BY AgendaTypes DEF AgendaInv, OnLists
  <2> QED  BY <1>1, <2>1
<1>3. /\ DOMAIN states' = Ids /\ Len(states') = Len(states)
      /\ states'[p].type # "init"
      /\ \A q \in Ids \ {p} : states'[q] = states[q]
  <2>1. CASE states[p].type # "init"
    BY <2>1 DEF InitHead, Ids
  <2>2. CASE states[p].type = "init"
    <3>1. PICK g : states' = [states EXCEPT ![p].type = "goal", ![p].g = g]
      BY <2>2 DEF InitHead
    <3>2. states' = [states EXCEPT ![p] = [states[p] EXCEPT !.type = "goal", !.g = g]]
      BY <3>1
    <3>3. states[p] \in State
      BY <1>2, StatesOK DEF AgendaInv
    <3>4. [states[p] EXCEPT !.type = "goal", !.g = g].type = "goal"
      BY <3>3 DEF State
    <3> HIDE DEF p
    <3>5. Len(states') = Len(states)
      BY <3>2, StatesOK DEF AgendaInv
    <3> QED  BY <1>2, <3>2, <3>4, <3>5 DEF Ids
  <2> QED  BY <2>1, <2>2
<1> HIDE DEF p
<1>4. /\ First' = First /\ Ids' = Ids /\ InPlace'
      /\ Expanded = idx - 1 /\ Expanded' = idx
  BY <1>1, <1>3 DEF First, Ids, InPlace, Expanded
<1>5. ASSUME NEW q \in Ids, states'[q].type = "init"
      PROVE  q >= First + idx
  <2>1. q # p /\ states[q].type = "init"
    BY <1>3, <1>5
  <2>2. q >= First + (idx - 1)
    BY <1>4, <2>1 DEF AgendaInv, OnLists
  <2> QED  BY <1>1, <1>2, <2>1, <2>2, AgendaTypes DEF AgendaInv
<1> QED  BY <1>1, <1>4, <1>5 DEF AgendaInv, OnLists

\* hparse_move_up and the completer leave states and lists alone.
LEMMA AgendaMoveUp ==
  ASSUME AgendaInv, MoveUp
  PROVE  OnLists' /\ InPlace'
BY AgendaKept DEF MoveUp, Ids

\* The completer leaves the states alone and passes to the next place.
LEMMA AgendaCompleter ==
  ASSUME AgendaInv, Completer
  PROVE  OnLists' /\ InPlace'
<1>1. /\ stage = "complete" /\ stage' = "head" /\ idx' = idx + 1
      /\ UNCHANGED <<states, plist, nlist>>
  BY DEF Completer
<1>2. First' = First /\ Ids' = Ids /\ Expanded' = Expanded /\ InPlace'
  BY <1>1, AgendaTypes DEF First, Ids, Expanded, InPlace, AgendaInv
<1> QED  BY <1>1, <1>2 DEF AgendaInv, OnLists

\* When the list has been passed, all its states have been expanded: the next
\* list takes over, and at the end nothing is left.
LEMMA AgendaNextList ==
  ASSUME AgendaInv, NextList
  PROVE  OnLists' /\ InPlace'
<1>1. /\ stage = "head" /\ stage' \in {"head", "done"} /\ idx' = 1
      /\ plist' = nlist /\ nlist' = <<>> /\ states' = states /\ idx > Len(plist)
  BY DEF NextList
<1>2. idx = Len(plist) + 1 /\ Expanded = Len(plist)
  BY <1>1, AgendaTypes DEF Expanded, AgendaInv
<1>3. Len(nlist') = 0 /\ DOMAIN nlist' = {}
  BY <1>1
<1>4. First' = First + Len(plist) /\ Ids' = Ids /\ Expanded' = 0 /\ InPlace'
  BY <1>1, <1>3, AgendaTypes DEF First, Ids, Expanded, InPlace, AgendaInv
<1>5. ASSUME NEW p \in Ids, states[p].type = "init"
      PROVE  p >= First' + Expanded'
  BY <1>2, <1>4, <1>5, AgendaTypes DEF AgendaInv, OnLists
<1>6. \A k \in DOMAIN plist' : plist'[k] = First' + k - 1
  BY <1>1, <1>4 DEF AgendaInv, OnLists
<1> QED  BY <1>1, <1>3, <1>4, <1>5, <1>6 DEF OnLists

\* Every step keeps the lists complete.
LEMMA AgendaNext ==
  ASSUME AgendaInv, [Next]_vars
  PROVE  AgendaInv'
<1>1. Inv'
  BY NextInv DEF AgendaInv
<1>2. CASE Next
  BY <1>1, <1>2, AgendaAdd, AgendaInitHead, AgendaMoveUp, AgendaCompleter,
     AgendaNextList DEF Next, AgendaInv
<1>3. CASE UNCHANGED vars
  <2>1. /\ plist' = plist /\ idx' = idx /\ nlist' = nlist /\ stage' = stage
        /\ states' = states
    BY <1>3 DEF vars
  <2>2. DOMAIN states' = Ids /\ Len(states') = Len(states)
    BY <2>1 DEF Ids
  <2>3. OnLists' /\ InPlace'
    BY <2>1, <2>2, AgendaKept
  <2> QED  BY <1>1, <2>3 DEF AgendaInv
<1> QED  BY <1>2, <1>3

\* The two lists, one after the other.
LEMMA AgendaJoined ==
  ASSUME AgendaInv
  PROVE  AgendaComplete
<1> DEFINE agenda == plist \o nlist
<1>1. /\ Len(agenda) = Len(plist) + Len(nlist) /\ DOMAIN agenda = 1 .. Len(agenda)
      /\ \A k \in 1 .. Len(plist) + Len(nlist) :
           agenda[k] = IF k <= Len(plist) THEN plist[k] ELSE nlist[k - Len(plist)]
  BY AgendaTypes, ConcatProperties DEF AgendaInv
<1> HIDE DEF agenda
<1>2. First = Len(states) + 1 - Len(agenda)
  BY <1>1, AgendaTypes DEF First, AgendaInv
<1>3. ASSUME NEW k \in DOMAIN agenda
      PROVE  agenda[k] = First + k - 1
  <2>1. k \in 1 .. Len(plist) + Len(nlist)
    BY <1>1
  <2>2. CASE k <= Len(plist)
    BY <1>1, <2>1, <2>2, AgendaTypes DEF AgendaInv, OnLists
  <2>3. CASE ~ (k <= Len(plist))
    <3>1. k - Len(plist) \in DOMAIN nlist /\ agenda[k] = nlist[k - Len(plist)]
      BY <1>1, <2>1, <2>3, AgendaTypes DEF AgendaInv
    <3>2. nlist[k - Len(plist)] = First + Len(plist) + (k - Len(plist)) - 1
      BY <3>1 DEF AgendaInv, OnLists
    <3> QED  BY <2>1, <3>1, <3>2, AgendaTypes DEF AgendaInv
  <2> QED  BY <2>2, <2>3
<1> QED  BY <1>2, <1>3 DEF AgendaComplete, AgendaInv, OnLists, agenda

-----------------------------------------------------------------------------
\* hparse() expands every state it stores, exactly once and in the order of
\* allocation, and ends with none left unexpanded.
THEOREM EveryStateExpanded == Spec => []AgendaComplete
<1>1. Init => AgendaInv
  BY AgendaInit
<1>2. AgendaInv /\ [Next]_vars => AgendaInv'
  BY AgendaNext
<1>3. AgendaInv => AgendaComplete
  BY AgendaJoined
<1> QED  BY <1>1, <1>2, <1>3, PTL DEF Spec

-----------------------------------------------------------------------------

\* The places that heap_insert goes up from a new leaf: those of the states
\* that move down, and the leaf.
Risen(cell, t) ==
  LET leaf == Len(cell) + 1
  IN {leaf} \cup
     {a \in HeapPath[leaf] :
        /\ a < leaf
        /\ t.type = "item"
        /\ \A x \in HeapPath[leaf] :
             a <= x /\ x < leaf => states[cell[x]].type # "item"}

\* heap_insert, place by place.
LEMMA HeapInsertAt ==
  ASSUME NEW cell, NEW id, NEW t
  PROVE  HeapInsert(cell, id, t) =
           [p \in 1 .. Len(cell) + 1 |->
              IF p \notin Risen(cell, t) THEN cell[p]
              ELSE IF p \div 2 \in Risen(cell, t) THEN cell[p \div 2]
              ELSE id]
BY DEF HeapInsert, Risen

\* They are the lower end of the path, and the new state takes the highest.
LEMMA RisenIs ==
  ASSUME NEW cell, Len(cell) \in Nat, NEW t
  PROVE  LET leaf  == Len(cell) + 1
             risen == Risen(cell, t)
         IN /\ leaf \in risen /\ risen \subseteq 1 .. leaf
            /\ \E top \in risen :
                 \A p \in risen : p >= top /\ (p \div 2 \notin risen <=> p = top)
            /\ \A q \in risen : q < leaf => \E k \in risen : k \div 2 = q
            /\ \A k, l \in risen : k \div 2 = l \div 2 => k = l
            /\ \A q \in risen : q < leaf => t.type = "item" /\ states[cell[q]].type # "item"
            /\ \A p \in risen : p > 1 /\ p \div 2 \notin risen /\ t.type = "item"
                 => states[cell[p \div 2]].type = "item"
<1> DEFINE leaf  == Len(cell) + 1
           risen == Risen(cell, t)
           A     == HeapPath[leaf]
           low(x) == states[cell[x]].type # "item"
<1>1. leaf \in Nat \ {0}
  OBVIOUS
<1>2. IsPath(leaf, A)
  BY <1>1, HeapPathIs
<1>3. risen = {leaf} \cup {a \in A : /\ a < leaf /\ t.type = "item"
                                    /\ \A x \in A : a <= x /\ x < leaf => low(x)}
  BY DEF Risen
<1> HIDE DEF leaf, risen, A, low
<1>4. leaf \in risen /\ risen \subseteq A /\ A \subseteq 1 .. leaf /\ risen \subseteq 1 .. leaf
  BY <1>2, <1>3 DEF IsPath
<1>5. ASSUME NEW q \in risen, q < leaf
      PROVE  /\ t.type = "item" /\ low(q)
             /\ \A x \in A : q <= x => x \in risen
  <2>1. q \in A /\ t.type = "item" /\ \A x \in A : q <= x /\ x < leaf => low(x)
    BY <1>1, <1>3, <1>5
  <2>2. q \in 1 .. leaf
    BY <1>4
  <2>3. low(q)
    BY <1>5, <2>1, <2>2
  <2>4. ASSUME NEW x \in A, q <= x PROVE x \in risen
    <3>1. x \in 1 .. leaf  BY <1>4
    <3>2. CASE x = leaf  BY <1>4, <3>2
    <3>3. CASE x < leaf
      <4>1. \A y \in A : x <= y /\ y < leaf => low(y)
        BY <1>1, <1>4, <2>1, <2>2, <2>4, <3>1
      <4> QED  BY <1>3, <2>1, <3>3, <4>1
    <3> QED  BY <1>1, <3>1, <3>2, <3>3
  <2> QED  BY <2>1, <2>3, <2>4
<1>6. ASSUME NEW q \in risen, NEW p \in risen, q < p
      PROVE  p \div 2 \in risen
  <2>1. p \in 1 .. leaf /\ q \in 1 .. leaf /\ p > 1 /\ q < leaf
    BY <1>1, <1>4, <1>6
  <2>2. p \div 2 \in A /\ q <= p \div 2
    BY <1>2, <1>4, <1>6, <2>1 DEF IsPath
  <2> QED  BY <1>5, <2>1, <2>2
<1>7. PICK top \in risen : \A p \in risen : top <= p
  <2>1. risen \subseteq Nat /\ risen # {}
    BY <1>1, <1>4
  <2> QED  BY <2>1, LeastPlace
<1>8. ASSUME NEW p \in risen
      PROVE  p >= top /\ (p \div 2 \notin risen <=> p = top)
  <2>1. p \in 1 .. leaf /\ top \in 1 .. leaf /\ top <= p
    BY <1>4, <1>7
  <2>2. CASE p = top
    <3>1. p \div 2 < p  BY <1>1, <2>1
    <3>2. ASSUME p \div 2 \in risen PROVE FALSE
      <4>1. top <= p \div 2  BY <1>7, <3>2
      <4> QED  BY <1>1, <2>1, <2>2, <3>1, <4>1
    <3> QED  BY <1>1, <2>1, <2>2, <3>2
  <2>3. CASE p # top
    <3>1. top < p  BY <1>1, <2>1, <2>3
    <3> QED  BY <1>6, <2>1, <2>3, <3>1
  <2> QED  BY <2>2, <2>3
<1>9. ASSUME NEW q \in risen, q < leaf
      PROVE  \E k \in risen : k \div 2 = q
  <2>1. PICK k \in A : k \div 2 = q
    BY <1>2, <1>4, <1>9 DEF IsPath
  <2>2. k \in 1 .. leaf /\ q \in 1 .. leaf
    BY <1>4
  <2>3. q <= k
    BY <1>1, <2>1, <2>2
  <2> QED  BY <1>5, <1>9, <2>1, <2>3
<1>10. ASSUME NEW k \in risen, NEW l \in risen, k \div 2 = l \div 2
       PROVE  k = l
  <2>1. k \in 1 .. leaf /\ l \in 1 .. leaf /\ k \in A /\ l \in A
    BY <1>4
  <2>2. k < l => k <= l \div 2
    BY <1>2, <2>1 DEF IsPath
  <2>3. l < k => l <= k \div 2
    BY <1>2, <2>1 DEF IsPath
  <2> QED  BY <1>1, <1>10, <2>1, <2>2, <2>3
<1>11. ASSUME NEW p \in risen, p > 1, p \div 2 \notin risen, t.type = "item"
       PROVE  ~ low(p \div 2)
  <2> SUFFICES ASSUME low(p \div 2) PROVE FALSE
    OBVIOUS
  <2>1. p \in 1 .. leaf /\ p \in A /\ p \div 2 \in A /\ p \div 2 < p /\ p \div 2 < leaf
    BY <1>1, <1>2, <1>4, <1>11 DEF IsPath
  <2>2. ASSUME NEW x \in A, p \div 2 <= x, x < leaf PROVE low(x)
    <3>1. x \in 1 .. leaf  BY <1>4
    <3>2. CASE x < p
      <4>1. x <= p \div 2  BY <1>2, <2>1, <3>2 DEF IsPath
      <4>2. x = p \div 2  BY <1>1, <2>1, <2>2, <3>1, <4>1
      <4> QED  BY <4>2
    <3>3. CASE p <= x
      <4>1. p < leaf  BY <1>1, <2>1, <2>2, <3>1, <3>3
      <4>2. x \in risen  BY <1>5, <3>3, <4>1
      <4> QED  BY <1>5, <2>2, <4>2
    <3> QED  BY <1>1, <2>1, <3>1, <3>2, <3>3
  <2>3. p \div 2 \in risen
    BY <1>3, <1>11, <2>1, <2>2
  <2> QED  BY <1>11, <2>3
<1>12. \E m \in risen : \A p \in risen : p >= m /\ (p \div 2 \notin risen <=> p = m)
  BY <1>8
<1> QED  BY <1>4, <1>5, <1>9, <1>10, <1>11, <1>12 DEF leaf, risen, low

\* heap_insert puts the new entry in one place and moves the others to places
\* of their own: no entry is lost and none is doubled.
LEMMA HeapInsertPermutes ==
  ASSUME NEW S, NEW cell \in Seq(S), NEW id, id \notin S, NEW t,
         \A k, l \in DOMAIN cell : cell[k] = cell[l] => k = l,
         NEW new, new = HeapInsert(cell, id, t)
  PROVE  /\ \A k, l \in DOMAIN new : new[k] = new[l] => k = l
         /\ \E k \in DOMAIN new : new[k] = id
         /\ \A q \in DOMAIN cell : \E k \in DOMAIN new : new[k] = cell[q]
<1> DEFINE leaf  == Len(cell) + 1
           risen == Risen(cell, t)
<1>1. /\ Len(cell) \in Nat /\ DOMAIN cell = 1 .. Len(cell)
      /\ \A k \in DOMAIN cell : cell[k] # id
  OBVIOUS
<1>2. new = [p \in 1 .. leaf |-> IF p \notin risen THEN cell[p]
                                 ELSE IF p \div 2 \in risen THEN cell[p \div 2]
                                 ELSE id]
  BY HeapInsertAt
<1>3. /\ leaf \in risen /\ risen \subseteq 1 .. leaf
      /\ \A q \in risen : q < leaf => \E k \in risen : k \div 2 = q
      /\ \A k, l \in risen : k \div 2 = l \div 2 => k = l
  BY <1>1, RisenIs
<1>4. PICK top \in risen :
        \A p \in risen : p >= top /\ (p \div 2 \notin risen <=> p = top)
  BY <1>1, RisenIs
<1> HIDE DEF risen, leaf
<1>5. leaf = Len(cell) + 1
  BY DEF leaf
<1>6. ASSUME NEW p \in 1 .. leaf
      PROVE  /\ p \notin risen => p \in DOMAIN cell /\ new[p] = cell[p]
             /\ p \in risen /\ p # top =>
                  p \div 2 \in risen /\ p \div 2 \in DOMAIN cell /\ new[p] = cell[p \div 2]
             /\ p = top => new[p] = id
  <2>1. CASE p \notin risen
    <3>1. p # leaf /\ p # top  BY <1>3, <2>1
    <3>2. p \in DOMAIN cell  BY <1>1, <1>5, <3>1
    <3> QED  BY <1>2, <2>1, <3>1, <3>2
  <2>2. CASE p \in risen /\ p # top
    <3>1. p \div 2 \in risen  BY <1>4, <2>2
    <3>2. p \div 2 \in 1 .. leaf  BY <1>3, <3>1
    <3>3. p \div 2 < p  BY <1>1, <1>5
    <3>4. p \div 2 \in DOMAIN cell  BY <1>1, <1>5, <3>2, <3>3
    <3> QED  BY <1>2, <2>2, <3>1, <3>4
  <2>3. CASE p = top
    <3>1. p \in risen /\ p \div 2 \notin risen  BY <1>4, <2>3
    <3> QED  BY <1>2, <2>3, <3>1
  <2> QED  BY <2>1, <2>2, <2>3
<1>7. DOMAIN new = 1 .. leaf
  BY <1>2
<1>8. ASSUME NEW k \in 1 .. leaf, NEW l \in 1 .. leaf, new[k] = new[l]
      PROVE  k = l
  <2>1. CASE k = top \/ l = top
    BY <1>1, <1>6, <1>8, <2>1
  <2>2. CASE k # top /\ l # top
    <3>1. CASE k \notin risen /\ l \notin risen
      BY <1>6, <1>8, <3>1
    <3>2. CASE k \in risen /\ l \in risen
      <4>1. k \div 2 = l \div 2  BY <1>6, <1>8, <2>2, <3>2
      <4> QED  BY <1>3, <3>2, <4>1
    <3>3. CASE k \in risen /\ l \notin risen
      <4>1. k \div 2 = l /\ k \div 2 \in risen  BY <1>6, <1>8, <2>2, <3>3
      <4> QED  BY <3>3, <4>1
    <3>4. CASE k \notin risen /\ l \in risen
      <4>1. l \div 2 = k /\ l \div 2 \in risen  BY <1>6, <1>8, <2>2, <3>4
      <4> QED  BY <3>4, <4>1
    <3> QED  BY <3>1, <3>2, <3>3, <3>4
  <2> QED  BY <2>1, <2>2
<1>9. ASSUME NEW q \in DOMAIN cell
      PROVE  \E k \in 1 .. leaf : new[k] = cell[q]
  <2>1. q \in 1 .. leaf /\ q < leaf  BY <1>1, <1>5
  <2>2. CASE q \notin risen
    BY <1>6, <2>1, <2>2
  <2>3. CASE q \in risen
    <3>1. PICK k \in risen : k \div 2 = q  BY <1>3, <2>1, <2>3
    <3>2. k # top /\ k \in 1 .. leaf  BY <1>3, <1>4, <2>3, <3>1
    <3> QED  BY <1>6, <3>1, <3>2
  <2> QED  BY <2>2, <2>3
<1> QED  BY <1>3, <1>6, <1>7, <1>8, <1>9

\* It keeps the items above the states that are no items.
LEMMA HeapInsertOrders ==
  ASSUME NEW S, NEW cell \in Seq(S), NEW id, id \notin S, NEW t,
         \A p \in DOMAIN cell \ {1} :
           states[cell[p]].type = "item" => states[cell[p \div 2]].type = "item",
         NEW new, new = HeapInsert(cell, id, t), NEW items,
         id \in items <=> t.type = "item",
         \A k \in DOMAIN cell : cell[k] \in items <=> states[cell[k]].type = "item"
  PROVE  \A p \in DOMAIN new \ {1} : new[p] \in items => new[p \div 2] \in items
<1> DEFINE leaf  == Len(cell) + 1
           risen == Risen(cell, t)
<1>1. Len(cell) \in Nat /\ DOMAIN cell = 1 .. Len(cell)
  OBVIOUS
<1>2. new = [p \in 1 .. leaf |-> IF p \notin risen THEN cell[p]
                                 ELSE IF p \div 2 \in risen THEN cell[p \div 2]
                                 ELSE id]
  BY HeapInsertAt
<1>3. /\ leaf \in risen /\ risen \subseteq 1 .. leaf
      /\ \A q \in risen : q < leaf => t.type = "item" /\ states[cell[q]].type # "item"
      /\ \A p \in risen : p > 1 /\ p \div 2 \notin risen /\ t.type = "item"
           => states[cell[p \div 2]].type = "item"
  BY <1>1, RisenIs
<1> HIDE DEF risen, leaf
<1>4. leaf = Len(cell) + 1 /\ DOMAIN new = 1 .. leaf
  BY <1>2 DEF leaf
<1> SUFFICES ASSUME NEW p \in (1 .. leaf) \ {1}, new[p] \in items
             PROVE  new[p \div 2] \in items
  BY <1>4
<1>5. p > 1 /\ p \div 2 \in 1 .. leaf /\ p \div 2 < leaf /\ p \div 2 \in DOMAIN cell
  BY <1>1, <1>4
<1>6. p \div 2 \notin risen => new[p \div 2] = cell[p \div 2]
  BY <1>2, <1>5
<1>7. CASE p \notin risen
  <2>1. p # leaf /\ p \in DOMAIN cell /\ new[p] = cell[p]
    BY <1>1, <1>2, <1>3, <1>4, <1>7
  <2>2. states[cell[p \div 2]].type = "item"
    BY <1>5, <2>1
  <2>3. p \div 2 \notin risen
    BY <1>3, <1>5, <2>2
  <2> QED  BY <1>5, <1>6, <2>2, <2>3
<1>8. CASE p \in risen /\ p \div 2 \in risen
  <2>1. new[p] = cell[p \div 2]
    BY <1>2, <1>8
  <2>2. states[cell[p \div 2]].type # "item"
    BY <1>3, <1>5, <1>8
  <2> QED  BY <1>5, <2>1, <2>2
<1>9. CASE p \in risen /\ p \div 2 \notin risen
  <2>1. new[p] = id
    BY <1>2, <1>9
  <2>2. states[cell[p \div 2]].type = "item"
    BY <1>3, <1>5, <1>9, <2>1
  <2> QED  BY <1>5, <1>6, <1>9, <2>2
<1> QED  BY <1>7, <1>8, <1>9

-----------------------------------------------------------------------------
\* Every state is in the heap of its span, and no heap holds a state twice.
Indexed ==
  /\ \A s \in Ids : \E k \in DOMAIN chart[<<states[s].i, states[s].j>>] :
       chart[<<states[s].i, states[s].j>>][k] = s
  /\ \A v \in Spans : \A k, l \in DOMAIN chart[v] : chart[v][k] = chart[v][l] => k = l

\* Items are above the other states of their heap.
Heaped ==
  \A v \in Spans : \A p \in DOMAIN chart[v] \ {1} :
    chart[v][p] \in ItemIds => chart[v][p \div 2] \in ItemIds

\* A goal for a substitution node serves a goal at a higher node.
GoalAbove(st, t) == t.type # "item" /\ t.g # 0 => st[t.g].n # t.n

Goals ==
  /\ \A p \in Ids : states[p].g = p \/ GoalAbove(states, states[p])
  /\ \A r \in todo : GoalAbove(states, r.t)

ChartInv == Inv /\ Indexed /\ Heaped /\ Goals /\ NothingSubsumed

-----------------------------------------------------------------------------
\* The predictions among the calls in S pursue no goal.
Aimless(S) == \A r \in S : r.t.type # "item" => r.t.g = 0

\* The goals of the calls in S are the state p; other goals for p are at
\* other nodes.
Started(S, p) ==
  \A r \in S : /\ r.t.g \in {0, p}
               /\ r.t.type # "item" => r.t.g = 0 \/ r.t.n # states[p].n

\* The calls of hparse_init_head.
LEMMA HeadStarted ==
  ASSUME Inv, NEW p \in Ids
  PROVE  Started(HeadCalls(p), p)
<1> DEFINE s == states[p]
           hc == hand.head[s.n]
<1>1. ASSUME NEW node PROVE Started(InitAnchor(p, node), p)
  <2> SUFFICES ASSUME NEW r \in InitAnchor(p, node)
               PROVE  r.t.g = p /\ r.t.type = "item"
    BY DEF Started
  <2>1. \E k : r = Call(<<k, 0, 0, 0>>, Item(node, p, "bot", k, k + 1, ef, ef, <<k>>, 0, 0))
    BY DEF InitAnchor
  <2> QED  BY <2>1, CallFields, ItemFields
<1>2. ASSUME NEW node PROVE Started(InitEpsilon(p, node), p)
  BY CallFields, ItemFields DEF InitEpsilon, Started
<1>3. ASSUME NEW node PROVE Started(InitFoot(p, node), p)
  BY CallFields, ItemFields DEF InitFoot, Started
<1>4. ASSUME NEW node PROVE Started(InitSubst(p, node), p)
  <2> DEFINE roots   == hand.inits[hand.label[node]]
             visits  == {v \in (DOMAIN roots) \X (s.i .. s.j) \X (s.i .. s.j) :
                           <<v[2], v[3]>> \in SubstSpans(s, node)}
             done(v) == StateExists(v[2], v[3], roots[v[1]], ef, ef)
             own(v)  == IF done(v) # 0
                        THEN Item(node, p, "top", v[2], v[3], ef, ef, <<>>, done(v), 0)
                        ELSE Goal(node, p, v[2], v[3])
             pred(v) == Predict(roots[v[1]], v[2], v[3], ef, ef, 0, 0)
  <2>1. InitSubst(p, node) =
          {Call(<<v[1], v[2], -v[3], 0>>, own(v)) :
             v \in {u \in visits : done(u) # 0 \/ s.n # node}}
          \cup {Call(<<v[1], v[2], -v[3], 1>>, pred(v)) : v \in {u \in visits : done(u) = 0}}
    BY DEF InitSubst
  <2>2. ASSUME NEW v, done(v) # 0 \/ s.n # node
        PROVE  own(v).g = p /\ (own(v).type # "item" => own(v).n # s.n)
    <3>1. CASE done(v) # 0
      <4>1. own(v).type = "item" /\ own(v).g = p
        BY <3>1, ItemFields
      <4> QED  BY <4>1
    <3>2. CASE done(v) = 0
      <4>1. own(v).n = node /\ own(v).g = p
        BY <3>2, GoalFields
      <4> QED  BY <2>2, <3>2, <4>1
    <3> QED  BY <3>1, <3>2
  <2>3. \A v : pred(v).g = 0
    BY PredictFields
  <2> HIDE DEF visits, done, own, pred
  <2> SUFFICES ASSUME NEW r \in InitSubst(p, node)
               PROVE  /\ r.t.g \in {0, p}
                      /\ r.t.type # "item" => r.t.g = 0 \/ r.t.n # s.n
    BY DEF Started
  <2>4. \/ \E v, at : (done(v) # 0 \/ s.n # node) /\ r = Call(at, own(v))
        \/ \E v, at : r = Call(at, pred(v))
    BY <2>1
  <2> QED  BY <2>2, <2>3, <2>4, CallFields
<1>5. hand.kind[hc] \in Kinds \ {"internal"}
  BY StatesOK, HandOK DEF TablesOK, HeadsOK, Inv
<1>6. CASE hand.kind[hc] \in {"anchor", "terminal"}
  <2>1. HeadCalls(p) = IF hand.pref.epsTrees /\ hc \in hand.eps
                       THEN InitEpsilon(p, hc) ELSE InitAnchor(p, hc)
    BY <1>6 DEF HeadCalls
  <2> QED  BY <1>1, <1>2, <2>1
<1>7. CASE hand.kind[hc] = "eps"
  <2>1. HeadCalls(p) = InitEpsilon(p, IF hand.pref.epsAdjoin THEN hc ELSE s.n)
    BY <1>7 DEF HeadCalls
  <2> QED  BY <1>2, <2>1
<1>8. CASE hand.kind[hc] = "subst"
  <2>1. HeadCalls(p) = InitSubst(p, hc)
    BY <1>8 DEF HeadCalls
  <2> QED  BY <1>4, <2>1
<1>9. CASE hand.kind[hc] = "foot"
  <2>1. HeadCalls(p) = InitFoot(p, hc)
    BY <1>9 DEF HeadCalls
  <2> QED  BY <1>3, <2>1
<1> QED  BY <1>5, <1>6, <1>7, <1>8, <1>9 DEF Kinds

\* The calls of hparse_move_up.
LEMMA MoveUpAimless ==
  ASSUME Inv, NEW p \in Ids
  PROVE  Aimless(MoveUpCalls(p))
<1> DEFINE s == states[p]
<1>1. Aimless(AdjoinNothing(p)) /\ Aimless(UnaryHead(p))
  BY CallFields, ItemFields DEF AdjoinNothing, UnaryHead, Aimless
<1>2. Aimless(AdjoinTrees(p))
  <2> DEFINE auxs     == hand.auxs[hand.label[s.n]]
             done(v)  == StateExists(v[2], v[3], auxs[v[1]], s.i, s.j)
             found(v) == Item(s.n, s.g, AdjoinedPos, v[2], v[3], s.fl, s.fr, s.w, done(v), p)
             pred(v)  == Predict(auxs[v[1]], v[2], v[3], s.i, s.j, 0, 0)
  <2>1. \A r \in AdjoinTrees(p) :
          \E v, at : r = Call(at, IF done(v) # 0 THEN found(v) ELSE pred(v))
    BY DEF AdjoinTrees
  <2>2. \A v : found(v).type = "item" /\ pred(v).g = 0
    BY ItemFields, PredictFields
  <2> HIDE DEF found, pred, done
  <2> QED  BY <2>1, <2>2, CallFields DEF Aimless
<1>3. Aimless(LeftHead(p))
  <2> DEFINE sib      == hand.sibling[s.n]
             done(k)  == StateExists(s.j, k, sib, ef, ef)
             found(k) == Item(hand.up[s.n], s.g, "bot", s.i, k, s.fl, s.fr,
                              s.w \o states[done(k)].w, p, done(k))
             pred(k)  == Predict(sib, s.j, k, ef, ef, 0, p)
  <2>1. \A r \in LeftHead(p) :
          \E k, at : r = Call(at, IF done(k) # 0 THEN found(k) ELSE pred(k))
    BY DEF LeftHead
  <2>2. \A k : found(k).type = "item" /\ pred(k).g = 0
    BY ItemFields, PredictFields
  <2> HIDE DEF found, pred, done
  <2> QED  BY <2>1, <2>2, CallFields DEF Aimless
<1>4. Aimless(RightHead(p))
  <2> DEFINE sib      == hand.sibling[s.n]
             done(k)  == StateExists(k, s.i, sib, ef, ef)
             found(k) == Item(hand.up[s.n], s.g, "bot", k, s.j, s.fl, s.fr,
                              states[done(k)].w \o s.w, done(k), p)
             pred(k)  == Predict(sib, k, s.i, ef, ef, p, 0)
  <2>1. \A r \in RightHead(p) :
          \E k, at : r = Call(at, IF done(k) # 0 THEN found(k) ELSE pred(k))
    BY DEF RightHead
  <2>2. \A k : found(k).type = "item" /\ pred(k).g = 0
    BY ItemFields, PredictFields
  <2> HIDE DEF found, pred, done
  <2> QED  BY <2>1, <2>2, CallFields DEF Aimless
<1>5. CASE s.pos = "bot"
  BY <1>1, <1>2, <1>5 DEF MoveUpCalls, Adjoin, Aimless
<1>6. CASE s.pos # "bot"
  <2>1. hand.side[s.n] \in {"only", "left", "right"}
    BY StatesOK, HandOK DEF TablesOK, Inv
  <2>2. MoveUpCalls(p) = CASE hand.side[s.n] = "only"  -> UnaryHead(p)
                           [] hand.side[s.n] = "left"  -> LeftHead(p)
                           [] hand.side[s.n] = "right" -> RightHead(p)
    BY <1>6 DEF MoveUpCalls
  <2> QED  BY <1>1, <1>3, <1>4, <2>1, <2>2
<1> QED  BY <1>5, <1>6

\* The calls of hparse_completer, which are all on items.
LEMMA CompleterAimless ==
  ASSUME Inv, NEW p \in Ids, MayComplete(states[p])
  PROVE  Aimless(CompleterCalls(p))
<1> DEFINE s == states[p]
<1>1. Aimless(CompleteInit(p)) /\ Aimless(CompleteAux(p))
  <2>1. Aimless(CompleteInit(p))
    BY DEF CompleteInit, Call, Item, Aimless
  <2>2. Aimless(CompleteAux(p))
    <3> DEFINE c(q) == CellOf(s.fl, s.fr)[q]
               t(q) == Item(states[c(q)].n, states[c(q)].g, AdjoinedPos, s.i, s.j,
                            states[c(q)].fl, states[c(q)].fr, states[c(q)].w, p, c(q))
    <3>1. \A r \in CompleteAux(p) : \E q, at : r = Call(at, t(q))
      BY DEF CompleteAux
    <3>2. \A q : t(q).type = "item"
      BY DEF Item
    <3> HIDE DEF t
    <3> QED  BY <3>1, <3>2, CallFields DEF Aimless
  <2> QED  BY <2>1, <2>2
<1>2. Aimless(CompleteLeft(p)) /\ Aimless(CompleteRight(p))
  <2>1. Aimless(CompleteLeft(p))
    <3> DEFINE head(v) == states[CellOf(s.i, s.j)[v[1]]].bp[v[2]].b
               sib(v)  == states[head(v)]
               t(v)    == Item(hand.up[s.n], sib(v).g, "bot", s.i, sib(v).j, sib(v).fl, sib(v).fr,
                            s.w \o sib(v).w, p, head(v))
    <3>1. \A r \in CompleteLeft(p) : \E v, at : r = Call(at, t(v))
      BY DEF CompleteLeft
    <3>2. \A v : t(v).type = "item"
      BY DEF Item
    <3> HIDE DEF t
    <3> QED  BY <3>1, <3>2, CallFields DEF Aimless
  <2>2. Aimless(CompleteRight(p))
    <3> DEFINE head(v) == states[CellOf(s.i, s.j)[v[1]]].bp[v[2]].c
               sib(v)  == states[head(v)]
               t(v)    == Item(hand.up[s.n], sib(v).g, "bot", sib(v).i, s.j, sib(v).fl, sib(v).fr,
                            sib(v).w \o s.w, head(v), p)
    <3>1. \A r \in CompleteRight(p) : \E v, at : r = Call(at, t(v))
      BY DEF CompleteRight
    <3>2. \A v : t(v).type = "item"
      BY DEF Item
    <3> HIDE DEF t
    <3> QED  BY <3>1, <3>2, CallFields DEF Aimless
  <2> QED  BY <2>1, <2>2
<1>3. CASE hand.up[s.n] = 0
  BY <1>1, <1>3 DEF CompleterCalls
<1>4. CASE hand.up[s.n] # 0
  <2>1. s.n \in hand.nodes /\ SpineTop(hand, s.n)
    BY StatesOK DEF MayComplete, Aims
  <2>2. hand.side[s.n] \in {"left", "right"}
    BY <1>4, <2>1, HandOK DEF TablesOK, HeadsOK, SpineTop, Inv
  <2>3. CompleterCalls(p) = CASE hand.side[s.n] = "left"  -> CompleteLeft(p)
                              [] hand.side[s.n] = "right" -> CompleteRight(p)
    BY <1>4 DEF CompleterCalls
  <2> QED  BY <1>2, <2>2, <2>3
<1> QED  BY <1>3, <1>4

-----------------------------------------------------------------------------
\* The chart stays an index of states that keep their place, and are items or
\* not as before.
LEMMA ChartKept ==
  ASSUME Inv, Indexed, Heaped, UNCHANGED <<hand, chart>>,
         Len(states') = Len(states), Extends(states, states'),
         states' \in Seq(State)
  PROVE  Indexed' /\ Heaped'
<1>1. Ids' = Ids /\ Ids = 1 .. Len(states)
  BY StatesOK DEF Ids
<1>2. Spans' = Spans /\ \A v \in Spans : \A k \in DOMAIN chart[v] : chart[v][k] \in Ids
  BY DEF Spans, Inv, Inductive, TypeOK
<1>3. \A x \in Ids : /\ states'[x].i = states[x].i /\ states'[x].j = states[x].j
                     /\ states'[x].type = "item" <=> states[x].type = "item"
  BY <1>1 DEF Extends
<1>4. ItemIds' = ItemIds
  BY <1>1, <1>3 DEF ItemIds
<1>5. Indexed'
  BY <1>1, <1>2, <1>3 DEF Indexed
<1>6. Heaped'
  BY <1>2, <1>4 DEF Heaped
<1> QED  BY <1>5, <1>6

\* Nothing becomes superfluous when only back pointers change.
LEMMA SubsumesKept ==
  ASSUME Inv, Goals, NothingSubsumed,
         Len(states') = Len(states), Extends(states, states'),
         states' \in Seq(State),
         \A p \in Ids : /\ states'[p].fl = states[p].fl /\ states'[p].fr = states[p].fr
                        /\ states'[p].w = states[p].w /\ states'[p].g = states[p].g
                        /\ states'[p].type = states[p].type,
         \A r \in todo' : GoalAbove(states, r.t) /\ r.t.g \in 0 .. Len(states)
  PROVE  Goals' /\ NothingSubsumed'
<1>1. Ids' = Ids /\ Ids = 1 .. Len(states) /\ Len(states) \in Nat
  BY StatesOK DEF Ids
<1>2. \A x \in Ids : /\ states'[x].n = states[x].n /\ states'[x].pos = states[x].pos
                     /\ states'[x].i = states[x].i /\ states'[x].j = states[x].j
                     /\ states[x].g \in 0 .. Len(states)
  BY <1>1, StatesOK DEF Extends
<1>3. Goals'
  BY <1>1, <1>2 DEF Goals, GoalAbove
<1>4. ASSUME NEW p \in Ids, NEW q \in Ids, p < q, AddEq(states[p], states[q])'
      PROVE  states'[p].g = p /\ states'[q].g = q
  <2>1. AddEq(states[p], states[q])
    BY <1>1, <1>2, <1>4 DEF AddEq
  <2> QED  BY <1>4, <2>1 DEF NothingSubsumed
<1>5. NothingSubsumed'
  BY <1>1, <1>4 DEF NothingSubsumed
<1> QED  BY <1>3, <1>5

\* hp_check_heap misses no state that makes the new one superfluous.
LEMMA CheckHeapNone ==
  ASSUME Inv, Indexed, NEW t, Bounded(hand, states, t), CheckHeap(t) = 0, NEW x \in Ids
  PROVE  ~ AddEq(states[x], t)
<1> DEFINE cell == CellOf(t.i, t.j)
           places == {p \in DOMAIN cell : AddEq(states[cell[p]], t)}
<1> SUFFICES ASSUME AddEq(states[x], t) PROVE FALSE
  OBVIOUS
<1>1. t.i \in 0 .. hand.last + 1 /\ t.j \in 0 .. hand.last + 1
  BY HandOK DEF Bounded, Inv
<1>2. \A p \in DOMAIN cell : cell[p] \in Ids /\ p \in Nat
  BY <1>1, CellIn
<1>3. PICK k \in DOMAIN cell : cell[k] = x
  BY DEF AddEq, Indexed, CellOf
<1>4. k \in places
  BY <1>3
<1>5. FirstOf(cell, places) = 0
  BY DEF CheckHeap
<1>6. \A p \in places : cell[p] \in Ids
  BY <1>2
<1>7. places \subseteq Nat
  BY <1>2
<1> HIDE DEF places
<1>8. PICK p \in places : FirstOf(cell, places) = cell[p]
  BY <1>4, <1>7, FirstOfIn
<1>9. 0 \notin Ids
  BY StatesOK
<1> QED  BY <1>5, <1>6, <1>8, <1>9

\* Storing a state keeps the chart in order: the state goes into the heap of its
\* span and nothing in the chart makes it superfluous.
LEMMA StoreChart ==
  ASSUME ChartInv, NEW t, Sound(hand, states, t), GoalAbove(states, t),
         CheckHeap(t) = 0, Store(t), hand' = hand, todo' \subseteq todo
  PROVE  Indexed' /\ Heaped' /\ Goals' /\ NothingSubsumed'
<1> DEFINE id == Len(states) + 1
           at == <<t.i, t.j>>
           heap == HeapInsert(chart[at], id, t)
<1>1. /\ Inv /\ Indexed /\ Heaped /\ Goals /\ NothingSubsumed
      /\ states \in Seq(State) /\ Len(states) \in Nat /\ Ids = 1 .. Len(states)
      /\ Bounded(hand, states, t) /\ t \in State /\ t.g \in 0 .. Len(states)
  BY StatesOK DEF ChartInv, Sound, Bounded
<1>2. states' = Append(states, t) /\ chart' = [chart EXCEPT ![at] = heap]
  BY DEF Store
<1>3. /\ Len(states') = id /\ states'[id] = t /\ \A p \in Ids : states'[p] = states[p]
  BY <1>1, <1>2, AppendProperties
<1>4. Ids' = Ids \cup {id} /\ id \notin Ids /\ id \notin ItemIds
  BY <1>1, <1>2, <1>3 DEF Ids, ItemIds
<1>5. \A p \in Ids : p \in ItemIds' <=> p \in ItemIds
  BY <1>3, <1>4 DEF ItemIds
<1>6. id \in ItemIds' <=> t.type = "item"
  BY <1>3, <1>4 DEF ItemIds
<1>7. at \in Spans /\ Spans' = Spans
  BY <1>1, HandOK DEF Spans, Bounded, Inv
<1>8. chart \in [Spans -> Seq(Ids)] /\ chart[at] \in Seq(Ids)
  BY <1>1, <1>7 DEF Inv, Inductive, TypeOK
<1>9. chart'[at] = heap /\ \A v \in Spans : v # at => chart'[v] = chart[v]
  BY <1>2, <1>7, <1>8
<1>10. /\ \A k, l \in DOMAIN heap : heap[k] = heap[l] => k = l
       /\ \E k \in DOMAIN heap : heap[k] = id
       /\ \A q \in DOMAIN chart[at] : \E k \in DOMAIN heap : heap[k] = chart[at][q]
  <2>1. \A k, l \in DOMAIN chart[at] : chart[at][k] = chart[at][l] => k = l
    BY <1>1, <1>7 DEF Indexed
  <2> DEFINE cell == chart[at]
  <2>2. heap = HeapInsert(cell, id, t)
    OBVIOUS
  <2>3. cell \in Seq(Ids) /\ \A k, l \in DOMAIN cell : cell[k] = cell[l] => k = l
    BY <1>8, <2>1
  <2> HIDE DEF heap, cell, id
  <2>4. /\ \A k, l \in DOMAIN heap : heap[k] = heap[l] => k = l
        /\ \E k \in DOMAIN heap : heap[k] = id
        /\ \A q \in DOMAIN cell : \E k \in DOMAIN heap : heap[k] = cell[q]
    BY <1>4, <2>2, <2>3, HeapInsertPermutes
  <2> QED  BY <2>4 DEF cell
<1>11. \A p \in DOMAIN heap \ {1} : heap[p] \in ItemIds' => heap[p \div 2] \in ItemIds'
  <2> DEFINE cell == chart[at]
  <2>1. \A k \in DOMAIN cell : cell[k] \in Ids
    BY <1>8
  <2>2. \A k \in DOMAIN cell : cell[k] \in ItemIds' <=> states[cell[k]].type = "item"
    BY <1>5, <2>1 DEF ItemIds
  <2>3. \A p \in DOMAIN cell \ {1} :
          states[cell[p]].type = "item" => states[cell[p \div 2]].type = "item"
    BY <1>1, <1>7, <2>1 DEF Heaped, ItemIds
  <2>4. heap = HeapInsert(cell, id, t) /\ cell \in Seq(Ids)
    BY <1>8
  <2> HIDE DEF heap, cell, id
  <2>5. \A items : /\ id \in items <=> t.type = "item"
                   /\ \A k \in DOMAIN cell : cell[k] \in items <=> states[cell[k]].type = "item"
                   => \A p \in DOMAIN heap \ {1} : heap[p] \in items => heap[p \div 2] \in items
    BY <1>4, <2>3, <2>4, HeapInsertOrders
  <2> QED  BY <1>6, <2>2, <2>5
<1> HIDE DEF heap
<1>12. Indexed'
  <2>1. ASSUME NEW s \in Ids'
        PROVE  \E k \in DOMAIN chart'[<<states'[s].i, states'[s].j>>] :
                 chart'[<<states'[s].i, states'[s].j>>][k] = s
    <3>1. CASE s = id
      BY <1>3, <1>9, <1>10, <3>1
    <3>2. CASE s \in Ids
      <4> DEFINE v == <<states[s].i, states[s].j>>
      <4>1. PICK k \in DOMAIN chart[v] : chart[v][k] = s
        BY <1>1, <3>2 DEF Indexed
      <4>2. states'[s] = states[s]  BY <1>3, <3>2
      <4>3. v \in Spans
        BY <1>1, <3>2, StatesOK, HandOK DEF Spans, Inv
      <4> HIDE DEF v
      <4>4. \E l \in DOMAIN chart'[v] : chart'[v][l] = s
        <5>1. CASE v = at  BY <1>9, <1>10, <4>1, <5>1
        <5>2. CASE v # at  BY <1>9, <4>1, <4>3, <5>2
        <5> QED  BY <5>1, <5>2
      <4> QED  BY <4>2, <4>4 DEF v
    <3> QED  BY <1>4, <3>1, <3>2
  <2>2. ASSUME NEW v \in Spans, NEW k \in DOMAIN chart'[v], NEW l \in DOMAIN chart'[v],
               chart'[v][k] = chart'[v][l]
        PROVE  k = l
    <3>1. CASE v = at  BY <1>9, <1>10, <2>2, <3>1
    <3>2. CASE v # at  BY <1>1, <1>9, <2>2, <3>2 DEF Indexed
    <3> QED  BY <3>1, <3>2
  <2> QED  BY <1>7, <2>1, <2>2 DEF Indexed
<1>13. Heaped'
  <2>1. ASSUME NEW v \in Spans, NEW p \in DOMAIN chart'[v] \ {1}, chart'[v][p] \in ItemIds'
        PROVE  chart'[v][p \div 2] \in ItemIds'
    <3>1. CASE v = at  BY <1>9, <1>11, <2>1, <3>1
    <3>2. CASE v # at
      <4>1. chart'[v] = chart[v]  BY <1>9, <3>2
      <4>2. chart[v][p] \in Ids  BY <1>8, <4>1
      <4>3. chart[v][p \div 2] \in ItemIds
        BY <1>1, <1>5, <2>1, <4>1, <4>2 DEF Heaped
      <4> QED  BY <1>5, <4>1, <4>3 DEF ItemIds
    <3> QED  BY <3>1, <3>2
  <2> QED  BY <1>7, <2>1 DEF Heaped
<1>14. Goals'
  <2>1. ASSUME NEW u, u.g \in 0 .. Len(states), GoalAbove(states, u)
        PROVE  GoalAbove(states', u)
    BY <1>1, <1>3, <2>1 DEF GoalAbove
  <2>2. \A r \in todo' : GoalAbove(states', r.t)
    <3>1. \A r \in todo : GoalAbove(states, r.t) /\ r.t.g \in 0 .. Len(states)
      BY <1>1 DEF Goals, Inv, Inductive, TypeOK, Bounded
    <3> QED  BY <2>1, <3>1
  <2>3. \A p \in Ids : states[p].g = p \/ GoalAbove(states', states[p])
    BY <1>1, <2>1, StatesOK DEF Goals
  <2>4. GoalAbove(states', t)
    BY <1>1, <2>1
  <2> QED  BY <1>3, <1>4, <2>2, <2>3, <2>4 DEF Goals
<1>15. NothingSubsumed'
  <2> SUFFICES ASSUME NEW p \in Ids', NEW q \in Ids', p < q, AddEq(states[p], states[q])'
               PROVE  states'[p].g = p /\ states'[q].g = q
    BY DEF NothingSubsumed
  <2>1. p \in Ids
    BY <1>1, <1>4
  <2>2. states[p].g \in 0 .. Len(states)
    BY <1>1, <2>1, StatesOK
  <2>3. CASE q \in Ids
    <3>1. states[q].g \in 0 .. Len(states)
      BY <1>1, <2>3, StatesOK
    <3>2. AddEq(states[p], states[q])
      BY <1>1, <1>3, <2>1, <2>2, <2>3, <3>1 DEF AddEq
    <3> QED  BY <1>1, <1>3, <2>1, <2>3, <3>2 DEF NothingSubsumed
  <2>4. CASE q = id
    <3>1. AddEq(states[p], t)
      BY <1>1, <1>3, <2>1, <2>2, <2>4 DEF AddEq
    <3> QED  BY <1>1, <2>1, <3>1, CheckHeapNone
  <2> QED  BY <1>4, <2>3, <2>4
<1> QED  BY <1>12, <1>13, <1>14, <1>15

\* hparse_add keeps the chart in order.
LEMMA AddChart ==
  ASSUME ChartInv, Add
  PROVE  ChartInv'
<1>1. PICK r \in todo : hparse_add(r.t) /\ todo' = todo \ {r}
  BY DEF Add
<1>2. UNCHANGED <<hand, plist, idx>>
  BY DEF Add
<1>3. /\ Inv /\ Indexed /\ Heaped /\ Goals /\ NothingSubsumed
      /\ states \in Seq(State) /\ Ids = 1 .. Len(states) /\ Len(states) \in Nat
  BY StatesOK DEF ChartInv
<1>4. Inv'
  BY <1>3, AddInv
<1>5. Sound(hand, states, r.t) /\ GoalAbove(states, r.t)
  BY <1>3 DEF Inv, Inductive, Goals
<1>6. \A u \in todo' : GoalAbove(states, u.t) /\ u.t.g \in 0 .. Len(states)
  BY <1>1, <1>3 DEF Goals, Inv, Inductive, TypeOK, Bounded
<1>7. ASSUME states' = states, chart' = chart
      PROVE  Indexed' /\ Heaped' /\ Goals' /\ NothingSubsumed'
  <2>1. Extends(states, states')
    BY <1>3, <1>7 DEF Extends
  <2> QED  BY <1>2, <1>3, <1>6, <1>7, <2>1, ChartKept, SubsumesKept
<1>8. CASE Drop(r.t)
  BY <1>3, <1>4, <1>7, <1>8 DEF Drop, ChartInv
<1>9. CASE CheckHeap(r.t) # 0 /\ Merge(CheckHeap(r.t), r.t)
  <2> DEFINE d == CheckHeap(r.t)
  <2>1. d \in Ids
    BY <1>3, <1>5, <1>9, CheckHeapIn DEF Sound
  <2>2. chart' = chart /\ (states' = states \/ \E ptrs : states' = Merged(d, ptrs))
    BY <1>9 DEF Merge, Merged
  <2> HIDE DEF d
  <2>3. CASE states' = states
    BY <1>3, <1>4, <1>7, <2>2, <2>3 DEF ChartInv
  <2>4. CASE \E ptrs : states' = Merged(d, ptrs)
    <3>1. PICK ptrs : states' = Merged(d, ptrs)
      BY <2>4
    <3>2. \A p \in Ids :
            /\ states'[p].n = states[p].n /\ states'[p].pos = states[p].pos
            /\ states'[p].i = states[p].i /\ states'[p].j = states[p].j
            /\ states'[p].fl = states[p].fl /\ states'[p].fr = states[p].fr
            /\ states'[p].w = states[p].w /\ states'[p].g = states[p].g
            /\ states'[p].type = states[p].type
      BY <1>3, <2>1, <3>1, MergedFields DEF Ids
    <3>3. states' \in Seq(State)
      BY <1>4 DEF Inv, Inductive, TypeOK
    <3>4. Len(states') = Len(states)
      <4>1. DOMAIN states' = DOMAIN states
        BY <3>1 DEF Merged
      <4> QED  BY <1>3, <3>3, <4>1
    <3>5. Extends(states, states')
      BY <1>3, <3>2, <3>4 DEF Extends
    <3> QED  BY <1>2, <1>3, <1>4, <1>6, <2>2, <3>2, <3>3, <3>4, <3>5,
                ChartKept, SubsumesKept DEF ChartInv
  <2> QED  BY <2>2, <2>3, <2>4
<1>10. CASE CheckHeap(r.t) = 0 /\ Store(r.t)
  BY <1>1, <1>2, <1>4, <1>5, <1>10, StoreChart DEF ChartInv
<1> QED  BY <1>1, <1>8, <1>9, <1>10 DEF hparse_add

\* hparse_init_head keeps the chart in order.  The goal of a state equal to a
\* predicted substitution node is the node itself, so that turning it into its
\* own goal changes no comparison.
LEMMA InitHeadChart ==
  ASSUME ChartInv, InitHead
  PROVE  ChartInv'
<1> DEFINE p == plist[idx]
           hc == hand.head[states[p].n]
<1>1. /\ Inv /\ Indexed /\ Heaped /\ Goals /\ NothingSubsumed
      /\ states \in Seq(State) /\ Ids = 1 .. Len(states) /\ Len(states) \in Nat
  BY StatesOK DEF ChartInv
<1>2. Inv' /\ p \in Ids
  BY <1>1, InitHeadInv, ListPlace DEF InitHead
<1>3. CASE states[p].type # "init"
  <2>1. UNCHANGED <<hand, states, chart>> /\ todo' = {}
    BY <1>3 DEF InitHead, Current
  <2>2. Extends(states, states')
    BY <1>1, <2>1 DEF Extends
  <2> QED  BY <1>1, <1>2, <2>1, <2>2, ChartKept, SubsumesKept DEF ChartInv
<1>4. CASE states[p].type = "init"
  <2> DEFINE g == IF hand.kind[hc] = "subst" /\ OwnGoal(p, hc) THEN p ELSE states[p].g
             s == states[p]
  <2>1. todo' = HeadCalls(p) /\ states' = Retyped(p, g) /\ UNCHANGED <<hand, chart>>
    BY <1>4 DEF InitHead, Retyped
  <2>2. s.g = 0 /\ SpineTop(hand, s.n) /\ g \in {0, p} /\ s \in State /\ s.n \in hand.nodes
    BY <1>1, <1>2, <1>4, StatesOK DEF Sound, Pursues
  <2> HIDE DEF g, p, s
  <2>3. \A q \in Ids :
          /\ states'[q].n = states[q].n /\ states'[q].pos = states[q].pos
          /\ states'[q].i = states[q].i /\ states'[q].j = states[q].j
          /\ states'[q].fl = states[q].fl /\ states'[q].fr = states[q].fr
          /\ states'[q].w = states[q].w
          /\ states'[q].g = IF q = p THEN g ELSE states[q].g
          /\ states'[q].type = IF q = p THEN "goal" ELSE states[q].type
    BY <1>1, <1>2, <2>1, RetypedFields DEF Ids, p
  <2>4. s.type = "init" /\ s = states[p] /\ p \in Ids
    BY <1>2, <1>4 DEF s, p
  <2>5. \A q \in Ids :
          /\ states'[q].type = "item" <=> states[q].type = "item"
          /\ states[q].g \in 0 .. Len(states) /\ states'[q].g \in 0 .. Len(states)
    <3>1. \A q \in Ids : states[q].g \in 0 .. Len(states)
      BY <1>1, StatesOK
    <3>2. p \in 0 .. Len(states) /\ 0 \in 0 .. Len(states)
      BY <1>1, <2>4
    <3> QED  BY <2>2, <2>3, <2>4, <3>1, <3>2
  <2>6. states' \in Seq(State) /\ Len(states') = Len(states) /\ Extends(states, states')
    <3>1. states' \in Seq(State)
      BY <1>2 DEF Inv, Inductive, TypeOK
    <3>2. DOMAIN states' = DOMAIN states
      BY <2>1 DEF Retyped
    <3>3. Len(states') = Len(states)
      BY <1>1, <3>1, <3>2
    <3> QED  BY <1>1, <2>3, <2>5, <3>1, <3>3 DEF Extends
  <2>7. Ids' = Ids
    BY <1>1, <2>6 DEF Ids
  <2>8. Indexed' /\ Heaped'
    BY <1>1, <2>1, <2>6, ChartKept
  <2>9. Goals'
    <3>1. \A r \in todo' : GoalAbove(states', r.t)
      <4>1. Started(todo', p)
        BY <1>1, <1>2, <2>1, HeadStarted DEF p
      <4> QED  BY <2>3, <2>4, <4>1 DEF Started, GoalAbove
    <3>2. ASSUME NEW q \in Ids
          PROVE  states'[q].g = q \/ GoalAbove(states', states'[q])
      <4>1. CASE q = p
        BY <2>2, <2>3, <2>4, <4>1 DEF GoalAbove
      <4>2. CASE q # p
        BY <1>1, <2>3, <2>5, <4>2 DEF Goals, GoalAbove
      <4> QED  BY <4>1, <4>2
    <3> QED  BY <2>7, <3>1, <3>2 DEF Goals
  <2>10. ASSUME NEW y \in Ids, y # p, g = p, states[y].n = s.n,
                states[y].type # "item", states[y].g # 0
         PROVE  states[y].g = y
    <3> DEFINE x == states[y].g
    <3>1. /\ x \in Ids /\ states[x].n \in hand.nodes
          /\ x = y \/ states[x].n # s.n
      BY <1>1, <2>10, StatesOK DEF Goals, GoalAbove
    <3>2. Aims(hand, states, x, s.n)
      BY <1>1, <2>10, StatesOK
    <3>3. SpineTop(hand, states[x].n) /\ hand.head[states[x].n] = hand.head[s.n]
      BY <2>10, <3>2 DEF Aims
    <3>4. states[x].n = s.n
      BY <1>1, <2>2, <3>1, <3>3, HandOK DEF HeadsOK, Inv
    <3> QED  BY <3>1, <3>4
  <2>11. NothingSubsumed'
    <3> SUFFICES ASSUME NEW a \in Ids, NEW b \in Ids, a < b, AddEq(states[a], states[b])'
                 PROVE  states'[a].g = a /\ states'[b].g = b
      BY <2>7 DEF NothingSubsumed
    <3>1. CASE g = 0 \/ (a # p /\ b # p)
      <4>1. states'[a].g = states[a].g /\ states'[b].g = states[b].g
        BY <2>2, <2>3, <2>4, <3>1
      <4>2. AddEq(states[a], states[b])
        BY <1>1, <2>3, <2>5, <4>1, SMTT(30) DEF AddEq
      <4> QED  BY <1>1, <4>1, <4>2 DEF NothingSubsumed
    <3>2. CASE g = p /\ a = p
      <4>1. /\ states[b].n = s.n /\ states[b].type # "item" /\ states[b].g # 0 /\ b # p
        BY <1>1, <2>3, <2>4, <2>5, <3>2 DEF AddEq
      <4> QED  BY <2>3, <2>10, <3>2, <4>1
    <3>3. CASE g = p /\ b = p
      <4>1. /\ states[a].n = s.n /\ states[a].type # "item" /\ states[a].g # 0 /\ a # p
        BY <1>1, <2>3, <2>4, <2>5, <3>3 DEF AddEq
      <4> QED  BY <2>3, <2>10, <3>3, <4>1
    <3> QED  BY <2>2, <3>1, <3>2, <3>3
  <2> QED  BY <1>2, <2>8, <2>9, <2>11 DEF ChartInv
<1> QED  BY <1>3, <1>4

\* So do the steps that leave states and chart alone.
LEMMA QuietChart ==
  ASSUME ChartInv, Inv', UNCHANGED <<hand, states, chart>>,
         Aimless(todo') \/ todo' = todo
  PROVE  ChartInv'
<1>1. /\ Inv /\ Indexed /\ Heaped /\ Goals /\ NothingSubsumed
      /\ states \in Seq(State) /\ Ids = 1 .. Len(states) /\ Len(states) \in Nat
  BY StatesOK DEF ChartInv
<1>2. \A r \in todo' : GoalAbove(states, r.t) /\ r.t.g \in 0 .. Len(states)
  <2>1. \A r \in todo' : r.t.g \in 0 .. Len(states)
    BY DEF Inv, Inductive, TypeOK, Bounded
  <2> QED  BY <1>1, <2>1 DEF Goals, GoalAbove, Aimless
<1>3. Extends(states, states')
  BY <1>1 DEF Extends
<1> QED  BY <1>1, <1>2, <1>3, ChartKept, SubsumesKept DEF ChartInv

\* The chart is in order when the parser starts, and after every step.
LEMMA InitChart ==
  ASSUME Init
  PROVE  ChartInv
<1>1. states = <<>> /\ chart = [v \in Spans |-> <<>>] /\ Ids = {}
  BY DEF Init, Ids
<1>2. Indexed /\ Heaped /\ NothingSubsumed
  BY <1>1 DEF Indexed, Heaped, NothingSubsumed
<1>3. \A r \in todo : r.t.g = 0
  <2> DEFINE seed(a, k) == Predict(hand.inits[hand.tops[a]][k], 0, hand.last, ef, ef, 0, 0)
  <2>1. \A r \in todo : \E a, k, at : r = Call(at, seed(a, k))
    BY DEF Init, Seeds
  <2>2. \A a, k : seed(a, k).g = 0
    BY PredictFields
  <2> HIDE DEF seed
  <2> QED  BY <2>1, <2>2, CallFields
<1> QED  BY <1>1, <1>2, <1>3, InitInv DEF ChartInv, Goals, GoalAbove

\* Every step keeps the chart in order.
LEMMA NextChart ==
  ASSUME ChartInv, [Next]_vars
  PROVE  ChartInv'
<1>1. Inv /\ Inv'
  BY NextInv DEF ChartInv
<1>2. CASE MoveUp
  <2>1. Aimless(todo')
    <3>1. CASE MayMoveUp(states[plist[idx]])
      BY <1>1, <1>2, <3>1, ListPlace, MoveUpAimless DEF MoveUp
    <3>2. CASE ~ MayMoveUp(states[plist[idx]])
      BY <1>2, <3>2 DEF MoveUp, Aimless
    <3> QED  BY <3>1, <3>2
  <2> QED  BY <1>1, <1>2, <2>1, QuietChart DEF MoveUp
<1>3. CASE Completer
  <2>1. Aimless(todo')
    <3>1. CASE MayComplete(states[plist[idx]])
      BY <1>1, <1>3, <3>1, ListPlace, CompleterAimless DEF Completer
    <3>2. CASE ~ MayComplete(states[plist[idx]])
      BY <1>3, <3>2 DEF Completer, Aimless
    <3> QED  BY <3>1, <3>2
  <2> QED  BY <1>1, <1>3, <2>1, QuietChart DEF Completer
<1>4. CASE NextList
  BY <1>1, <1>4, QuietChart DEF NextList
<1>5. CASE UNCHANGED vars
  BY <1>1, <1>5, QuietChart DEF vars
<1> QED  BY <1>2, <1>3, <1>4, <1>5, AddChart, InitHeadChart DEF Next

\* Every state is in the heap of its own span, once, with the items above the
\* rest, however states are added and retyped: the lookups of hparse_add and the
\* handlers, which search one cell, miss nothing.
THEOREM ChartIndexes == Spec => []ChartIndexesStates
<1>1. ChartInv => ChartIndexesStates
  <2> SUFFICES ASSUME ChartInv PROVE ChartIndexesStates
    OBVIOUS
  <2>1. Inv /\ Indexed /\ Heaped
    BY DEF ChartInv
  <2>2. ASSUME NEW v \in Spans, NEW p \in DOMAIN chart[v]
        PROVE  /\ chart[v][p] \in Ids
               /\ <<states[chart[v][p]].i, states[chart[v][p]].j>> = v
    <3>1. chart[v] \in Seq(Ids)
      BY <2>1 DEF Inv, Inductive, TypeOK
    <3>2. states[chart[v][p]].i = v[1] /\ states[chart[v][p]].j = v[2]
      BY <2>1 DEF Inv, Inductive
    <3> QED  BY <3>1, <3>2 DEF Spans
  <2>3. ASSUME NEW s \in Ids
        PROVE  Cardinality({p \in DOMAIN chart[<<states[s].i, states[s].j>>] :
                              chart[<<states[s].i, states[s].j>>][p] = s}) = 1
    <3> DEFINE v == <<states[s].i, states[s].j>>
    <3>1. v \in Spans
      BY <2>1, StatesOK, HandOK DEF Spans, Inv
    <3>2. PICK k \in DOMAIN chart[v] : chart[v][k] = s
      BY <2>1 DEF Indexed
    <3>3. {p \in DOMAIN chart[v] : chart[v][p] = s} = {k}
      BY <2>1, <3>1, <3>2 DEF Indexed
    <3> QED  BY <3>3, FS_Singleton
  <2> QED  BY <2>1, <2>2, <2>3 DEF ChartIndexesStates, Heaped
<1> QED  BY <1>1, InitChart, NextChart, PTL DEF Spec

\* hp_check_heap never lets a state in that one in the chart makes superfluous,
\* and no later retyping makes one superfluous.
THEOREM NothingIsSubsumed == Spec => []NothingSubsumed
<1>1. ChartInv => NothingSubsumed
  BY DEF ChartInv
<1> QED  BY <1>1, InitChart, NextChart, PTL DEF Spec
=============================================================================
