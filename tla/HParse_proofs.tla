--------------------------- MODULE HParse_proofs ---------------------------
(***************************************************************************)
(* Proofs about the chart parser, for every lexicalised grammar that       *)
(* satisfies HandsAssumption and sentences of every length.                *)
(*                                                                         *)
(* The argument: every call a handler makes of hparse_add is on a `sound'  *)
(* state (HParseProps!Sound), shown handler by handler; a stored state is  *)
(* sound and lies within its goal; sound states stay sound when others are *)
(* added, merged or turned into goals.  Inductive collects this.           *)
(***************************************************************************)
EXTENDS HParseProps, TLAPS, SequenceTheorems, WellFoundedInduction

\* A set of numbers with a minimal element for < has a least one.
LEMMA LeastNat ==
  ASSUME NEW less, NEW places, places \subseteq Nat,
         \A q, p \in Nat : q < p => <<q, p>> \in less,
         \E p \in places : \A q \in places : ~ (<<q, p>> \in less)
  PROVE  \E p \in places : \A q \in places : p <= q
<1>1. PICK p \in places : \A q \in places : ~ (<<q, p>> \in less)
  OBVIOUS
<1>2. ASSUME NEW q \in places PROVE p <= q
  <2>1. p \in Nat /\ q \in Nat  OBVIOUS
  <2>2. ~ (<<q, p>> \in less)  BY <1>1
  <2>3. ~ (q < p)  BY <2>1, <2>2, Zenon
  <2> QED  BY <2>1, <2>3
<1> QED  BY <1>2

\* Numbers have a least one.
LEMMA LeastPlace ==
  ASSUME NEW places, places \subseteq Nat, places # {}
  PROVE  \E p \in places : \A q \in places : p <= q
<1>1. \A q, p \in Nat : q < p => <<q, p>> \in OpToRel(<, Nat)
  BY DEF OpToRel
<1>2. \E p \in places : \A q \in places : ~ (<<q, p>> \in OpToRel(<, Nat))
  BY NatLessThanWellFounded, WFMin
<1> QED  BY <1>1, <1>2, LeastNat, Zenon

\* FirstOf returns what stands at one of the places (the first hit of the chart lookups).
LEMMA FirstOfIn ==
  ASSUME NEW cell, NEW places, places \subseteq Nat, places # {}
  PROVE  \E p \in places : FirstOf(cell, places) = cell[p]
BY LeastPlace DEF FirstOf

-----------------------------------------------------------------------------
\* The places that no set of places closed under heap_parent can do without.
Upwards(p, S) == p \in S /\ \A x \in S : x > 1 => x \div 2 \in S
Needed(p) == {a \in 1 .. p : \A S \in SUBSET (1 .. p) : Upwards(p, S) => a \in S}

\* They are the place itself and those its parent needs.
LEMMA NeededStep ==
  ASSUME NEW p \in Nat, p > 1
  PROVE  Needed(p) = {p} \cup Needed(p \div 2)
<1>1. p \div 2 \in Nat /\ p \div 2 >= 1 /\ p \div 2 < p
  OBVIOUS
<1>2. ASSUME NEW a \in Needed(p \div 2), NEW S \in SUBSET (1 .. p), Upwards(p, S)
      PROVE  a \in S
  <2> DEFINE T == S \cap (1 .. (p \div 2))
  <2>1. p \div 2 \in S  BY <1>2 DEF Upwards
  <2>2. Upwards(p \div 2, T)
    <3>1. p \div 2 \in T  BY <1>1, <2>1
    <3>2. ASSUME NEW x \in T, x > 1 PROVE x \div 2 \in T
      <4>1. x \div 2 \in S  BY <1>2, <3>2 DEF Upwards
      <4>2. x \in 1 .. (p \div 2)  OBVIOUS
      <4>3. x \div 2 \in Nat /\ x \div 2 >= 1 /\ x \div 2 <= x  BY <3>2, <4>2
      <4> QED  BY <1>1, <4>1, <4>2, <4>3
    <3> QED  BY <3>1, <3>2 DEF Upwards
  <2>3. T \in SUBSET (1 .. (p \div 2))  OBVIOUS
  <2> HIDE DEF T
  <2>4. a \in T  BY <2>2, <2>3 DEF Needed
  <2> QED  BY <2>4 DEF T
<1>3. \A a \in Needed(p \div 2) : a \in 1 .. p
  BY <1>1 DEF Needed
<1>4. p \in Needed(p)
  BY DEF Needed, Upwards
<1>5. {p} \cup Needed(p \div 2) \subseteq Needed(p)
  BY <1>2, <1>3, <1>4 DEF Needed
<1>6. Needed(p) \subseteq {p} \cup Needed(p \div 2)
  <2> DEFINE T == {p} \cup Needed(p \div 2)
  <2>1. T \in SUBSET (1 .. p)  BY <1>3
  <2>2. p \div 2 \in Needed(p \div 2)
    BY <1>1 DEF Needed, Upwards
  <2>3. ASSUME NEW x \in Needed(p \div 2), x > 1
        PROVE  x \div 2 \in Needed(p \div 2)
    <3>1. x \in 1 .. (p \div 2)  BY DEF Needed
    <3>2. x \div 2 \in 1 .. (p \div 2)  BY <1>1, <2>3, <3>1
    <3>3. ASSUME NEW S \in SUBSET (1 .. (p \div 2)), Upwards(p \div 2, S)
          PROVE  x \div 2 \in S
      <4>1. x \in S  BY <3>3 DEF Needed
      <4> QED  BY <2>3, <3>3, <4>1 DEF Upwards
    <3> QED  BY <3>2, <3>3 DEF Needed
  <2>4. Upwards(p, T)
    BY <2>2, <2>3 DEF Upwards
  <2> HIDE DEF T
  <2>5. \A a \in Needed(p) : a \in T
    BY <2>1, <2>4 DEF Needed
  <2> QED  BY <2>5 DEF T
<1> QED  BY <1>5, <1>6

\* The recursion of HeapPath has a solution.
LEMMA HeapPathDef ==
  ASSUME NEW p \in Nat
  PROVE  /\ p = 1 => HeapPath[p] = {p}
         /\ p > 1 => HeapPath[p] = {p} \cup HeapPath[p \div 2]
<1> DEFINE f == [q \in Nat |-> IF q <= 1 THEN {q} ELSE Needed(q)]
           Def(g) == g = [q \in Nat |-> IF q <= 1 THEN {q} ELSE {q} \cup g[q \div 2]]
<1>1. Needed(1) = {1}
  BY DEF Needed, Upwards
<1>2. ASSUME NEW q \in Nat
      PROVE  f[q] = IF q <= 1 THEN {q} ELSE {q} \cup f[q \div 2]
  <2>1. CASE q <= 1  BY <2>1
  <2>2. CASE q > 1
    <3>1. q \div 2 \in Nat /\ q \div 2 >= 1  BY <2>2
    <3>2. f[q] = Needed(q)  BY <2>2
    <3>3. f[q \div 2] = Needed(q \div 2)
      <4>1. CASE q \div 2 = 1
        <5>1. f[1] = {1}  OBVIOUS
        <5> HIDE DEF f
        <5> QED  BY <1>1, <4>1, <5>1
      <4>2. CASE q \div 2 > 1  BY <3>1, <4>2
      <4> QED  BY <3>1, <4>1, <4>2
    <3> QED  BY <2>2, <3>2, <3>3, NeededStep
  <2> QED  BY <2>1, <2>2
<1>3. Def(f)
  <2>1. f = [q \in Nat |-> f[q]]  OBVIOUS
  <2> HIDE DEF f
  <2> QED  BY <1>2, <2>1
<1>4. HeapPath = CHOOSE g : Def(g)
  BY DEF HeapPath
<1> HIDE DEF f
<1>5. Def(HeapPath)
  <2> HIDE DEF Def
  <2> QED  BY <1>3, <1>4
<1> QED  BY <1>5

\* The set A of places is a path from p to the root of a heap: it has the
\* parents of its places, and each of them has one child on the path.
IsPath(p, A) ==
  /\ p \in A /\ A \subseteq 1 .. p
  /\ \A x \in A : x > 1 => x \div 2 \in A
  /\ \A x \in A : x < p => \E y \in A : y \div 2 = x
  /\ \A x, y \in A : x < y => x <= y \div 2

\* The way of heap_insert is such a path.
LEMMA HeapPathIs ==
  ASSUME NEW p \in Nat \ {0}
  PROVE  IsPath(p, HeapPath[p])
<1> DEFINE bad == {q \in Nat \ {0} : ~ IsPath(q, HeapPath[q])}
<1>1. SUFFICES ASSUME bad # {} PROVE FALSE
  OBVIOUS
<1>2. PICK q \in bad : \A r \in bad : q <= r
  BY <1>1, LeastPlace
<1>3. q \in Nat /\ q # 0 /\ ~ IsPath(q, HeapPath[q])
  OBVIOUS
<1> DEFINE A == HeapPath[q]
           B == HeapPath[q \div 2]
<1>4. CASE q = 1
  <2>1. HeapPath[q] = {1}  BY <1>3, <1>4, HeapPathDef
  <2> QED  BY <1>3, <1>4, <2>1 DEF IsPath
<1>5. CASE q > 1
  <2>1. q \div 2 \in Nat \ {0} /\ q \div 2 < q  BY <1>5
  <2>2. q \div 2 \notin bad
    <3> HIDE DEF bad
    <3>1. ASSUME q \div 2 \in bad PROVE FALSE
      <4>1. q <= q \div 2  BY <1>2, <3>1
      <4> QED  BY <1>3, <2>1, <4>1
    <3> QED  BY <3>1
  <2>3. IsPath(q \div 2, B)  BY <2>1, <2>2
  <2>4. A = {q} \cup B  BY <1>3, <1>5, HeapPathDef
  <2> HIDE DEF A, B, bad
  <2>5. q \in A /\ A \subseteq 1 .. q
    BY <1>3, <2>1, <2>3, <2>4 DEF IsPath
  <2>6. \A x \in A : x > 1 => x \div 2 \in A
    BY <2>3, <2>4 DEF IsPath
  <2>7. ASSUME NEW x \in A, x < q PROVE \E y \in A : y \div 2 = x
    <3>1. x \in B /\ x \in 1 .. (q \div 2)  BY <1>3, <2>1, <2>3, <2>4, <2>7 DEF IsPath
    <3>2. CASE x = q \div 2  BY <2>4, <3>2
    <3>3. CASE x < q \div 2  BY <2>3, <2>4, <3>1, <3>3 DEF IsPath
    <3> QED  BY <2>1, <3>1, <3>2, <3>3
  <2>8. ASSUME NEW x \in A, NEW y \in A, x < y PROVE x <= y \div 2
    <3>1. B \subseteq 1 .. (q \div 2)  BY <2>3 DEF IsPath
    <3>2. CASE y = q
      <4>1. x \in B  BY <1>3, <2>4, <2>5, <2>8, <3>2
      <4>2. x \in 1 .. (q \div 2)  BY <3>1, <4>1
      <4> QED  BY <2>1, <3>2, <4>2
    <3>3. CASE y \in B
      <4>1. x # q  BY <2>1, <2>8, <3>1, <3>3
      <4>2. x \in B  BY <2>4, <4>1
      <4> QED  BY <2>3, <2>8, <3>3, <4>2 DEF IsPath
    <3> QED  BY <2>4, <3>2, <3>3
  <2>9. IsPath(q, A)  BY <2>5, <2>6, <2>7, <2>8 DEF IsPath
  <2> QED  BY <1>3, <2>9 DEF A
<1> QED  BY <1>3, <1>4, <1>5
\* heap_insert leaves nothing in the heap but its old entries and the new one.
LEMMA HeapInsertIn ==
  ASSUME NEW S, NEW cell \in Seq(S), NEW id, NEW t,
         NEW new, new = HeapInsert(cell, id, t)
  PROVE  /\ new \in Seq(S \cup {id})
         /\ \A k \in DOMAIN new : new[k] = id \/ \E l \in DOMAIN cell : new[k] = cell[l]
<1> DEFINE leaf == Len(cell) + 1
<1>1. PICK risen : /\ leaf \in risen /\ risen \subseteq 1 .. leaf
                   /\ new = [p \in 1 .. leaf |-> IF p \notin risen THEN cell[p]
                              ELSE IF p \div 2 \in risen THEN cell[p \div 2]
                              ELSE id]
  <2> DEFINE risen == {leaf} \cup
               {a \in HeapPath[leaf] :
                  /\ a < leaf
                  /\ t.type = "item"
                  /\ \A x \in HeapPath[leaf] :
                       a <= x /\ x < leaf => states[cell[x]].type # "item"}
  <2>1. leaf \in Nat  OBVIOUS
  <2>2. HeapPath[leaf] \subseteq 1 .. leaf  BY <2>1, HeapPathIs DEF IsPath
  <2>3. risen \subseteq 1 .. leaf  BY <2>1, <2>2
  <2> QED  BY <2>3 DEF HeapInsert
<1>2. \A k \in 1 .. leaf : new[k] = id \/ \E l \in DOMAIN cell : new[k] = cell[l]
  <2> SUFFICES ASSUME NEW k \in 1 .. leaf
               PROVE  new[k] = id \/ \E l \in DOMAIN cell : new[k] = cell[l]
    OBVIOUS
  <2>1. DOMAIN cell = 1 .. Len(cell) /\ Len(cell) \in Nat  OBVIOUS
  <2>2. CASE k \notin risen
    <3>1. k \in DOMAIN cell  BY <1>1, <2>1, <2>2
    <3> QED  BY <1>1, <2>2, <3>1
  <2>3. CASE k \in risen /\ k \div 2 \in risen
    <3>1. k \div 2 < k  OBVIOUS
    <3>2. k \div 2 \in 1 .. leaf /\ k <= leaf  BY <1>1, <2>3
    <3>3. k \div 2 \in DOMAIN cell  BY <2>1, <3>1, <3>2
    <3> QED  BY <1>1, <2>3, <3>3
  <2>4. CASE k \in risen /\ k \div 2 \notin risen
    BY <1>1, <2>4
  <2> QED  BY <2>2, <2>3, <2>4
<1>3. \A k \in 1 .. leaf : new[k] \in S \cup {id}
  <2> SUFFICES ASSUME NEW k \in 1 .. leaf PROVE new[k] \in S \cup {id}
    OBVIOUS
  <2> QED  BY <1>2
<1>4. new \in Seq(S \cup {id}) /\ DOMAIN new = 1 .. leaf
  <2>1. new = [p \in 1 .. leaf |-> new[p]]  BY <1>1
  <2>2. new \in [1 .. leaf -> S \cup {id}]  BY <2>1, <1>3
  <2> QED  BY <2>2
<1> QED  BY <1>2, <1>4

-----------------------------------------------------------------------------
\* The array new has the states of st: predictions may have become goals, and
\* goals of their own; back pointers may have been added.
Extends(st, new) ==
  /\ Len(st) <= Len(new)
  /\ \A p \in 1 .. Len(st) :
       /\ new[p].n = st[p].n /\ new[p].pos = st[p].pos
       /\ new[p].i = st[p].i /\ new[p].j = st[p].j
       /\ new[p].type = "item" <=> st[p].type = "item"

\* A sound state stays sound as the array of states grows and predictions
\* become goals.
LEMMA SoundExtends ==
  ASSUME NEW h, NEW st, NEW new, Len(st) \in Nat, Len(new) \in Nat, Extends(st, new),
         NEW s, Sound(h, st, s)
  PROVE  Sound(h, new, s)
<1>1. Bounded(h, new, s)
  BY DEF Sound, Bounded, Extends
<1>2. Pursues(h, new, s)
  <2>1. s.g \in 0 .. Len(st)  BY DEF Sound, Bounded
  <2> QED  BY <2>1 DEF Sound, Pursues, Aims, Extends
<1>3. Asks(h, new, s)
  <2> SUFFICES ASSUME s.type # "item", NEW k \in DOMAIN s.bp
               PROVE  /\ s.bp[k].b = 0 <=> s.bp[k].c # 0
                      /\ s.bp[k].b # 0 => Asker(h, new[s.bp[k].b], s.n, "right") /\ new[s.bp[k].b].i = s.j
                      /\ s.bp[k].c # 0 => Asker(h, new[s.bp[k].c], s.n, "left") /\ new[s.bp[k].c].j = s.i
    BY DEF Asks
  <2> DEFINE b == s.bp[k].b
             c == s.bp[k].c
  <2>1. b \in 0 .. Len(st) /\ c \in 0 .. Len(st)
    BY DEF Sound, Bounded
  <2>2. /\ b = 0 <=> c # 0
        /\ b # 0 => Asker(h, st[b], s.n, "right") /\ st[b].i = s.j
        /\ c # 0 => Asker(h, st[c], s.n, "left") /\ st[c].j = s.i
    BY DEF Sound, Asks
  <2> HIDE DEF b, c
  <2>3. b # 0 => Asker(h, new[b], s.n, "right") /\ new[b].i = s.j
    BY <2>1, <2>2 DEF Asker, Extends
  <2>4. c # 0 => Asker(h, new[c], s.n, "left") /\ new[c].j = s.i
    BY <2>1, <2>2 DEF Asker, Extends
  <2> QED  BY <2>2, <2>3, <2>4 DEF b, c
<1> QED  BY <1>1, <1>2, <1>3 DEF Sound

\* The back pointers of a new state (hpbackptr_new).
LEMMA PtrsIn ==
  ASSUME NEW b \in Nat, NEW c \in Nat
  PROVE  /\ Ptrs(b, c) \in Seq(Backptr)
         /\ \A k \in DOMAIN Ptrs(b, c) :
              Ptrs(b, c)[k].b = b /\ Ptrs(b, c)[k].c = c /\ (b # 0 \/ c # 0)
<1>1. CASE b = 0 /\ c = 0
  BY <1>1 DEF Ptrs
<1>2. CASE ~ (b = 0 /\ c = 0)
  <2>1. Ptrs(b, c) = << [b |-> b, c |-> c] >>
    BY <1>2 DEF Ptrs
  <2>2. [b |-> b, c |-> c] \in Backptr
    BY DEF Backptr
  <2>3. DOMAIN Ptrs(b, c) = {1} /\ Ptrs(b, c)[1] = [b |-> b, c |-> c]
    BY <2>1
  <2>4. Ptrs(b, c) \in Seq(Backptr)
    BY <2>1, <2>2
  <2> QED  BY <1>2, <2>3, <2>4
<1> QED  BY <1>1, <1>2

\* The same for one of them.
LEMMA PtrsAre ==
  ASSUME NEW b \in Nat, NEW c \in Nat, NEW k \in DOMAIN Ptrs(b, c)
  PROVE  Ptrs(b, c)[k].b = b /\ Ptrs(b, c)[k].c = c /\ (b # 0 \/ c # 0)
BY PtrsIn

\* The fields of new states and calls.
LEMMA CallFields ==
  ASSUME NEW at, NEW t
  PROVE  Call(at, t).t = t
BY DEF Call

LEMMA ItemFields ==
  ASSUME NEW n, NEW g, NEW pos, NEW i, NEW j, NEW fl, NEW fr, NEW w, NEW b, NEW c
  PROVE  LET s == Item(n, g, pos, i, j, fl, fr, w, b, c)
         IN /\ s.n = n /\ s.g = g /\ s.pos = pos /\ s.i = i /\ s.j = j
            /\ s.fl = fl /\ s.fr = fr /\ s.type = "item" /\ s.w = w /\ s.bp = Ptrs(b, c)
BY DEF Item

LEMMA PredictFields ==
  ASSUME NEW n, NEW i, NEW j, NEW fl, NEW fr, NEW b, NEW c
  PROVE  LET s == Predict(n, i, j, fl, fr, b, c)
         IN /\ s.n = n /\ s.g = 0 /\ s.i = i /\ s.j = j
            /\ s.fl = fl /\ s.fr = fr /\ s.type # "item"
BY DEF Predict

LEMMA GoalFields ==
  ASSUME NEW n, NEW g, NEW i, NEW j
  PROVE  LET s == Goal(n, g, i, j)
         IN s.n = n /\ s.g = g /\ s.i = i /\ s.j = j /\ s.fl = ef /\ s.fr = ef /\ s.type # "item"
BY DEF Goal

\* A new item is sound when its goal is on its path of headcorners.
LEMMA ItemSound ==
  ASSUME NEW h, NEW st, Len(st) \in Nat, h.nodes \subseteq Nat, h.last \in Nat,
         NEW n \in h.nodes, NEW g \in 0 .. Len(st), NEW pos \in {"top", "bot"},
         NEW i \in 0 .. h.last, NEW j \in 0 .. h.last, NEW fl \in Int, NEW fr \in Int,
         NEW w \in Seq(Nat), NEW b \in 0 .. Len(st), NEW c \in 0 .. Len(st),
         Aims(h, st, g, n),
         h.kind[h.head[n]] = "foot" => fl \in 0 .. h.last /\ fr \in 0 .. h.last
  PROVE  Sound(h, st, Item(n, g, pos, i, j, fl, fr, w, b, c))
<1> DEFINE s == Item(n, g, pos, i, j, fl, fr, w, b, c)
<1>1. /\ s.n = n /\ s.g = g /\ s.i = i /\ s.j = j /\ s.type = "item"
      /\ s.bp = Ptrs(b, c) /\ s.fl = fl /\ s.fr = fr
  BY DEF Item
<1>2. /\ s.bp \in Seq(Backptr)
      /\ \A k \in DOMAIN s.bp : s.bp[k].b = b /\ s.bp[k].c = c
  <2>1. b \in Nat /\ c \in Nat  OBVIOUS
  <2>2. /\ Ptrs(b, c) \in Seq(Backptr)
        /\ \A k \in DOMAIN Ptrs(b, c) : Ptrs(b, c)[k].b = b /\ Ptrs(b, c)[k].c = c
    <3> HIDE DEF s
    <3> QED  BY <2>1, PtrsIn, SMTT(30)
  <2> HIDE DEF s
  <2> QED  BY <1>1, <2>2
<1>3. s \in State
  <2>1. n \in Nat /\ g \in Nat /\ i \in Int /\ j \in Int  OBVIOUS
  <2> QED  BY <1>1, <1>2, <2>1 DEF Item, State
<1>4. Bounded(h, st, s)
  <2>1. \A k \in DOMAIN s.bp : s.bp[k].b \in 0 .. Len(st) /\ s.bp[k].c \in 0 .. Len(st)
    BY <1>2
  <2> HIDE DEF s
  <2> QED  BY <1>1, <1>3, <2>1 DEF Bounded
<1>5. Pursues(h, st, s) /\ Asks(h, st, s)
  BY <1>1 DEF Pursues, Asks
<1> QED  BY <1>4, <1>5 DEF Sound

\* A new prediction is sound when it is made for the end of such a path and the
\* head that asks for it stands next to it.
LEMMA PredictSound ==
  ASSUME NEW h, NEW st, Len(st) \in Nat, h.nodes \subseteq Nat, h.last \in Nat,
         NEW n \in h.nodes, NEW i \in 0 .. h.last, NEW j \in 0 .. h.last + 1,
         NEW fl \in Int, NEW fr \in Int,
         NEW b \in 0 .. Len(st), NEW c \in 0 .. Len(st),
         SpineTop(h, n),
         j > h.last => h.kind[h.head[n]] = "eps",
         h.kind[h.head[n]] = "foot" => fl \in 0 .. h.last /\ fr \in 0 .. h.last,
         b = 0 \/ c = 0,
         b # 0 => Asker(h, st[b], n, "right") /\ st[b].i = j,
         c # 0 => Asker(h, st[c], n, "left") /\ st[c].j = i
  PROVE  Sound(h, st, Predict(n, i, j, fl, fr, b, c))
<1> DEFINE s == Predict(n, i, j, fl, fr, b, c)
<1>1. /\ s.n = n /\ s.g = 0 /\ s.i = i /\ s.j = j /\ s.type = "init"
      /\ s.bp = Ptrs(b, c) /\ s.fl = fl /\ s.fr = fr
  BY DEF Predict
<1>2. /\ s.bp \in Seq(Backptr)
      /\ \A k \in DOMAIN s.bp : s.bp[k].b = b /\ s.bp[k].c = c /\ (b # 0 \/ c # 0)
  <2>1. b \in Nat /\ c \in Nat  OBVIOUS
  <2>2. /\ Ptrs(b, c) \in Seq(Backptr)
        /\ \A k \in DOMAIN Ptrs(b, c) :
             Ptrs(b, c)[k].b = b /\ Ptrs(b, c)[k].c = c /\ (b # 0 \/ c # 0)
    <3> HIDE DEF s
    <3>1. Ptrs(b, c) \in Seq(Backptr)  BY <2>1, PtrsIn
    <3>2. \A k \in DOMAIN Ptrs(b, c) :
             Ptrs(b, c)[k].b = b /\ Ptrs(b, c)[k].c = c /\ (b # 0 \/ c # 0)
      <4>1. ASSUME NEW k \in DOMAIN Ptrs(b, c)
            PROVE  Ptrs(b, c)[k].b = b /\ Ptrs(b, c)[k].c = c /\ (b # 0 \/ c # 0)
        BY <2>1, PtrsAre
      <4> QED  BY <4>1
    <3> QED  BY <3>1, <3>2
  <2> HIDE DEF s
  <2> QED  BY <1>1, <2>2
<1>3. s \in State
  <2>1. n \in Nat /\ i \in Int /\ j \in Int  OBVIOUS
  <2> QED  BY <1>1, <1>2, <2>1 DEF Predict, State
<1> HIDE DEF s
<1>4. Bounded(h, st, s)
  BY <1>1, <1>2, <1>3 DEF Bounded
<1>5. Pursues(h, st, s)
  BY <1>1 DEF Pursues, Aims
<1>6. Asks(h, st, s)
  BY <1>1, <1>2 DEF Asks
<1>7. Sound(h, st, s)
  BY <1>4, <1>5, <1>6 DEF Sound
<1> QED  BY <1>7 DEF s

\* So is the goal hparse_init_subst stores for a substitution node.
LEMMA GoalSound ==
  ASSUME NEW h, NEW st, Len(st) \in Nat, h.nodes \subseteq Nat, h.last \in Nat,
         NEW n \in h.nodes, NEW g \in 1 .. Len(st),
         NEW i \in 0 .. h.last, NEW j \in 0 .. h.last,
         Aims(h, st, g, n), h.kind[h.head[n]] # "foot"
  PROVE  Sound(h, st, Goal(n, g, i, j))
<1> DEFINE s == Goal(n, g, i, j)
<1>1. /\ s.n = n /\ s.g = g /\ s.i = i /\ s.j = j /\ s.type = "goal" /\ s.bp = <<>>
  BY DEF Goal
<1>2. s \in State
  BY DEF Goal, State, ef
<1>3. Bounded(h, st, s)
  BY <1>1, <1>2 DEF Bounded
<1>4. Pursues(h, st, s) /\ Asks(h, st, s)
  BY <1>1 DEF Pursues, Asks
<1> QED  BY <1>3, <1>4 DEF Sound

-----------------------------------------------------------------------------
\* The inductive invariant.
Inv == hand \in Hands /\ Inductive

\* Where the foot is the headcorner of n, the gap is within the sentence.
FootPlaced(n, fl, fr) ==
  hand.kind[hand.head[n]] = "foot" => fl \in 0 .. hand.last /\ fr \in 0 .. hand.last

\* The tables of the current grammar are well formed.
LEMMA HandOK ==
  ASSUME hand \in Hands
  PROVE  /\ TablesOK(hand) /\ TreesOK(hand) /\ HeadsOK(hand) /\ ListsOK(hand)
         /\ hand.last \in Nat /\ hand.nodes \subseteq Nat /\ 0 \notin hand.nodes
BY HandsAssumption DEF TablesOK

\* What the invariant says of one state, its types spelt out.
LEMMA StatesOK ==
  ASSUME Inv
  PROVE  /\ Len(states) \in Nat /\ Ids = 1 .. Len(states) /\ states \in Seq(State)
         /\ \A p \in Ids :
              /\ Sound(hand, states, states[p])
              /\ states[p] \in State
              /\ states[p].n \in hand.nodes
              /\ states[p].g \in 0 .. Len(states)
              /\ states[p].i \in 0 .. hand.last /\ states[p].j \in 0 .. hand.last + 1
              /\ states[p].type = "item" => states[p].j \in 0 .. hand.last
              /\ states[p].fl \in Int /\ states[p].fr \in Int
              /\ states[p].w \in Seq(Nat)
              /\ Aims(hand, states, states[p].g, states[p].n)
              /\ FootPlaced(states[p].n, states[p].fl, states[p].fr)
<1>1. states \in Seq(State) /\ \A p \in Ids : Sound(hand, states, states[p])
  BY DEF Inv, Inductive, TypeOK
<1>2. Len(states) \in Nat /\ Ids = 1 .. Len(states)
  BY <1>1 DEF Ids
<1> SUFFICES ASSUME NEW p \in Ids
             PROVE  /\ Sound(hand, states, states[p])
                    /\ states[p] \in State
                    /\ states[p].n \in hand.nodes
                    /\ states[p].g \in 0 .. Len(states)
                    /\ states[p].i \in 0 .. hand.last /\ states[p].j \in 0 .. hand.last + 1
                    /\ states[p].type = "item" => states[p].j \in 0 .. hand.last
                    /\ states[p].fl \in Int /\ states[p].fr \in Int
                    /\ states[p].w \in Seq(Nat)
                    /\ Aims(hand, states, states[p].g, states[p].n)
                    /\ FootPlaced(states[p].n, states[p].fl, states[p].fr)
  BY <1>1, <1>2
<1> DEFINE s == states[p]
<1>3. Bounded(hand, states, s) /\ Pursues(hand, states, s)
  BY <1>1 DEF Sound
<1>4. s \in State
  BY <1>3 DEF Bounded
<1>5. s.fl \in Int /\ s.fr \in Int /\ s.w \in Seq(Nat)
  BY <1>4 DEF State
<1>6. hand.last \in Nat
  BY HandOK DEF Inv
<1> HIDE DEF s
<1>7. s.type = "item" => s.j \in 0 .. hand.last
  BY <1>3, <1>6 DEF Bounded, Pursues
<1>8. /\ s.n \in hand.nodes /\ s.g \in 0 .. Len(states)
      /\ s.i \in 0 .. hand.last /\ s.j \in 0 .. hand.last + 1
      /\ Aims(hand, states, s.g, s.n) /\ FootPlaced(s.n, s.fl, s.fr)
  BY <1>3 DEF Bounded, Pursues, FootPlaced
<1> QED  BY <1>1, <1>4, <1>5, <1>7, <1>8 DEF s

\* Below the top of its subtree a node has a parent with the same headcorner
\* (parent(n, t) in hparse_move_up is defined).
LEMMA NotFinished ==
  ASSUME Inv, NEW p \in ItemIds, states[p].g # 0, states[p].n # states[states[p].g].n
  PROVE  /\ hand.up[states[p].n] \in hand.nodes /\ hand.up[states[p].n] # 0
         /\ hand.head[hand.up[states[p].n]] = hand.head[states[p].n]
<1> DEFINE s == states[p]
           g == states[s.g]
<1>1. s.n \in hand.nodes /\ Aims(hand, states, s.g, s.n) /\ g.n \in hand.nodes
  BY StatesOK DEF ItemIds
<1>2. SpineTop(hand, g.n) /\ hand.head[g.n] = hand.head[s.n]
  BY <1>1 DEF Aims
<1>3. ~ SpineTop(hand, s.n)
  BY <1>1, <1>2, HandOK DEF HeadsOK, Inv
<1>4. hand.up[s.n] # 0 /\ hand.head[hand.up[s.n]] = hand.head[s.n]
  BY <1>3 DEF SpineTop
<1> QED  BY <1>1, <1>4, HandOK DEF TablesOK, Inv

\* The entries of a cell are states with that span.
LEMMA CellIn ==
  ASSUME Inv, NEW i \in 0 .. hand.last + 1, NEW j \in 0 .. hand.last + 1,
         NEW k \in DOMAIN CellOf(i, j)
  PROVE  /\ CellOf(i, j)[k] \in Ids /\ k \in Nat
         /\ states[CellOf(i, j)[k]].i = i /\ states[CellOf(i, j)[k]].j = j
<1>1. <<i, j>> \in Spans
  BY DEF Spans
<1>2. chart[<<i, j>>] \in Seq(Ids)
  BY <1>1 DEF Inv, Inductive, TypeOK
<1>3. /\ states[chart[<<i, j>>][k]].i = <<i, j>>[1]
      /\ states[chart[<<i, j>>][k]].j = <<i, j>>[2]
  BY <1>1 DEF Inv, Inductive, CellOf
<1> QED  BY <1>2, <1>3 DEF CellOf

\* hp_state_exists returns 0 or a finished item of the node and span asked for.
LEMMA StateExistsIn ==
  ASSUME Inv, NEW i \in 0 .. hand.last + 1, NEW j \in 0 .. hand.last + 1,
         NEW n, NEW fl, NEW fr,
         StateExists(i, j, n, fl, fr) # 0
  PROVE  /\ StateExists(i, j, n, fl, fr) \in Ids
         /\ LET s == states[StateExists(i, j, n, fl, fr)]
            IN /\ s.type = "item" /\ s.pos = "top" /\ s.n = n /\ s.i = i /\ s.j = j
               /\ s.fl = fl /\ s.fr = fr
<1> DEFINE cell == CellOf(i, j)
           places == {p \in DOMAIN cell :
                      LET s == states[cell[p]]
                      IN /\ s.n = n /\ s.pos = "top" /\ s.type = "item"
                         /\ s.fl = fl /\ s.fr = fr}
<1>1. StateExists(i, j, n, fl, fr) = FirstOf(cell, places)
  BY DEF StateExists
<1>2. places \subseteq Nat
  BY CellIn
<1>3. places # {}
  BY <1>1 DEF FirstOf
<1> HIDE DEF places
<1>4. PICK p \in places : FirstOf(cell, places) = cell[p]
  BY <1>2, <1>3, FirstOfIn
<1>5. p \in DOMAIN cell /\ states[cell[p]].n = n /\ states[cell[p]].pos = "top"
      /\ states[cell[p]].type = "item" /\ states[cell[p]].fl = fl /\ states[cell[p]].fr = fr
  BY DEF places
<1>6. cell[p] \in Ids /\ states[cell[p]].i = i /\ states[cell[p]].j = j
  BY <1>5, CellIn
<1> QED  BY <1>1, <1>4, <1>5, <1>6

\* Every call of hparse_add in S is on a sound state.
CallsOK(S) ==
  \A r \in S : r.at \in Int \X Int \X Int \X Int /\ Sound(hand, states, r.t)

\* A call on a sound state is a sound call.
LEMMA CallOK ==
  ASSUME NEW a \in Int, NEW b \in Int, NEW c \in Int, NEW d \in Int, NEW t,
         Sound(hand, states, t)
  PROVE  LET r == Call(<<a, b, c, d>>, t)
         IN r.at \in Int \X Int \X Int \X Int /\ Sound(hand, states, r.t)
<1>1. Call(<<a, b, c, d>>, t).at = <<a, b, c, d>> /\ Call(<<a, b, c, d>>, t).t = t
  BY DEF Call
<1> QED  BY <1>1

-----------------------------------------------------------------------------
\* The state a prediction becomes is a goal for the nodes down to its headcorner.
LEMMA AimAtPrediction ==
  ASSUME Inv, NEW p \in Ids, states[p].type = "init", states[p].j <= hand.last
  PROVE  /\ p \in 1 .. Len(states)
         /\ hand.head[states[p].n] \in hand.nodes
         /\ hand.head[hand.head[states[p].n]] = hand.head[states[p].n]
         /\ Aims(hand, states, p, states[p].n)
         /\ Aims(hand, states, p, hand.head[states[p].n])
<1>1. states[p].n \in hand.nodes /\ p \in 1 .. Len(states) /\ Sound(hand, states, states[p])
  BY StatesOK
<1>2. SpineTop(hand, states[p].n)
  BY <1>1 DEF Sound, Pursues
<1>3. /\ hand.head[states[p].n] \in hand.nodes
      /\ hand.head[hand.head[states[p].n]] = hand.head[states[p].n]
  BY <1>1, HandOK DEF TablesOK, HeadsOK, Inv
<1> QED  BY <1>1, <1>2, <1>3 DEF Aims

\* The calls of hparse_init_anchor are sound.
LEMMA InitAnchorOK ==
  ASSUME Inv, NEW p \in Ids, states[p].type = "init", states[p].j <= hand.last,
         hand.kind[hand.head[states[p].n]] # "foot"
  PROVE  CallsOK(InitAnchor(p, hand.head[states[p].n]))
<1> DEFINE s == states[p]
           node == hand.head[s.n]
<1> SUFFICES ASSUME NEW k \in s.i .. (s.j - 1), <<k, node>> \in hand.lexed
             PROVE  LET r == Call(<<k, 0, 0, 0>>,
                               Item(node, p, "bot", k, k + 1, ef, ef, <<k>>, 0, 0))
                    IN r.at \in Int \X Int \X Int \X Int /\ Sound(hand, states, r.t)
  BY DEF CallsOK, InitAnchor
<1>1. s.i \in Nat /\ s.j \in Nat /\ s.j <= hand.last /\ hand.last \in Nat
  BY StatesOK, HandOK DEF Inv
<1>2. k \in 0 .. hand.last /\ k + 1 \in 0 .. hand.last /\ k \in Int
  BY <1>1
<1>3. <<k>> \in Seq(Nat)
  BY <1>2
<1>4. ef \in Int /\ 0 \in 0 .. Len(states) /\ Len(states) \in Nat /\ p \in 0 .. Len(states)
  BY StatesOK DEF ef
<1>5. node \in hand.nodes /\ Aims(hand, states, p, node) /\ hand.kind[hand.head[node]] # "foot"
  BY AimAtPrediction
<1> HIDE DEF node
<1>6. Sound(hand, states, Item(node, p, "bot", k, k + 1, ef, ef, <<k>>, 0, 0))
  BY <1>2, <1>3, <1>4, <1>5, ItemSound, HandOK DEF Inv
<1> QED  BY <1>2, <1>6, CallOK

\* The calls of hparse_init_epsilon are sound; a prediction beyond the last word
\* makes none.
LEMMA InitEpsilonOK ==
  ASSUME Inv, NEW p \in Ids, states[p].type = "init",
         hand.kind[hand.head[states[p].n]] # "foot",
         NEW node \in {states[p].n, hand.head[states[p].n]}
  PROVE  CallsOK(InitEpsilon(p, node))
<1> DEFINE s == states[p]
<1>1. CASE s.i # s.j
  BY <1>1 DEF CallsOK, InitEpsilon
<1>2. CASE s.i = s.j
  <2>1. s.i \in 0 .. hand.last /\ s.j <= hand.last /\ hand.last \in Nat
    BY <1>2, StatesOK, HandOK DEF Inv
  <2>2. /\ node \in hand.nodes /\ Aims(hand, states, p, node)
        /\ hand.kind[hand.head[node]] # "foot"
    BY <2>1, AimAtPrediction, StatesOK
  <2>3. ef \in Int /\ 0 \in 0 .. Len(states) /\ Len(states) \in Nat /\ p \in 0 .. Len(states)
    BY StatesOK DEF ef
  <2>4. << >> \in Seq(Nat)
    OBVIOUS
  <2>5. Sound(hand, states, Item(node, p, "top", s.i, s.i, ef, ef, <<>>, 0, 0))
    BY <2>1, <2>2, <2>3, <2>4, ItemSound, HandOK DEF Inv
  <2>6. InitEpsilon(p, node) =
          {Call(<<0, 0, 0, 0>>, Item(node, p, "top", s.i, s.i, ef, ef, <<>>, 0, 0))}
    BY <1>2 DEF InitEpsilon
  <2> QED  BY <2>5, <2>6, CallOK DEF CallsOK
<1> QED  BY <1>1, <1>2

\* The call of hparse_init_foot is sound: the gap is within the sentence.
LEMMA InitFootOK ==
  ASSUME Inv, NEW p \in Ids, states[p].type = "init", states[p].j <= hand.last,
         hand.kind[hand.head[states[p].n]] = "foot"
  PROVE  CallsOK(InitFoot(p, hand.head[states[p].n]))
<1> DEFINE s == states[p]
           node == hand.head[s.n]
<1>1. /\ s.fl \in 0 .. hand.last /\ s.fr \in 0 .. hand.last /\ hand.last \in Nat
      /\ s.fl \in Int /\ s.fr \in Int
  BY StatesOK, HandOK DEF FootPlaced, Inv
<1>2. node \in hand.nodes /\ Aims(hand, states, p, node)
  BY AimAtPrediction
<1>3. 0 \in 0 .. Len(states) /\ Len(states) \in Nat /\ p \in 0 .. Len(states)
      /\ << >> \in Seq(Nat)
  BY StatesOK
<1> HIDE DEF node, s
<1>4. Sound(hand, states, Item(node, p, "bot", s.fl, s.fr, s.fl, s.fr, <<>>, 0, 0))
  BY <1>1, <1>2, <1>3, ItemSound, HandOK DEF Inv
<1>5. InitFoot(p, node) =
        {Call(<<0, 0, 0, 0>>, Item(node, p, "bot", s.fl, s.fr, s.fl, s.fr, <<>>, 0, 0))}
  BY DEF InitFoot, s
<1>6. CallsOK(InitFoot(p, node))
  BY <1>4, <1>5, CallOK DEF CallsOK
<1> QED  BY <1>6 DEF node, s

\* The root of an initial tree is the end of a path and has no foot below it.
LEMMA RootIsTop ==
  ASSUME hand \in Hands, NEW l \in DOMAIN hand.inits, NEW k \in DOMAIN hand.inits[l]
  PROVE  /\ k \in Nat /\ hand.inits[l][k] \in hand.nodes
         /\ SpineTop(hand, hand.inits[l][k])
         /\ hand.kind[hand.head[hand.inits[l][k]]] # "foot"
<1>1. hand.inits[l] \in Seq(hand.nodes)
  BY HandOK DEF ListsOK
<1>2. k \in Nat /\ hand.inits[l][k] \in hand.nodes
  BY <1>1
<1>3. hand.up[hand.inits[l][k]] = 0 /\ hand.foot[hand.inits[l][k]] = 0
  BY HandOK DEF ListsOK
<1>4. PICK r \in hand.nodes : r = hand.inits[l][k]
  BY <1>2
<1>5. hand.kind[hand.head[r]] # "foot"
  <2>1. hand.head[r] # 0
    BY HandOK DEF TablesOK
  <2> QED  BY <1>3, <1>4, <2>1, HandOK DEF HeadsOK
<1> QED  BY <1>2, <1>3, <1>4, <1>5 DEF SpineTop

\* The calls of hparse_init_subst are sound, its goals included.
LEMMA InitSubstOK ==
  ASSUME Inv, NEW p \in Ids, states[p].type = "init", states[p].j <= hand.last,
         hand.kind[hand.head[states[p].n]] # "foot"
  PROVE  CallsOK(InitSubst(p, hand.head[states[p].n]))
<1> DEFINE s == states[p]
           node == hand.head[s.n]
           roots == hand.inits[hand.label[node]]
           visits == {v \in (DOMAIN roots) \X (s.i .. s.j) \X (s.i .. s.j) :
                        <<v[2], v[3]>> \in SubstSpans(s, node)}
           done(v) == StateExists(v[2], v[3], roots[v[1]], ef, ef)
           found(v) == Item(node, p, "top", v[2], v[3], ef, ef, <<>>, done(v), 0)
           goal(v) == Goal(node, p, v[2], v[3])
           pred(v) == Predict(roots[v[1]], v[2], v[3], ef, ef, 0, 0)
<1>1. s.i \in Nat /\ s.j \in Nat /\ s.j <= hand.last /\ hand.last \in Nat
  BY StatesOK, HandOK DEF Inv
<1>2. /\ node \in hand.nodes /\ Aims(hand, states, p, node) /\ p \in 1 .. Len(states)
      /\ hand.kind[hand.head[node]] # "foot"
  BY AimAtPrediction
<1>3. hand.label[node] \in DOMAIN hand.inits
  BY <1>2, HandOK DEF ListsOK, Inv
<1>4. 0 \in 0 .. Len(states) /\ Len(states) \in Nat /\ << >> \in Seq(Nat) /\ ef \in Int
  BY StatesOK DEF ef
<1> HIDE DEF node, roots
<1>5. ASSUME NEW v \in visits
      PROVE  /\ done(v) # 0 => Sound(hand, states, found(v))
             /\ Sound(hand, states, goal(v))
             /\ Sound(hand, states, pred(v))
             /\ v[1] \in Int /\ v[2] \in Int /\ -v[3] \in Int
  <2>1. v[1] \in DOMAIN roots /\ v[2] \in 0 .. hand.last /\ v[3] \in 0 .. hand.last
    BY <1>1
  <2>2. /\ v[1] \in Nat /\ roots[v[1]] \in hand.nodes /\ SpineTop(hand, roots[v[1]])
        /\ hand.kind[hand.head[roots[v[1]]]] # "foot"
    BY <2>1, <1>3, RootIsTop DEF roots, Inv
  <2>3. v[2] \in 0 .. hand.last + 1 /\ v[3] \in 0 .. hand.last + 1 /\ ~ (v[3] > hand.last)
    BY <2>1, <1>1
  <2>4. done(v) # 0 => done(v) \in 0 .. Len(states)
    BY <2>3, StateExistsIn, StatesOK
  <2>5. ASSUME done(v) # 0 PROVE Sound(hand, states, found(v))
    <3>1. done(v) \in 0 .. Len(states) /\ p \in 0 .. Len(states)
      BY <1>2, <2>4, <2>5
    <3> HIDE DEF done
    <3> QED  BY <1>2, <1>4, <2>1, <3>1, ItemSound, HandOK DEF Inv
  <2>6. Sound(hand, states, goal(v))
    BY <1>2, <1>4, <2>1, GoalSound, HandOK DEF Inv
  <2>7. Sound(hand, states, pred(v))
    BY <1>4, <2>1, <2>2, <2>3, PredictSound, HandOK DEF Inv
  <2> QED  BY <2>1, <2>2, <2>5, <2>6, <2>7
<1> HIDE DEF visits, done, found, goal, pred
<1>6. InitSubst(p, node) =
        {Call(<<v[1], v[2], -v[3], 0>>, IF done(v) # 0 THEN found(v) ELSE goal(v)) :
           v \in {u \in visits : done(u) # 0 \/ s.n # node}}
        \cup {Call(<<v[1], v[2], -v[3], 1>>, pred(v)) : v \in {u \in visits : done(u) = 0}}
  BY DEF InitSubst, visits, done, found, goal, pred, roots
<1>7. ASSUME NEW r \in InitSubst(p, node)
      PROVE  r.at \in Int \X Int \X Int \X Int /\ Sound(hand, states, r.t)
  <2>1. CASE \E v \in visits :
               r = Call(<<v[1], v[2], -v[3], 0>>, IF done(v) # 0 THEN found(v) ELSE goal(v))
    <3> PICK v \in visits :
          r = Call(<<v[1], v[2], -v[3], 0>>, IF done(v) # 0 THEN found(v) ELSE goal(v))
      BY <2>1
    <3> QED  BY <1>5, CallOK
  <2>2. CASE \E v \in visits : r = Call(<<v[1], v[2], -v[3], 1>>, pred(v))
    <3> PICK v \in visits : r = Call(<<v[1], v[2], -v[3], 1>>, pred(v))
      BY <2>2
    <3> QED  BY <1>5, CallOK
  <2> QED  BY <1>6, <2>1, <2>2
<1>8. CallsOK(InitSubst(p, node))
  BY <1>7 DEF CallsOK
<1> QED  BY <1>8 DEF node

\* So are those of hparse_init_head.
LEMMA HeadCallsOK ==
  ASSUME Inv, NEW p \in Ids, states[p].type = "init"
  PROVE  CallsOK(HeadCalls(p))
<1> DEFINE s == states[p]
           hc == hand.head[s.n]
<1>1. hc \in hand.nodes /\ hand.kind[hc] \in Kinds \ {"internal"}
  BY StatesOK, HandOK DEF TablesOK, HeadsOK, Inv
<1>2. hand.kind[hc] # "eps" => s.j <= hand.last
  <2>1. Pursues(hand, states, s) /\ s.j \in 0 .. hand.last + 1 /\ hand.last \in Nat
    BY StatesOK, HandOK DEF Sound, Inv
  <2> QED  BY <2>1 DEF Pursues
<1>3. CASE hand.kind[hc] \in {"anchor", "terminal"}
  <2>1. HeadCalls(p) = IF hand.pref.epsTrees /\ hc \in hand.eps
                       THEN InitEpsilon(p, hc) ELSE InitAnchor(p, hc)
    BY <1>3 DEF HeadCalls
  <2> QED  BY <1>2, <1>3, <2>1, InitAnchorOK, InitEpsilonOK
<1>4. CASE hand.kind[hc] = "eps"
  <2>1. HeadCalls(p) = InitEpsilon(p, IF hand.pref.epsAdjoin THEN hc ELSE s.n)
    BY <1>4 DEF HeadCalls
  <2> QED  BY <1>4, <2>1, InitEpsilonOK
<1>5. CASE hand.kind[hc] = "subst"
  <2>1. HeadCalls(p) = InitSubst(p, hc)
    BY <1>5 DEF HeadCalls
  <2> QED  BY <1>2, <1>5, <2>1, InitSubstOK
<1>6. CASE hand.kind[hc] = "foot"
  <2>1. HeadCalls(p) = InitFoot(p, hc)
    BY <1>6 DEF HeadCalls
  <2> QED  BY <1>2, <1>6, <2>1, InitFootOK
<1> QED  BY <1>1, <1>3, <1>4, <1>5, <1>6 DEF Kinds

-----------------------------------------------------------------------------
\* Null adjunction makes a sound call.
LEMMA AdjoinNothingOK ==
  ASSUME Inv, NEW p \in ItemIds
  PROVE  CallsOK(AdjoinNothing(p))
<1> DEFINE s == states[p]
<1>1. /\ s.n \in hand.nodes /\ s.g \in 0 .. Len(states) /\ Aims(hand, states, s.g, s.n)
      /\ s.i \in 0 .. hand.last /\ s.j \in 0 .. hand.last
      /\ s.fl \in Int /\ s.fr \in Int /\ s.w \in Seq(Nat)
      /\ p \in 0 .. Len(states) /\ 0 \in 0 .. Len(states) /\ Len(states) \in Nat
      /\ FootPlaced(s.n, s.fl, s.fr)
  BY StatesOK DEF ItemIds
<1> HIDE DEF s
<1>2. Sound(hand, states, Item(s.n, s.g, "top", s.i, s.j, s.fl, s.fr, s.w, p, 0))
  BY <1>1, ItemSound, HandOK DEF Inv, FootPlaced
<1>3. AdjoinNothing(p) =
        {Call(<<0, 0, 0, 0>>, Item(s.n, s.g, "top", s.i, s.j, s.fl, s.fr, s.w, p, 0))}
  BY DEF AdjoinNothing, s
<1> QED  BY <1>2, <1>3, CallOK DEF CallsOK

\* The root of an auxiliary tree is the end of a path.
LEMMA AuxIsTop ==
  ASSUME hand \in Hands, NEW l \in DOMAIN hand.auxs, NEW k \in DOMAIN hand.auxs[l]
  PROVE  /\ k \in Nat /\ hand.auxs[l][k] \in hand.nodes
         /\ SpineTop(hand, hand.auxs[l][k])
<1>1. hand.auxs[l] \in Seq(hand.nodes)
  BY HandOK DEF ListsOK
<1>2. k \in Nat /\ hand.auxs[l][k] \in hand.nodes
  BY <1>1
<1>3. hand.up[hand.auxs[l][k]] = 0
  BY HandOK DEF ListsOK
<1> QED  BY <1>2, <1>3 DEF SpineTop

\* Adjunctions and the auxiliary trees predicted for them are sound calls.
LEMMA AdjoinTreesOK ==
  ASSUME Inv, NEW p \in ItemIds
  PROVE  CallsOK(AdjoinTrees(p))
<1> DEFINE s == states[p]
           auxs == hand.auxs[hand.label[s.n]]
           visits == {v \in (DOMAIN auxs) \X (0 .. hand.last) \X (0 .. hand.last) :
                        /\ ~WrapBarred(auxs[v[1]], s.n)
                        /\ <<v[2], v[3]>> \in AdjoinSpans(s, auxs[v[1]])}
           done(v) == StateExists(v[2], v[3], auxs[v[1]], s.i, s.j)
           found(v) == Item(s.n, s.g, AdjoinedPos, v[2], v[3], s.fl, s.fr, s.w, done(v), p)
           pred(v) == Predict(auxs[v[1]], v[2], v[3], s.i, s.j, 0, 0)
<1>1. /\ s.n \in hand.nodes /\ s.g \in 0 .. Len(states) /\ Aims(hand, states, s.g, s.n)
      /\ s.i \in 0 .. hand.last /\ s.j \in 0 .. hand.last
      /\ s.fl \in Int /\ s.fr \in Int /\ s.w \in Seq(Nat)
      /\ p \in 0 .. Len(states) /\ 0 \in 0 .. Len(states) /\ Len(states) \in Nat
      /\ FootPlaced(s.n, s.fl, s.fr)
      /\ hand.last \in Nat /\ s.i \in Int /\ s.j \in Int
  BY StatesOK, HandOK DEF ItemIds, Inv
<1>2. hand.label[s.n] \in DOMAIN hand.auxs
  BY <1>1, HandOK DEF ListsOK, Inv
<1> HIDE DEF s, auxs
<1>3. ASSUME NEW v \in visits
      PROVE  /\ done(v) # 0 => Sound(hand, states, found(v))
             /\ Sound(hand, states, pred(v))
             /\ v[1] \in Int /\ v[2] \in Int /\ -v[3] \in Int
  <2>1. /\ v[1] \in DOMAIN auxs /\ v[2] \in 0 .. hand.last /\ v[3] \in 0 .. hand.last
        /\ v[2] \in 0 .. hand.last + 1 /\ v[3] \in 0 .. hand.last + 1 /\ ~ (v[3] > hand.last)
    <3>1. v[1] \in DOMAIN auxs /\ v[2] \in 0 .. hand.last /\ v[3] \in 0 .. hand.last
      OBVIOUS
    <3>2. hand.last \in Nat  BY <1>1
    <3> QED  BY <3>1, <3>2
  <2>2. v[1] \in Nat /\ auxs[v[1]] \in hand.nodes /\ SpineTop(hand, auxs[v[1]])
    BY <2>1, <1>2, AuxIsTop DEF auxs, Inv
  <2>3. ASSUME done(v) # 0 PROVE Sound(hand, states, found(v))
    <3>1. done(v) \in 0 .. Len(states)
      BY <2>1, <2>3, StateExistsIn, StatesOK
    <3>2. AdjoinedPos \in {"top", "bot"}
      BY DEF AdjoinedPos
    <3> HIDE DEF done
    <3> QED  BY <1>1, <2>1, <3>1, <3>2, ItemSound, HandOK DEF Inv, FootPlaced
  <2>4. Sound(hand, states, pred(v))
    BY <1>1, <2>1, <2>2, PredictSound, HandOK DEF Inv
  <2> QED  BY <2>1, <2>2, <2>3, <2>4
<1> HIDE DEF visits, done, found, pred
<1>4. AdjoinTrees(p) =
        {Call(<<v[1], v[2], -v[3], 0>>, IF done(v) # 0 THEN found(v) ELSE pred(v)) : v \in visits}
  BY DEF AdjoinTrees, visits, done, found, pred, auxs, s
<1>5. ASSUME NEW r \in AdjoinTrees(p)
      PROVE  r.at \in Int \X Int \X Int \X Int /\ Sound(hand, states, r.t)
  <2> PICK v \in visits :
        r = Call(<<v[1], v[2], -v[3], 0>>, IF done(v) # 0 THEN found(v) ELSE pred(v))
    BY <1>4
  <2> QED  BY <1>3, CallOK
<1> QED  BY <1>5 DEF CallsOK

\* The calls of hparse_adjoin are sound.
LEMMA AdjoinOK ==
  ASSUME Inv, NEW p \in ItemIds
  PROVE  CallsOK(Adjoin(p))
BY AdjoinNothingOK, AdjoinTreesOK DEF Adjoin, CallsOK

\* The call of hparse_unary_head is sound.
LEMMA UnaryHeadOK ==
  ASSUME Inv, NEW p \in ItemIds, states[p].g # 0, states[p].n # states[states[p].g].n
  PROVE  CallsOK(UnaryHead(p))
<1> DEFINE s == states[p]
           pt == hand.up[s.n]
<1>1. /\ s.g \in 0 .. Len(states) /\ Aims(hand, states, s.g, s.n)
      /\ s.i \in 0 .. hand.last /\ s.j \in 0 .. hand.last
      /\ s.fl \in Int /\ s.fr \in Int /\ s.w \in Seq(Nat)
      /\ p \in 0 .. Len(states) /\ 0 \in 0 .. Len(states) /\ Len(states) \in Nat
      /\ FootPlaced(s.n, s.fl, s.fr)
  BY StatesOK DEF ItemIds
<1>2. pt \in hand.nodes /\ Aims(hand, states, s.g, pt) /\ FootPlaced(pt, s.fl, s.fr)
  BY <1>1, NotFinished DEF Aims, FootPlaced
<1> HIDE DEF s, pt
<1>3. Sound(hand, states, Item(pt, s.g, "bot", s.i, s.j, s.fl, s.fr, s.w, p, 0))
  BY <1>1, <1>2, ItemSound, HandOK DEF Inv, FootPlaced
<1>4. UnaryHead(p) =
        {Call(<<0, 0, 0, 0>>, Item(pt, s.g, "bot", s.i, s.j, s.fl, s.fr, s.w, p, 0))}
  BY DEF UnaryHead, s, pt
<1>5. ASSUME NEW r \in UnaryHead(p)
      PROVE  r.at \in Int \X Int \X Int \X Int /\ Sound(hand, states, r.t)
  BY <1>3, <1>4, CallOK
<1> QED  BY <1>5 DEF CallsOK

\* The sibling a head asks for is the end of a path without a foot, and the head
\* is its asker.
LEMMA SiblingAsked ==
  ASSUME Inv, NEW p \in ItemIds, states[p].g # 0, states[p].n # states[states[p].g].n,
         states[p].pos = "top", hand.side[states[p].n] # "only"
  PROVE  LET s == states[p]
             r == hand.sibling[s.n]
         IN /\ r \in hand.nodes /\ SpineTop(hand, r)
            /\ hand.kind[hand.head[r]] # "foot"
            /\ Asker(hand, s, r, hand.side[s.n])
<1> DEFINE s == states[p]
           r == hand.sibling[s.n]
<1>1. s.n \in hand.nodes /\ s.type = "item"
  BY StatesOK DEF ItemIds
<1>2. /\ hand.up[s.n] # 0 /\ hand.up[s.n] \in hand.nodes
      /\ hand.head[hand.up[s.n]] = hand.head[s.n]
  BY NotFinished
<1>3. r \in hand.nodes \cup {0}
  BY <1>1, HandOK DEF TablesOK, Inv
<1>4. r # 0 /\ hand.sibling[r] = s.n /\ hand.up[r] = hand.up[s.n]
  BY <1>1, <1>2, HandOK DEF TreesOK, Inv
<1>5. hand.head[s.n] # hand.head[r]
  BY <1>1, <1>2, HandOK DEF HeadsOK, Inv
<1>6. SpineTop(hand, r)
  BY <1>2, <1>4, <1>5 DEF SpineTop
<1>7. hand.kind[hand.head[r]] # "foot"
  BY <1>2, <1>3, <1>4, <1>6, HandOK DEF HeadsOK, Inv
<1>8. Asker(hand, s, r, hand.side[s.n])
  BY <1>1, <1>2, <1>4 DEF Asker
<1> QED  BY <1>3, <1>4, <1>6, <1>7, <1>8

\* The calls of hparse_left_head are sound.
LEMMA LeftHeadOK ==
  ASSUME Inv, NEW p \in ItemIds, states[p].g # 0, states[p].n # states[states[p].g].n,
         states[p].pos = "top", hand.side[states[p].n] = "left"
  PROVE  CallsOK(LeftHead(p))
<1> DEFINE s == states[p]
           pt == hand.up[s.n]
           r == hand.sibling[s.n]
           end == IF hand.kind[hand.head[r]] = "eps" THEN s.j + 1 ELSE states[s.g].j
           ends == {k \in s.j .. end : EmptySubst(r) => k # s.j}
           done(k) == StateExists(s.j, k, r, ef, ef)
           found(k) == Item(pt, s.g, "bot", s.i, k, s.fl, s.fr,
                            s.w \o states[done(k)].w, p, done(k))
           pred(k) == Predict(r, s.j, k, ef, ef, 0, p)
<1>1. /\ s.g \in 1 .. Len(states) /\ Aims(hand, states, s.g, s.n)
      /\ s.i \in 0 .. hand.last /\ s.j \in 0 .. hand.last
      /\ s.fl \in Int /\ s.fr \in Int /\ s.w \in Seq(Nat)
      /\ p \in 0 .. Len(states) /\ p # 0 /\ 0 \in 0 .. Len(states) /\ Len(states) \in Nat
      /\ FootPlaced(s.n, s.fl, s.fr) /\ hand.last \in Nat
      /\ states[s.g].j \in Int /\ ef \in Int
  BY StatesOK, HandOK DEF ItemIds, Inv, ef
<1>2. pt \in hand.nodes /\ Aims(hand, states, s.g, pt) /\ FootPlaced(pt, s.fl, s.fr)
  BY <1>1, NotFinished DEF Aims, FootPlaced
<1>3. /\ r \in hand.nodes /\ SpineTop(hand, r)
      /\ hand.kind[hand.head[r]] # "foot"
      /\ Asker(hand, s, r, "left")
  BY SiblingAsked
<1>4. /\ end \in Int /\ end <= hand.last + 1
      /\ end > hand.last => hand.kind[hand.head[r]] = "eps"
  <2>1. /\ states[s.g].j \in Int /\ states[s.g].j <= hand.last
        /\ hand.last \in Nat /\ s.j \in 0 .. hand.last
    BY <1>1 DEF Aims
  <2> HIDE DEF s, r
  <2>2. CASE hand.kind[hand.head[r]] = "eps"
    <3>1. end = s.j + 1  BY <2>2
    <3> HIDE DEF end
    <3> QED  BY <2>1, <2>2, <3>1
  <2>3. CASE hand.kind[hand.head[r]] # "eps"
    <3>1. end = states[s.g].j  BY <2>3
    <3> HIDE DEF end
    <3> QED  BY <2>1, <3>1
  <2> QED  BY <2>2, <2>3
<1> HIDE DEF s, pt, r, end
<1>5. ASSUME NEW k \in ends
      PROVE  /\ done(k) # 0 => Sound(hand, states, found(k))
             /\ Sound(hand, states, pred(k))
             /\ -k \in Int
  <2>1. /\ k \in 0 .. hand.last + 1 /\ s.j \in 0 .. hand.last + 1
        /\ k > hand.last => hand.kind[hand.head[r]] = "eps"
    <3>1. k \in s.j .. end  OBVIOUS
    <3>2. k \in Int /\ s.j <= k /\ k <= end /\ s.j \in Int  BY <1>1, <1>4, <3>1
    <3>3. k \in 0 .. hand.last + 1 /\ s.j \in 0 .. hand.last + 1
      <4>1. s.j \in 0 .. hand.last /\ hand.last \in Nat  BY <1>1
      <4>2. end \in Int /\ end <= hand.last + 1  BY <1>4
      <4> QED  BY <3>2, <4>1, <4>2
    <3>4. k > hand.last => end > hand.last  BY <1>1, <1>4, <3>2
    <3> QED  BY <1>4, <3>3, <3>4
  <2>2. ASSUME done(k) # 0 PROVE Sound(hand, states, found(k))
    <3>1. /\ done(k) \in Ids /\ states[done(k)].type = "item" /\ states[done(k)].j = k
      BY <2>1, <2>2, StateExistsIn
    <3>2. /\ done(k) \in 0 .. Len(states) /\ k \in 0 .. hand.last
          /\ states[done(k)].w \in Seq(Nat)
      BY <3>1, StatesOK
    <3> HIDE DEF done
    <3>3. s.w \o states[done(k)].w \in Seq(Nat)
      BY <1>1, <3>2
    <3>4. s.g \in 0 .. Len(states)
      BY <1>1
    <3> QED  BY <1>1, <1>2, <3>2, <3>3, <3>4, ItemSound, HandOK DEF Inv, FootPlaced
  <2>3. Sound(hand, states, pred(k))
    <3>1. Asker(hand, states[p], r, "left") /\ states[p].j = s.j
      BY <1>3 DEF s
    <3> QED  BY <1>1, <1>3, <2>1, <3>1, PredictSound, HandOK DEF Inv
  <2> QED  BY <2>1, <2>2, <2>3
<1> HIDE DEF ends, done, found, pred
<1>6. LeftHead(p) =
        {Call(<<-k, 0, 0, 0>>, IF done(k) # 0 THEN found(k) ELSE pred(k)) : k \in ends}
  BY DEF LeftHead, ends, end, done, found, pred, pt, r, s
<1>7. ASSUME NEW q \in LeftHead(p)
      PROVE  q.at \in Int \X Int \X Int \X Int /\ Sound(hand, states, q.t)
  <2> PICK k \in ends :
        q = Call(<<-k, 0, 0, 0>>, IF done(k) # 0 THEN found(k) ELSE pred(k))
    BY <1>6
  <2>1. Sound(hand, states, IF done(k) # 0 THEN found(k) ELSE pred(k)) /\ -k \in Int
    BY <1>5
  <2> QED  BY <2>1, CallOK
<1> QED  BY <1>7 DEF CallsOK

\* The calls of hparse_right_head are sound.
LEMMA RightHeadOK ==
  ASSUME Inv, NEW p \in ItemIds, states[p].g # 0, states[p].n # states[states[p].g].n,
         states[p].pos = "top", hand.side[states[p].n] = "right"
  PROVE  CallsOK(RightHead(p))
<1> DEFINE s == states[p]
           pt == hand.up[s.n]
           l == hand.sibling[s.n]
           start == IF hand.kind[hand.head[l]] = "eps" THEN s.i ELSE states[s.g].i
           starts == {k \in start .. s.i : EmptySubst(l) => k # s.i}
           done(k) == StateExists(k, s.i, l, ef, ef)
           found(k) == Item(pt, s.g, "bot", k, s.j, s.fl, s.fr,
                            states[done(k)].w \o s.w, done(k), p)
           pred(k) == Predict(l, k, s.i, ef, ef, p, 0)
<1>1. /\ s.g \in 1 .. Len(states) /\ Aims(hand, states, s.g, s.n)
      /\ s.i \in 0 .. hand.last /\ s.j \in 0 .. hand.last
      /\ s.fl \in Int /\ s.fr \in Int /\ s.w \in Seq(Nat)
      /\ p \in 0 .. Len(states) /\ p # 0 /\ 0 \in 0 .. Len(states) /\ Len(states) \in Nat
      /\ FootPlaced(s.n, s.fl, s.fr) /\ hand.last \in Nat
      /\ states[s.g].i \in 0 .. hand.last /\ ef \in Int
  BY StatesOK, HandOK DEF ItemIds, Inv, ef
<1>2. pt \in hand.nodes /\ Aims(hand, states, s.g, pt) /\ FootPlaced(pt, s.fl, s.fr)
  BY <1>1, NotFinished DEF Aims, FootPlaced
<1>3. /\ l \in hand.nodes /\ SpineTop(hand, l)
      /\ hand.kind[hand.head[l]] # "foot"
      /\ Asker(hand, s, l, "right")
  BY SiblingAsked
<1>4. start \in Int /\ start >= 0
  <2>1. s.i \in 0 .. hand.last /\ states[s.g].i \in 0 .. hand.last /\ hand.last \in Nat
    BY <1>1
  <2>2. start = s.i \/ start = states[s.g].i
    OBVIOUS
  <2> HIDE DEF s, start
  <2> QED  BY <2>1, <2>2
<1> HIDE DEF s, pt, l, start
<1>5. ASSUME NEW k \in starts
      PROVE  /\ done(k) # 0 => Sound(hand, states, found(k))
             /\ Sound(hand, states, pred(k))
             /\ k \in Int
  <2>1. /\ k \in 0 .. hand.last + 1 /\ s.i \in 0 .. hand.last + 1 /\ ~ (s.i > hand.last)
        /\ k \in 0 .. hand.last
    <3>1. k \in start .. s.i  OBVIOUS
    <3>2. s.i \in 0 .. hand.last /\ hand.last \in Nat  BY <1>1
    <3>3. k \in Int /\ 0 <= k /\ k <= s.i /\ s.i \in Int  BY <1>4, <3>1, <3>2
    <3> QED  BY <3>2, <3>3
  <2>2. ASSUME done(k) # 0 PROVE Sound(hand, states, found(k))
    <3>1. done(k) \in Ids
      BY <2>1, <2>2, StateExistsIn
    <3>2. done(k) \in 0 .. Len(states) /\ states[done(k)].w \in Seq(Nat)
      BY <3>1, StatesOK
    <3> HIDE DEF done
    <3>3. states[done(k)].w \o s.w \in Seq(Nat)
      BY <1>1, <3>2
    <3>4. s.g \in 0 .. Len(states)
      BY <1>1
    <3> QED  BY <1>1, <1>2, <2>1, <3>2, <3>3, <3>4, ItemSound, HandOK DEF Inv, FootPlaced
  <2>3. Sound(hand, states, pred(k))
    <3>1. Asker(hand, states[p], l, "right") /\ states[p].i = s.i
      BY <1>3 DEF s
    <3> QED  BY <1>1, <1>3, <2>1, <3>1, PredictSound, HandOK DEF Inv
  <2> QED  BY <2>1, <2>2, <2>3
<1> HIDE DEF starts, done, found, pred
<1>6. RightHead(p) =
        {Call(<<k, 0, 0, 0>>, IF done(k) # 0 THEN found(k) ELSE pred(k)) : k \in starts}
  BY DEF RightHead, starts, start, done, found, pred, pt, l, s
<1>7. ASSUME NEW q \in RightHead(p)
      PROVE  q.at \in Int \X Int \X Int \X Int /\ Sound(hand, states, q.t)
  <2> PICK k \in starts :
        q = Call(<<k, 0, 0, 0>>, IF done(k) # 0 THEN found(k) ELSE pred(k))
    BY <1>6
  <2>1. Sound(hand, states, IF done(k) # 0 THEN found(k) ELSE pred(k)) /\ k \in Int
    BY <1>5
  <2> QED  BY <2>1, CallOK
<1> QED  BY <1>7 DEF CallsOK

\* The calls of hparse_move_up are sound.
LEMMA MoveUpCallsOK ==
  ASSUME Inv, NEW p \in Ids, MayMoveUp(states[p])
  PROVE  CallsOK(MoveUpCalls(p))
<1> DEFINE s == states[p]
<1>1. /\ p \in ItemIds /\ s.g # 0 /\ s.pos \in {"top", "bot"}
      /\ hand.side[s.n] \in {"only", "left", "right"}
  BY StatesOK, HandOK DEF MayMoveUp, ItemIds, State, TablesOK, Inv
<1>2. CASE s.pos = "bot"
  BY <1>1, <1>2, AdjoinOK DEF MoveUpCalls
<1>3. CASE s.pos = "top"
  <2>1. s.n # states[s.g].n
    BY <1>3 DEF MayMoveUp
  <2>2. MoveUpCalls(p) = CASE hand.side[s.n] = "only"  -> UnaryHead(p)
                           [] hand.side[s.n] = "left"  -> LeftHead(p)
                           [] hand.side[s.n] = "right" -> RightHead(p)
    BY <1>3 DEF MoveUpCalls
  <2>3. CASE hand.side[s.n] = "only"
    BY <1>1, <2>1, <2>2, <2>3, UnaryHeadOK
  <2>4. CASE hand.side[s.n] = "left"
    BY <1>1, <1>3, <2>1, <2>2, <2>4, LeftHeadOK
  <2>5. CASE hand.side[s.n] = "right"
    BY <1>1, <1>3, <2>1, <2>2, <2>5, RightHeadOK
  <2> QED  BY <1>1, <2>3, <2>4, <2>5
<1> QED  BY <1>1, <1>2, <1>3

-----------------------------------------------------------------------------
\* The calls of the completer for an initial tree are sound.
LEMMA CompleteInitOK ==
  ASSUME Inv, NEW p \in ItemIds
  PROVE  CallsOK(CompleteInit(p))
<1> DEFINE s == states[p]
           cell == CellOf(s.i, s.j)
           b(q) == states[cell[q]]
           wait == {q \in DOMAIN cell :
                      /\ hand.kind[b(q).n] = "subst" /\ hand.label[b(q).n] = hand.label[s.n]
                      /\ b(q).pos = "top" /\ b(q).type = "goal"}
<1>1. /\ s.i \in 0 .. hand.last /\ s.j \in 0 .. hand.last /\ hand.last \in Nat
      /\ s.i \in 0 .. hand.last + 1 /\ s.j \in 0 .. hand.last + 1
      /\ p \in 0 .. Len(states) /\ 0 \in 0 .. Len(states) /\ Len(states) \in Nat
      /\ << >> \in Seq(Nat) /\ ef \in Int
  BY StatesOK, HandOK DEF ItemIds, Inv, ef
<1> HIDE DEF s
<1>2. ASSUME NEW q \in wait
      PROVE  /\ Sound(hand, states, Item(b(q).n, b(q).g, "top", s.i, s.j, ef, ef, <<>>, p, 0))
             /\ q \in Int
  <2>1. cell[q] \in Ids /\ q \in Nat /\ hand.kind[b(q).n] = "subst"
    BY <1>1, CellIn
  <2>2. /\ b(q).n \in hand.nodes /\ b(q).g \in 0 .. Len(states)
        /\ Aims(hand, states, b(q).g, b(q).n)
    BY <2>1, StatesOK
  <2>3. hand.kind[hand.head[b(q).n]] # "foot"
    BY <2>1, <2>2, HandOK DEF HeadsOK, Inv
  <2> HIDE DEF b
  <2>4. Sound(hand, states, Item(b(q).n, b(q).g, "top", s.i, s.j, ef, ef, <<>>, p, 0))
    BY <1>1, <2>2, <2>3, ItemSound, HandOK DEF Inv
  <2> QED  BY <2>1, <2>4
<1>3. ASSUME NEW r \in CompleteInit(p)
      PROVE  r.at \in Int \X Int \X Int \X Int /\ Sound(hand, states, r.t)
  <2>1. PICK q \in wait :
          r = Call(<<q, 0, 0, 0>>, Item(b(q).n, b(q).g, "top", s.i, s.j, ef, ef, <<>>, p, 0))
    BY DEF CompleteInit, s
  <2> HIDE DEF wait, b
  <2>2. /\ Sound(hand, states, Item(b(q).n, b(q).g, "top", s.i, s.j, ef, ef, <<>>, p, 0))
        /\ q \in Int
    BY <1>2
  <2> QED  BY <2>1, <2>2, CallOK
<1> QED  BY <1>3 DEF CallsOK

\* The calls of the completer for an auxiliary tree are sound: the state it is
\* adjoined to keeps its own foot.
LEMMA CompleteAuxOK ==
  ASSUME Inv, NEW p \in ItemIds, hand.up[states[p].n] = 0, hand.foot[states[p].n] # 0
  PROVE  CallsOK(CompleteAux(p))
<1> DEFINE s == states[p]
           cell == CellOf(s.fl, s.fr)
           b(q) == states[cell[q]]
           base == {q \in DOMAIN cell :
                      /\ b(q).n \in hand.adjoin /\ hand.label[b(q).n] = hand.label[s.n]
                      /\ b(q).pos = "bot" /\ b(q).type = "item"}
           t(q) == Item(b(q).n, b(q).g, AdjoinedPos, s.i, s.j, b(q).fl, b(q).fr, b(q).w,
                        p, cell[q])
<1>1. /\ s.i \in 0 .. hand.last /\ s.j \in 0 .. hand.last /\ hand.last \in Nat
      /\ p \in 0 .. Len(states) /\ Len(states) \in Nat /\ s.n \in hand.nodes
      /\ FootPlaced(s.n, s.fl, s.fr)
  BY StatesOK, HandOK DEF ItemIds, Inv
<1>2. hand.kind[hand.head[s.n]] = "foot"
  BY <1>1, HandOK DEF HeadsOK, Inv
<1>3. s.fl \in 0 .. hand.last + 1 /\ s.fr \in 0 .. hand.last + 1
  BY <1>1, <1>2 DEF FootPlaced
<1> HIDE DEF s
<1>4. ASSUME NEW q \in base
      PROVE  Sound(hand, states, t(q)) /\ q \in Int
  <2>1. cell[q] \in Ids /\ q \in Nat
    BY <1>3, CellIn
  <2>2. /\ b(q).n \in hand.nodes /\ b(q).g \in 0 .. Len(states)
        /\ Aims(hand, states, b(q).g, b(q).n) /\ FootPlaced(b(q).n, b(q).fl, b(q).fr)
        /\ b(q).fl \in Int /\ b(q).fr \in Int /\ b(q).w \in Seq(Nat)
        /\ cell[q] \in 0 .. Len(states)
    BY <2>1, StatesOK
  <2>3. AdjoinedPos \in {"top", "bot"}
    BY DEF AdjoinedPos
  <2>4. /\ hand.kind[hand.head[b(q).n]] = "foot" =>
             b(q).fl \in 0 .. hand.last /\ b(q).fr \in 0 .. hand.last
        /\ hand.nodes \subseteq Nat
    BY <2>2, HandOK DEF FootPlaced, Inv
  <2> DEFINE e == b(q)
           c == cell[q]
  <2>6. /\ e.n \in hand.nodes /\ e.g \in 0 .. Len(states)
        /\ Aims(hand, states, e.g, e.n)
        /\ e.fl \in Int /\ e.fr \in Int /\ e.w \in Seq(Nat)
        /\ c \in 0 .. Len(states)
        /\ hand.kind[hand.head[e.n]] = "foot" => e.fl \in 0 .. hand.last /\ e.fr \in 0 .. hand.last
        /\ hand.nodes \subseteq Nat
    BY <2>2, <2>4
  <2>7. t(q) = Item(e.n, e.g, AdjoinedPos, s.i, s.j, e.fl, e.fr, e.w, p, c)
    OBVIOUS
  <2> HIDE DEF e, c, t
  <2>8. Sound(hand, states, Item(e.n, e.g, AdjoinedPos, s.i, s.j, e.fl, e.fr, e.w, p, c))
    BY <1>1, <2>3, <2>6, ItemSound
  <2> QED  BY <2>1, <2>7, <2>8
<1>5. ASSUME NEW r \in CompleteAux(p)
      PROVE  r.at \in Int \X Int \X Int \X Int /\ Sound(hand, states, r.t)
  <2>1. PICK q \in base : r = Call(<<q, 0, 0, 0>>, t(q))
    BY DEF CompleteAux, s
  <2> HIDE DEF base, t
  <2> QED  BY <1>4, <2>1, CallOK
<1> QED  BY <1>5 DEF CallsOK

\* A back pointer the completer follows is one of a goal for the same node.
LEMMA AskedIn ==
  ASSUME Inv, NEW p \in ItemIds, NEW v \in Asked(states[p])
  PROVE  LET s == states[p]
             b == states[CellOf(s.i, s.j)[v[1]]]
         IN /\ v[1] \in Int /\ v[2] \in Int /\ v[2] \in DOMAIN b.bp
            /\ CellOf(s.i, s.j)[v[1]] \in Ids
            /\ b.n = s.n /\ b.type = "goal" /\ b.i = s.i /\ b.j = s.j
<1> DEFINE s == states[p]
           cell == CellOf(s.i, s.j)
           b(q) == states[cell[q]]
           goals == {q \in DOMAIN cell : b(q).n = s.n /\ b(q).pos = "top" /\ b(q).type = "goal"}
<1>1. s.i \in 0 .. hand.last + 1 /\ s.j \in 0 .. hand.last + 1
  BY StatesOK, HandOK DEF ItemIds, Inv
<1>2. PICK q \in goals : v \in {<<q, k>> : k \in DOMAIN b(q).bp}
  BY DEF Asked
<1>3. PICK k \in DOMAIN b(q).bp : v = <<q, k>>
  BY <1>2
<1>4. cell[q] \in Ids /\ q \in Nat /\ b(q).i = s.i /\ b(q).j = s.j
  BY <1>1, CellIn
<1>5. b(q).bp \in Seq(Backptr)
  BY <1>4, StatesOK DEF State
<1>6. k \in Nat
  BY <1>5
<1>7. b(q).n = s.n /\ b(q).type = "goal"
  BY <1>2
<1>8. v[1] = q /\ v[2] = k
  BY <1>3
<1> HIDE DEF b, cell, goals
<1>9. /\ v[1] \in Int /\ v[2] \in Int /\ v[2] \in DOMAIN b(v[1]).bp
      /\ cell[v[1]] \in Ids /\ b(v[1]).n = s.n /\ b(v[1]).type = "goal"
      /\ b(v[1]).i = s.i /\ b(v[1]).j = s.j
  BY <1>4, <1>6, <1>7, <1>8
<1> QED  BY <1>9 DEF b, cell

\* The head on such a pointer is an item next to the completed subtree, and its
\* goal is on the path through their common parent.
LEMMA AskersIn ==
  ASSUME Inv, NEW p \in ItemIds, NEW v \in Asked(states[p]),
         hand.up[states[p].n] # 0, hand.side[states[p].n] # "only"
  PROVE  LET s == states[p]
             q == states[CellOf(s.i, s.j)[v[1]]].bp[v[2]]
         IN \A a \in {q.b, q.c} :
              a # 0 => /\ a \in ItemIds
                       /\ hand.up[s.n] = hand.up[states[a].n]
                       /\ hand.head[hand.up[s.n]] = hand.head[states[a].n]
<1> DEFINE s == states[p]
           o == CellOf(s.i, s.j)[v[1]]
           b == states[o]
           q == b.bp[v[2]]
<1>1. v[2] \in DOMAIN b.bp /\ o \in Ids /\ b.n = s.n /\ b.type = "goal"
  BY AskedIn
<1>2. Bounded(hand, states, b) /\ Asks(hand, states, b)
  BY <1>1, StatesOK DEF Sound
<1>3. q.b \in 0 .. Len(states) /\ q.c \in 0 .. Len(states)
  BY <1>1, <1>2 DEF Bounded
<1>4. /\ q.b # 0 => Asker(hand, states[q.b], b.n, "right")
      /\ q.c # 0 => Asker(hand, states[q.c], b.n, "left")
  BY <1>1, <1>2 DEF Asks
<1>5. s.n \in hand.nodes
  BY StatesOK DEF ItemIds
<1> HIDE DEF q, b, o, s
<1>6. ASSUME NEW a \in {q.b, q.c}, a # 0
      PROVE  /\ a \in ItemIds
             /\ hand.up[s.n] = hand.up[states[a].n]
             /\ hand.head[hand.up[s.n]] = hand.head[states[a].n]
  <2>1. a \in Ids
    BY <1>3, <1>6, StatesOK
  <2>2. PICK side \in {"left", "right"} : Asker(hand, states[a], s.n, side)
    BY <1>1, <1>4, <1>6
  <2>3. hand.sibling[s.n] = states[a].n /\ states[a].type = "item"
        /\ hand.head[hand.up[states[a].n]] = hand.head[states[a].n]
    BY <2>2 DEF Asker
  <2>4. hand.up[states[a].n] = hand.up[s.n]
    BY <1>5, <2>3, HandOK DEF TreesOK, Inv, s
  <2> QED  BY <2>1, <2>3, <2>4 DEF ItemIds
<1> QED  BY <1>6 DEF q, b, o, s

\* The calls of the completer for a left sibling are sound.
LEMMA CompleteLeftOK ==
  ASSUME Inv, NEW p \in ItemIds,
         hand.up[states[p].n] # 0, hand.side[states[p].n] # "only"
  PROVE  CallsOK(CompleteLeft(p))
<1> DEFINE s == states[p]
           pt == hand.up[s.n]
           head(v) == states[CellOf(s.i, s.j)[v[1]]].bp[v[2]].b
           sib(v) == states[head(v)]
           t(v) == Item(pt, sib(v).g, "bot", s.i, sib(v).j, sib(v).fl, sib(v).fr,
                        s.w \o sib(v).w, p, head(v))
<1>1. /\ s.i \in 0 .. hand.last /\ s.j \in 0 .. hand.last /\ s.w \in Seq(Nat)
      /\ p \in 0 .. Len(states) /\ Len(states) \in Nat /\ s.n \in hand.nodes
  BY StatesOK DEF ItemIds
<1>2. pt \in hand.nodes
  BY <1>1, HandOK DEF TablesOK, Inv
<1>3. ASSUME NEW v \in Asked(s), head(v) # 0
      PROVE  Sound(hand, states, t(v)) /\ v[1] \in Int /\ v[2] \in Int
  <2>1. /\ head(v) \in ItemIds /\ pt = hand.up[sib(v).n]
        /\ hand.head[pt] = hand.head[sib(v).n]
    BY <1>3, AskersIn
  <2>2. /\ sib(v).g \in 0 .. Len(states) /\ Aims(hand, states, sib(v).g, sib(v).n)
        /\ sib(v).j \in 0 .. hand.last /\ sib(v).fl \in Int /\ sib(v).fr \in Int
        /\ sib(v).w \in Seq(Nat) /\ FootPlaced(sib(v).n, sib(v).fl, sib(v).fr)
        /\ head(v) \in 0 .. Len(states)
    <3>1. head(v) \in Ids /\ states[head(v)].type = "item"
      BY <2>1 DEF ItemIds
    <3> HIDE DEF head
    <3> QED  BY <3>1, StatesOK
  <2>3. v[1] \in Int /\ v[2] \in Int
    BY AskedIn
  <2> HIDE DEF s, pt, head, sib
  <2>4. Aims(hand, states, sib(v).g, pt) /\ FootPlaced(pt, sib(v).fl, sib(v).fr)
    BY <2>1, <2>2 DEF Aims, FootPlaced
  <2>5. s.w \o sib(v).w \in Seq(Nat)
    BY <1>1, <2>2
  <2>6. Sound(hand, states, t(v))
    BY <1>1, <1>2, <2>2, <2>4, <2>5, ItemSound, HandOK DEF Inv, FootPlaced
  <2> QED  BY <2>3, <2>6
<1>4. ASSUME NEW r \in CompleteLeft(p)
      PROVE  r.at \in Int \X Int \X Int \X Int /\ Sound(hand, states, r.t)
  <2>1. PICK v \in Asked(s) : head(v) # 0 /\ r = Call(<<v[1], v[2], 0, 0>>, t(v))
    BY DEF CompleteLeft
  <2> HIDE DEF t, head, s
  <2>2. Sound(hand, states, t(v)) /\ v[1] \in Int /\ v[2] \in Int
    BY <1>3, <2>1
  <2> QED  BY <2>1, <2>2, CallOK
<1> QED  BY <1>4 DEF CallsOK

\* The calls of the completer for a right sibling are sound.
LEMMA CompleteRightOK ==
  ASSUME Inv, NEW p \in ItemIds,
         hand.up[states[p].n] # 0, hand.side[states[p].n] # "only"
  PROVE  CallsOK(CompleteRight(p))
<1> DEFINE s == states[p]
           pt == hand.up[s.n]
           head(v) == states[CellOf(s.i, s.j)[v[1]]].bp[v[2]].c
           sib(v) == states[head(v)]
           t(v) == Item(pt, sib(v).g, "bot", sib(v).i, s.j, sib(v).fl, sib(v).fr,
                        sib(v).w \o s.w, head(v), p)
<1>1. /\ s.i \in 0 .. hand.last /\ s.j \in 0 .. hand.last /\ s.w \in Seq(Nat)
      /\ p \in 0 .. Len(states) /\ Len(states) \in Nat /\ s.n \in hand.nodes
  BY StatesOK DEF ItemIds
<1>2. pt \in hand.nodes
  BY <1>1, HandOK DEF TablesOK, Inv
<1>3. ASSUME NEW v \in Asked(s), head(v) # 0
      PROVE  Sound(hand, states, t(v)) /\ v[1] \in Int /\ v[2] \in Int
  <2>1. /\ head(v) \in ItemIds /\ pt = hand.up[sib(v).n]
        /\ hand.head[pt] = hand.head[sib(v).n]
    BY <1>3, AskersIn
  <2>2. /\ sib(v).g \in 0 .. Len(states) /\ Aims(hand, states, sib(v).g, sib(v).n)
        /\ sib(v).i \in 0 .. hand.last /\ sib(v).fl \in Int /\ sib(v).fr \in Int
        /\ sib(v).w \in Seq(Nat) /\ FootPlaced(sib(v).n, sib(v).fl, sib(v).fr)
        /\ head(v) \in 0 .. Len(states)
    <3>1. head(v) \in Ids /\ states[head(v)].type = "item"
      BY <2>1 DEF ItemIds
    <3> HIDE DEF head
    <3> QED  BY <3>1, StatesOK
  <2>3. v[1] \in Int /\ v[2] \in Int
    BY AskedIn
  <2> HIDE DEF s, pt, head, sib
  <2>4. Aims(hand, states, sib(v).g, pt) /\ FootPlaced(pt, sib(v).fl, sib(v).fr)
    BY <2>1, <2>2 DEF Aims, FootPlaced
  <2>5. sib(v).w \o s.w \in Seq(Nat)
    BY <1>1, <2>2
  <2>6. Sound(hand, states, t(v))
    BY <1>1, <1>2, <2>2, <2>4, <2>5, ItemSound, HandOK DEF Inv, FootPlaced
  <2> QED  BY <2>3, <2>6
<1>4. ASSUME NEW r \in CompleteRight(p)
      PROVE  r.at \in Int \X Int \X Int \X Int /\ Sound(hand, states, r.t)
  <2>1. PICK v \in Asked(s) : head(v) # 0 /\ r = Call(<<v[1], v[2], 0, 0>>, t(v))
    BY DEF CompleteRight
  <2> HIDE DEF t, head, s
  <2>2. Sound(hand, states, t(v)) /\ v[1] \in Int /\ v[2] \in Int
    BY <1>3, <2>1
  <2> QED  BY <2>1, <2>2, CallOK
<1> QED  BY <1>4 DEF CallsOK

\* The calls of hparse_completer are sound.
LEMMA CompleterCallsOK ==
  ASSUME Inv, NEW p \in Ids, MayComplete(states[p])
  PROVE  CallsOK(CompleterCalls(p))
<1> DEFINE n == states[p].n
<1>1. p \in ItemIds /\ n \in hand.nodes /\ states[p].g # 0 /\ n = states[states[p].g].n
  BY StatesOK DEF MayComplete, ItemIds
<1>2. SpineTop(hand, n)
  BY <1>1, StatesOK DEF Aims
<1>3. CASE hand.up[n] = 0
  BY <1>1, <1>3, CompleteInitOK, CompleteAuxOK DEF CompleterCalls
<1>4. CASE hand.up[n] # 0
  <2>1. hand.side[n] \in {"left", "right"}
    BY <1>1, <1>2, <1>4, HandOK DEF TablesOK, HeadsOK, SpineTop, Inv
  <2>2. CASE hand.side[n] = "left"
    BY <1>1, <1>4, <2>2, CompleteLeftOK DEF CompleterCalls
  <2>3. CASE hand.side[n] = "right"
    BY <1>1, <1>4, <2>3, CompleteRightOK DEF CompleterCalls
  <2> QED  BY <2>1, <2>2, <2>3
<1> QED  BY <1>3, <1>4

-----------------------------------------------------------------------------
\* The invariant holds of the seeds of hparse().
LEMMA InitInv ==
  ASSUME Init
  PROVE  Inv
<1>1. /\ hand \in Hands /\ states = <<>> /\ chart = [v \in Spans |-> <<>>]
      /\ plist = <<>> /\ idx = 1 /\ nlist = <<>> /\ stage = "head" /\ todo = Seeds(hand)
  BY DEF Init
<1>2. Len(states) = 0 /\ Ids = {} /\ states \in Seq(State)
  BY <1>1 DEF Ids
<1>3. hand.last \in Nat /\ hand.last \in 0 .. hand.last + 1 /\ 0 \in 0 .. hand.last
      /\ ~ (hand.last > hand.last)
  BY <1>1, HandOK
<1>4. ASSUME NEW r \in todo
      PROVE  r.at \in Int \X Int \X Int \X Int /\ Sound(hand, states, r.t)
  <2> DEFINE t(a, k) == Predict(hand.inits[hand.tops[a]][k], 0, hand.last, ef, ef, 0, 0)
  <2>1. PICK a \in DOMAIN hand.tops : \E k \in DOMAIN hand.inits[hand.tops[a]] :
          r = Call(<<a, k, 0, 0>>, t(a, k))
    BY <1>1 DEF Seeds
  <2>2. PICK k \in DOMAIN hand.inits[hand.tops[a]] : r = Call(<<a, k, 0, 0>>, t(a, k))
    BY <2>1
  <2>3. a \in Int /\ hand.tops[a] \in DOMAIN hand.inits
    BY <1>1, <2>1, HandOK DEF ListsOK
  <2>10. PICK l : l = hand.tops[a]
    OBVIOUS
  <2>11. PICK root : root = hand.inits[l][k]
    OBVIOUS
  <2>4. /\ k \in Nat /\ root \in hand.nodes /\ SpineTop(hand, root)
        /\ hand.kind[hand.head[root]] # "foot"
    <3>1. l \in DOMAIN hand.inits /\ k \in DOMAIN hand.inits[l]
      BY <2>2, <2>3, <2>10
    <3> QED  BY <1>1, <2>11, <3>1, RootIsTop
  <2>5. ef \in Int /\ 0 \in 0 .. Len(states) /\ Len(states) \in Nat
    BY <1>2 DEF ef
  <2>6. Sound(hand, states, Predict(root, 0, hand.last, ef, ef, 0, 0))
    BY <1>1, <1>3, <2>4, <2>5, PredictSound, HandOK
  <2>7. Sound(hand, states, t(a, k))
    BY <2>6, <2>10, <2>11
  <2> HIDE DEF t
  <2> QED  BY <2>2, <2>3, <2>4, <2>7, CallOK
<1>5. TypeOK
  <2>1. chart \in [Spans -> Seq(Ids)] /\ plist \in Seq(Ids) /\ nlist \in Seq(Ids)
    BY <1>1
  <2>2. \A r \in todo : Bounded(hand, states, r.t)
    BY <1>4 DEF Sound
  <2>3. idx \in 1 .. Len(plist) + 1
    BY <1>1
  <2> QED  BY <1>1, <1>2, <1>4, <2>1, <2>2, <2>3 DEF TypeOK
<1>6. \A v \in Spans : DOMAIN chart[v] = {}
  BY <1>1
<1> QED  BY <1>1, <1>2, <1>4, <1>5, <1>6 DEF Inv, Inductive

\* A step that extends the states by sound ones and leaves sound calls and a
\* well-formed chart preserves the invariant.
LEMMA StepInv ==
  ASSUME Inv, hand' = hand, states' \in Seq(State), Extends(states, states'),
         \A p \in Ids' : Sound(hand, states', states'[p]) /\ Within(states', states'[p]),
         CallsOK(todo'),
         chart' \in [Spans -> Seq(Ids')],
         \A v \in Spans : \A k \in DOMAIN chart'[v] :
           states'[chart'[v][k]].i = v[1] /\ states'[chart'[v][k]].j = v[2],
         plist' \in Seq(Ids'), nlist' \in Seq(Ids'), idx' \in 1 .. Len(plist') + 1,
         stage' \in {"head", "move", "complete", "done", "abort"}
  PROVE  Inv'
<1>1. Len(states) \in Nat /\ Len(states') \in Nat
  BY StatesOK
<1>2. \A r \in todo' : r.at \in Int \X Int \X Int \X Int /\ Sound(hand, states', r.t)
  BY <1>1, SoundExtends DEF CallsOK
<1>3. Spans' = Spans
  BY DEF Spans
<1>4. TypeOK'
  <2>1. \A p \in Ids' : Bounded(hand', states', states'[p])
    BY DEF Sound
  <2>2. \A r \in todo' : r.at \in Int \X Int \X Int \X Int /\ Bounded(hand', states', r.t)
    BY <1>2 DEF Sound
  <2> QED  BY <1>3, <2>1, <2>2 DEF TypeOK
<1>5. hand' \in Hands
  BY DEF Inv
<1> QED  BY <1>2, <1>3, <1>4, <1>5 DEF Inv, Inductive

\* So does a step that changes neither the states nor the chart.
LEMMA QuietInv ==
  ASSUME Inv, UNCHANGED <<hand, states, chart>>, CallsOK(todo'),
         plist' \in Seq(Ids), nlist' \in Seq(Ids), idx' \in 1 .. Len(plist') + 1,
         stage' \in {"head", "move", "complete", "done", "abort"}
  PROVE  Inv'
<1>1. Extends(states, states')
  BY StatesOK DEF Extends
<1>2. Ids' = Ids
  BY DEF Ids
<1>3. /\ states' \in Seq(State)
      /\ \A p \in Ids' : Sound(hand, states', states'[p]) /\ Within(states', states'[p])
      /\ chart' \in [Spans -> Seq(Ids')]
      /\ \A v \in Spans : \A k \in DOMAIN chart'[v] :
           states'[chart'[v][k]].i = v[1] /\ states'[chart'[v][k]].j = v[2]
  BY <1>2 DEF Inv, Inductive, TypeOK
<1> QED  BY <1>1, <1>2, <1>3, StepInv

\* The current state of the list is a state of the chart.
LEMMA ListPlace ==
  ASSUME Inv, Current
  PROVE  plist[idx] \in Ids /\ idx + 1 \in 1 .. Len(plist) + 1
BY DEF Inv, Inductive, TypeOK, Current

\* hparse_move_up preserves the invariant.
LEMMA MoveUpInv ==
  ASSUME Inv, MoveUp
  PROVE  Inv'
<1>1. CallsOK(todo')
  <2>1. plist[idx] \in Ids
    BY ListPlace DEF MoveUp
  <2> QED  BY <2>1, MoveUpCallsOK DEF MoveUp, CallsOK
<1> QED  BY <1>1, QuietInv DEF MoveUp, Inv, Inductive, TypeOK

\* hparse_completer preserves the invariant.
LEMMA CompleterInv ==
  ASSUME Inv, Completer
  PROVE  Inv'
<1>1. plist[idx] \in Ids /\ idx + 1 \in 1 .. Len(plist) + 1
  BY ListPlace DEF Completer
<1>2. CallsOK(todo')
  BY <1>1, CompleterCallsOK DEF Completer, CallsOK
<1> QED  BY <1>1, <1>2, QuietInv DEF Completer, Inv, Inductive, TypeOK

\* Swapping the lists preserves the invariant.
LEMMA NextListInv ==
  ASSUME Inv, NextList
  PROVE  Inv'
<1>1. CallsOK(todo')
  BY DEF NextList, CallsOK
<1>2. nlist \in Seq(Ids) /\ Len(nlist) \in Nat
  BY DEF Inv, Inductive, TypeOK
<1>3. plist' \in Seq(Ids) /\ nlist' \in Seq(Ids) /\ idx' \in 1 .. Len(plist') + 1
  BY <1>2 DEF NextList
<1> QED  BY <1>1, <1>3, QuietInv DEF NextList

\* The state p turns into a goal, and into its own if it awaits a substitution.
Retyped(p, g) == [states EXCEPT ![p].type = "goal", ![p].g = g]

\* Nothing else changes.
LEMMA RetypedFields ==
  ASSUME states \in Seq(State), NEW p \in DOMAIN states, NEW g
  PROVE  \A q \in DOMAIN states :
           LET s == Retyped(p, g)[q]
           IN /\ s.n = states[q].n /\ s.pos = states[q].pos /\ s.i = states[q].i
              /\ s.j = states[q].j /\ s.fl = states[q].fl /\ s.fr = states[q].fr
              /\ s.w = states[q].w /\ s.bp = states[q].bp
              /\ s.g = IF q = p THEN g ELSE states[q].g
              /\ s.type = IF q = p THEN "goal" ELSE states[q].type
<1> SUFFICES ASSUME NEW q \in DOMAIN states
             PROVE  LET s == Retyped(p, g)[q]
                    IN /\ s.n = states[q].n /\ s.pos = states[q].pos /\ s.i = states[q].i
                       /\ s.j = states[q].j /\ s.fl = states[q].fl /\ s.fr = states[q].fr
                       /\ s.w = states[q].w /\ s.bp = states[q].bp
                       /\ s.g = IF q = p THEN g ELSE states[q].g
                       /\ s.type = IF q = p THEN "goal" ELSE states[q].type
  OBVIOUS
<1>1. states[q] \in State
  OBVIOUS
<1> DEFINE mid == [states EXCEPT ![p].type = "goal"]
<1>2. Retyped(p, g) = [mid EXCEPT ![p].g = g] /\ DOMAIN mid = DOMAIN states
  BY DEF Retyped
<1>3. mid[q] = IF q = p THEN [states[q] EXCEPT !.type = "goal"] ELSE states[q]
  OBVIOUS
<1> HIDE DEF mid
<1>4. Retyped(p, g)[q] = IF q = p THEN [mid[q] EXCEPT !.g = g] ELSE mid[q]
  BY <1>2
<1>5. CASE q = p
  <2>1. Retyped(p, g)[q] = [states[q] EXCEPT !.type = "goal", !.g = g]
    BY <1>3, <1>4, <1>5
  <2> QED  BY <1>1, <1>5, <2>1 DEF State
<1>6. CASE q # p
  BY <1>3, <1>4, <1>6
<1> QED  BY <1>5, <1>6

\* A prediction may be turned into a goal, its own goal too, while other states
\* refer to it.
LEMMA RetypedOK ==
  ASSUME Inv, NEW p \in Ids, states[p].type = "init",
         NEW g \in {states[p].g, p}, g = p => states[p].j <= hand.last
  PROVE  /\ Retyped(p, g) \in Seq(State) /\ Len(Retyped(p, g)) = Len(states)
         /\ Extends(states, Retyped(p, g))
         /\ \A q \in Ids : /\ Sound(hand, Retyped(p, g), Retyped(p, g)[q])
                           /\ Within(Retyped(p, g), Retyped(p, g)[q])
<1> DEFINE new == Retyped(p, g)
           s == states[p]
           t == new[p]
<1>1. /\ states \in Seq(State) /\ Ids = 1 .. Len(states) /\ Len(states) \in Nat
      /\ s \in State /\ Bounded(hand, states, s) /\ Pursues(hand, states, s)
      /\ Asks(hand, states, s)
  BY StatesOK DEF Sound
<1>2. g \in 0 .. Len(states)
  BY <1>1 DEF Bounded
<1>3. /\ t = [s EXCEPT !.type = "goal", !.g = g]
      /\ \A q \in Ids \ {p} : new[q] = states[q]
      /\ DOMAIN new = Ids
  <2> DEFINE mid == [states EXCEPT ![p].type = "goal"]
  <2>1. DOMAIN states = Ids
    BY DEF Ids
  <2>2. /\ DOMAIN mid = Ids /\ mid[p] = [s EXCEPT !.type = "goal"]
        /\ \A q \in Ids \ {p} : mid[q] = states[q]
    BY <2>1
  <2>3. new = [mid EXCEPT ![p].g = g]
    BY DEF Retyped
  <2> HIDE DEF mid, new
  <2>4. /\ DOMAIN new = Ids /\ new[p] = [mid[p] EXCEPT !.g = g]
        /\ \A q \in Ids \ {p} : new[q] = mid[q]
    BY <2>2, <2>3
  <2> QED  BY <2>2, <2>4
<1>4. /\ t.n = s.n /\ t.pos = s.pos /\ t.i = s.i /\ t.j = s.j /\ t.bp = s.bp
      /\ t.fl = s.fl /\ t.fr = s.fr /\ t.g = g /\ t.type = "goal"
  BY <1>1, <1>3 DEF State
<1> HIDE DEF s, t, new
<1>5. t \in State
  <2>1. g \in Nat  BY <1>1, <1>2
  <2>2. t = [s EXCEPT !.type = "goal", !.g = g]  BY <1>3
  <2> QED  BY <1>1, <2>1, <2>2 DEF State
<1>6. new \in Seq(State) /\ Len(new) = Len(states)
  <2>1. \A q \in Ids : new[q] \in State
    BY <1>1, <1>3, <1>5, StatesOK DEF t
  <2>2. new = [q \in 1 .. Len(states) |-> new[q]]
    BY <1>1, <1>3 DEF new, Retyped
  <2>3. new \in [1 .. Len(states) -> State]
    BY <1>1, <2>1, <2>2
  <2> QED  BY <1>1, <2>3
<1>7. Extends(states, new)
  <2>1. ASSUME NEW q \in 1 .. Len(states)
        PROVE  /\ new[q].n = states[q].n /\ new[q].pos = states[q].pos
               /\ new[q].i = states[q].i /\ new[q].j = states[q].j
               /\ new[q].type = "item" <=> states[q].type = "item"
    <3>1. CASE q = p
      BY <1>4, <3>1 DEF s, t
    <3>2. CASE q # p
      BY <1>1, <1>3, <3>2
    <3> QED  BY <3>1, <3>2
  <2> QED  BY <1>1, <1>6, <2>1 DEF Extends
<1>8. Sound(hand, new, t)
  <2>1. Bounded(hand, new, t)
    BY <1>1, <1>2, <1>4, <1>5, <1>6 DEF Bounded
  <2>2. Asks(hand, states, t)
    BY <1>1, <1>4 DEF Asks, s
  <2>3. Pursues(hand, new, t)
    <3>1. s.g = 0 /\ SpineTop(hand, s.n)
      BY <1>1 DEF Pursues, s
    <3>2. CASE g = 0
      BY <1>1, <1>4, <3>1, <3>2 DEF Pursues, Aims
    <3>3. CASE g = p
      <4>1. Aims(hand, new, g, t.n)
        BY <1>4, <3>1, <3>3 DEF Aims, s, t
      <4>2. s.j \in 0 .. hand.last + 1 /\ hand.last \in Nat /\ s.j <= hand.last /\ p # 0
        BY <1>1, <3>3, HandOK DEF Bounded, Inv, s
      <4> QED  BY <1>4, <3>3, <4>1, <4>2 DEF Pursues
    <3> QED  BY <3>1, <3>2, <3>3 DEF s
  <2>4. Asks(hand, new, t)
    <3>1. \A k \in DOMAIN t.bp : t.bp[k].b \in 0 .. Len(states) /\ t.bp[k].c \in 0 .. Len(states)
      BY <1>1, <1>4 DEF Bounded
    <3>2. ASSUME NEW a \in 0 .. Len(states), NEW side, a # 0, Asker(hand, states[a], t.n, side)
          PROVE  Asker(hand, new[a], t.n, side) /\ new[a].i = states[a].i /\ new[a].j = states[a].j
      BY <1>7, <3>2, <1>1 DEF Asker, Extends
    <3> QED  BY <2>2, <3>1, <3>2 DEF Asks
  <2> QED  BY <2>1, <2>3, <2>4 DEF Sound
<1>9. ASSUME NEW q \in Ids
      PROVE  Sound(hand, new, new[q]) /\ Within(new, new[q])
  <2>1. Sound(hand, states, states[q]) /\ Within(states, states[q])
    BY DEF Inv, Inductive
  <2>2. CASE q = p
    <3>1. Within(new, t)
      <4>1. CASE g = p
        BY <1>1, <1>4, <4>1 DEF Within, t, Bounded
      <4>2. CASE g = s.g
        <5>1. s.g = 0  BY <1>1 DEF Pursues, s
        <5> QED  BY <1>4, <4>2, <5>1 DEF Within
      <4> QED  BY <4>1, <4>2 DEF s
    <3> QED  BY <1>8, <2>2, <3>1 DEF t
  <2>3. CASE q # p
    <3>1. new[q] = states[q]  BY <1>3, <2>3
    <3>2. Sound(hand, new, states[q])
      BY <1>1, <1>6, <1>7, <2>1, SoundExtends
    <3>3. Within(new, states[q])
      <4>1. states[q].g \in 0 .. Len(states)  BY StatesOK
      <4> QED  BY <1>7, <2>1, <4>1 DEF Within, Extends
    <3> QED  BY <3>1, <3>2, <3>3
  <2> QED  BY <2>2, <2>3
<1> QED  BY <1>6, <1>7, <1>9 DEF new

\* hparse_init_head preserves the invariant.
LEMMA InitHeadInv ==
  ASSUME Inv, InitHead
  PROVE  Inv'
<1> DEFINE p == plist[idx]
           hc == hand.head[states[p].n]
<1>1. p \in Ids
  BY ListPlace DEF InitHead
<1>2. CASE states[p].type # "init"
  <2>1. UNCHANGED <<states, todo>>
    BY <1>2 DEF InitHead
  <2>2. CallsOK(todo')
    BY <2>1 DEF InitHead, Current, CallsOK
  <2> QED  BY <2>1, <2>2, QuietInv DEF InitHead, Inv, Inductive, TypeOK
<1>3. CASE states[p].type = "init"
  <2> DEFINE g == IF hand.kind[hc] = "subst" /\ OwnGoal(p, hc) THEN p ELSE states[p].g
  <2>1. todo' = HeadCalls(p) /\ states' = Retyped(p, g)
    BY <1>3 DEF InitHead, Retyped
  <2>2. g \in {states[p].g, p}
    OBVIOUS
  <2>3. g = p => states[p].j <= hand.last
    <3>1. /\ Pursues(hand, states, states[p]) /\ states[p].j \in 0 .. hand.last + 1
          /\ hand.last \in Nat /\ p # 0
      BY <1>1, StatesOK, HandOK DEF Sound, Inv
    <3>2. states[p].g = 0
      BY <1>3, <3>1 DEF Pursues
    <3>3. g = p => hand.kind[hc] = "subst"
      BY <3>1, <3>2
    <3>4. states[p].j > hand.last => hand.kind[hc] = "eps"
      BY <3>1 DEF Pursues
    <3> HIDE DEF g, hc
    <3> QED  BY <3>1, <3>3, <3>4
  <2> HIDE DEF g
  <2>4. /\ states' \in Seq(State) /\ Len(states') = Len(states)
        /\ Extends(states, states')
        /\ \A q \in Ids : Sound(hand, states', states'[q]) /\ Within(states', states'[q])
    BY <1>1, <1>3, <2>1, <2>2, <2>3, RetypedOK
  <2>5. Ids' = Ids
    BY <2>4, StatesOK DEF Ids
  <2>6. CallsOK(todo')
    BY <1>1, <1>3, <2>1, HeadCallsOK DEF CallsOK
  <2>7. \A v \in Spans : \A k \in DOMAIN chart'[v] :
          states'[chart'[v][k]].i = v[1] /\ states'[chart'[v][k]].j = v[2]
    <3> SUFFICES ASSUME NEW v \in Spans, NEW k \in DOMAIN chart[v]
                 PROVE  states'[chart[v][k]].i = v[1] /\ states'[chart[v][k]].j = v[2]
      BY DEF InitHead
    <3>1. chart[v][k] \in 1 .. Len(states)
      BY StatesOK DEF Inv, Inductive, TypeOK
    <3>2. states[chart[v][k]].i = v[1] /\ states[chart[v][k]].j = v[2]
      BY DEF Inv, Inductive
    <3> QED  BY <2>4, <3>1, <3>2 DEF Extends
  <2>8. /\ hand' = hand /\ chart' \in [Spans -> Seq(Ids')]
        /\ plist' \in Seq(Ids') /\ nlist' \in Seq(Ids') /\ idx' \in 1 .. Len(plist') + 1
        /\ stage' \in {"head", "move", "complete", "done", "abort"}
    BY <2>5 DEF InitHead, Inv, Inductive, TypeOK
  <2> QED  BY <2>4, <2>5, <2>6, <2>7, <2>8, StepInv
<1> QED  BY <1>2, <1>3

-----------------------------------------------------------------------------
\* hp_check_heap returns 0 or a state that makes the new one superfluous.
LEMMA CheckHeapIn ==
  ASSUME Inv, NEW t, Bounded(hand, states, t), CheckHeap(t) # 0
  PROVE  CheckHeap(t) \in Ids /\ AddEq(states[CheckHeap(t)], t)
<1> DEFINE cell == CellOf(t.i, t.j)
           places == {p \in DOMAIN cell : AddEq(states[cell[p]], t)}
<1>1. t.i \in 0 .. hand.last + 1 /\ t.j \in 0 .. hand.last + 1
  BY HandOK DEF Bounded, Inv
<1>2. \A p \in DOMAIN cell : cell[p] \in Ids /\ p \in Nat
  BY <1>1, CellIn
<1>3. CheckHeap(t) = FirstOf(cell, places)
  BY DEF CheckHeap
<1>4. places \subseteq Nat /\ places # {}
  BY <1>2, <1>3 DEF FirstOf
<1> HIDE DEF places
<1>5. PICK p \in places : FirstOf(cell, places) = cell[p]
  BY <1>4, FirstOfIn
<1>6. p \in DOMAIN cell /\ AddEq(states[cell[p]], t)
  BY DEF places
<1> QED  BY <1>2, <1>3, <1>5, <1>6

\* The state d gets the back pointers of the state t that it stands for.
Merged(d, ptrs) == [states EXCEPT ![d].bp = @ \o ptrs]

\* The state a new back pointer goes to (or not) keeps everything else.
LEMMA MergedFields ==
  ASSUME states \in Seq(State), NEW d \in DOMAIN states, NEW ptrs
  PROVE  \A p \in DOMAIN states :
           LET s == Merged(d, ptrs)[p]
           IN /\ s.n = states[p].n /\ s.pos = states[p].pos /\ s.i = states[p].i
              /\ s.j = states[p].j /\ s.fl = states[p].fl /\ s.fr = states[p].fr
              /\ s.w = states[p].w /\ s.g = states[p].g /\ s.type = states[p].type
              /\ s.bp = IF p = d THEN states[d].bp \o ptrs ELSE states[p].bp
<1> DEFINE bp == states[d].bp \o ptrs
<1> SUFFICES ASSUME NEW p \in DOMAIN states
             PROVE  LET s == Merged(d, ptrs)[p]
                    IN /\ s.n = states[p].n /\ s.pos = states[p].pos /\ s.i = states[p].i
                       /\ s.j = states[p].j /\ s.fl = states[p].fl /\ s.fr = states[p].fr
                       /\ s.w = states[p].w /\ s.g = states[p].g /\ s.type = states[p].type
                       /\ s.bp = IF p = d THEN bp ELSE states[p].bp
  OBVIOUS
<1>1. states[p] \in State
  OBVIOUS
<1>2. Merged(d, ptrs) = [states EXCEPT ![d] = [states[d] EXCEPT !.bp = bp]]
  BY DEF Merged
<1> HIDE DEF bp
<1>3. CASE p = d
  <2>1. Merged(d, ptrs)[p] = [states[p] EXCEPT !.bp = bp]
    BY <1>2, <1>3
  <2> QED  BY <1>1, <1>3, <2>1 DEF State
<1>4. CASE p # d
  BY <1>2, <1>4
<1> QED  BY <1>3, <1>4

\* A state is sound with the back pointers of one it makes superfluous.
LEMMA MergedOK ==
  ASSUME Inv, NEW d \in Ids, NEW t, Sound(hand, states, t), AddEq(states[d], t),
         NEW ptrs \in Seq(Backptr),
         \A k \in DOMAIN ptrs : \E l \in DOMAIN t.bp : ptrs[k] = t.bp[l]
  PROVE  /\ Merged(d, ptrs) \in Seq(State) /\ Len(Merged(d, ptrs)) = Len(states)
         /\ Extends(states, Merged(d, ptrs))
         /\ \A q \in Ids : /\ Sound(hand, Merged(d, ptrs), Merged(d, ptrs)[q])
                           /\ Within(Merged(d, ptrs), Merged(d, ptrs)[q])
<1> DEFINE new == Merged(d, ptrs)
           s == states[d]
           u == new[d]
           bp == s.bp \o ptrs
<1>1. /\ states \in Seq(State) /\ Ids = 1 .. Len(states) /\ Len(states) \in Nat
      /\ s \in State /\ Bounded(hand, states, s) /\ Pursues(hand, states, s)
      /\ Asks(hand, states, s)
  BY StatesOK DEF Sound
<1>2. s.bp \in Seq(Backptr)
  BY <1>1 DEF State
<1>3. /\ bp \in Seq(Backptr)
      /\ \A k \in DOMAIN bp : \/ \E l \in DOMAIN s.bp : bp[k] = s.bp[l]
                            \/ \E l \in DOMAIN t.bp : bp[k] = t.bp[l]
  <2>1. /\ bp \in Seq(Backptr) /\ Len(bp) = Len(s.bp) + Len(ptrs)
        /\ \A k \in 1 .. Len(s.bp) + Len(ptrs) :
             bp[k] = IF k <= Len(s.bp) THEN s.bp[k] ELSE ptrs[k - Len(s.bp)]
    BY <1>2, ConcatProperties
  <2> HIDE DEF bp, s
  <2>2. ASSUME NEW k \in DOMAIN bp
        PROVE  \/ \E l \in DOMAIN s.bp : bp[k] = s.bp[l]
               \/ \E l \in DOMAIN t.bp : bp[k] = t.bp[l]
    <3>1. k \in 1 .. Len(s.bp) + Len(ptrs) /\ Len(s.bp) \in Nat /\ Len(ptrs) \in Nat
      BY <1>2, <2>1
    <3>2. CASE k <= Len(s.bp)
      <4>1. k \in DOMAIN s.bp /\ bp[k] = s.bp[k]
        BY <1>2, <2>1, <3>1, <3>2
      <4> QED  BY <4>1
    <3>3. CASE ~ (k <= Len(s.bp))
      <4>1. k - Len(s.bp) \in DOMAIN ptrs /\ bp[k] = ptrs[k - Len(s.bp)]
        BY <2>1, <3>1, <3>3
      <4> QED  BY <4>1
    <3> QED  BY <3>2, <3>3
  <2> QED  BY <2>1, <2>2
<1>4. /\ u = [s EXCEPT !.bp = bp]
      /\ \A q \in Ids \ {d} : new[q] = states[q]
      /\ DOMAIN new = Ids
  <2>1. DOMAIN states = Ids
    BY DEF Ids
  <2>2. new = [states EXCEPT ![d] = [s EXCEPT !.bp = bp]]
    BY DEF Merged
  <2> HIDE DEF new, s, bp
  <2> QED  BY <2>1, <2>2
<1>5. /\ u.n = s.n /\ u.pos = s.pos /\ u.i = s.i /\ u.j = s.j /\ u.bp = bp
      /\ u.fl = s.fl /\ u.fr = s.fr /\ u.g = s.g /\ u.type = s.type
  BY <1>1, <1>4 DEF State
<1>6. u \in State
  BY <1>1, <1>3, <1>4 DEF State
<1> HIDE DEF s, u, new, bp
<1>7. new \in Seq(State) /\ Len(new) = Len(states)
  <2>1. \A q \in Ids : new[q] \in State
    BY <1>1, <1>4, <1>6, StatesOK DEF u
  <2>2. new = [q \in 1 .. Len(states) |-> new[q]]
    BY <1>1, <1>4 DEF new, Merged
  <2>3. new \in [1 .. Len(states) -> State]
    BY <1>1, <2>1, <2>2
  <2> QED  BY <1>1, <2>3
<1>8. Extends(states, new)
  <2>1. ASSUME NEW q \in 1 .. Len(states)
        PROVE  /\ new[q].n = states[q].n /\ new[q].pos = states[q].pos
               /\ new[q].i = states[q].i /\ new[q].j = states[q].j
               /\ new[q].type = "item" <=> states[q].type = "item"
    <3>1. CASE q = d
      BY <1>5, <3>1 DEF s, u
    <3>2. CASE q # d
      BY <1>1, <1>4, <3>2
    <3> QED  BY <3>1, <3>2
  <2> QED  BY <1>1, <1>7, <2>1 DEF Extends
<1>9. Sound(hand, states, u)
  <2>1. Bounded(hand, states, t) /\ Asks(hand, states, t)
    BY DEF Sound
  <2>2. /\ s.n = t.n /\ s.i = t.i /\ s.j = t.j
        /\ s.type = t.type \/ (s.type # "item" /\ t.type # "item")
    BY DEF AddEq, s
  <2>3. Bounded(hand, states, u)
    <3>1. \A k \in DOMAIN bp : bp[k].b \in 0 .. Len(states) /\ bp[k].c \in 0 .. Len(states)
      BY <1>1, <1>3, <2>1 DEF Bounded
    <3> QED  BY <1>1, <1>5, <1>6, <3>1 DEF Bounded
  <2>4. Pursues(hand, states, u)
    BY <1>1, <1>5 DEF Pursues
  <2>5. Asks(hand, states, u)
    <3> SUFFICES ASSUME u.type # "item", NEW k \in DOMAIN bp
                 PROVE  /\ bp[k].b = 0 <=> bp[k].c # 0
                        /\ bp[k].b # 0 => /\ Asker(hand, states[bp[k].b], u.n, "right")
                                          /\ states[bp[k].b].i = u.j
                        /\ bp[k].c # 0 => /\ Asker(hand, states[bp[k].c], u.n, "left")
                                          /\ states[bp[k].c].j = u.i
      BY <1>5 DEF Asks
    <3>1. CASE \E l \in DOMAIN s.bp : bp[k] = s.bp[l]
      BY <1>1, <1>5, <3>1 DEF Asks
    <3>2. CASE \E l \in DOMAIN t.bp : bp[k] = t.bp[l]
      BY <1>5, <2>1, <2>2, <3>2 DEF Asks
    <3> QED  BY <1>3, <3>1, <3>2
  <2> QED  BY <2>3, <2>4, <2>5 DEF Sound
<1>10. ASSUME NEW q \in Ids
       PROVE  Sound(hand, new, new[q]) /\ Within(new, new[q])
  <2>1. Sound(hand, states, states[q]) /\ Within(states, states[q])
    BY DEF Inv, Inductive
  <2>2. Sound(hand, states, new[q])
    <3>1. CASE q = d
      BY <1>9, <3>1 DEF u
    <3>2. CASE q # d
      BY <1>4, <2>1, <3>2
    <3> QED  BY <3>1, <3>2
  <2>3. Sound(hand, new, new[q])
    BY <1>1, <1>7, <1>8, <2>2, SoundExtends
  <2>4. new[q].g = states[q].g /\ new[q].i = states[q].i /\ new[q].j = states[q].j
    <3>1. CASE q = d
      BY <1>5, <3>1 DEF s, u
    <3>2. CASE q # d
      BY <1>4, <3>2
    <3> QED  BY <3>1, <3>2
  <2>5. Within(new, new[q])
    <3>1. states[q].g \in 0 .. Len(states)  BY StatesOK
    <3> QED  BY <1>8, <2>1, <2>4, <3>1 DEF Within, Extends
  <2> QED  BY <2>3, <2>5
<1> QED  BY <1>7, <1>8, <1>10 DEF new

\* Storing a state preserves the invariant.
LEMMA StoreInv ==
  ASSUME Inv, NEW t, Sound(hand, states, t), ~ OutOfGoal(t), Store(t), CallsOK(todo'),
         UNCHANGED <<hand, plist, idx>>
  PROVE  Inv'
<1> DEFINE id == Len(states) + 1
           at == <<t.i, t.j>>
           heap == HeapInsert(chart[at], id, t)
<1>1. /\ states \in Seq(State) /\ Len(states) \in Nat /\ Ids = 1 .. Len(states)
      /\ Bounded(hand, states, t) /\ t \in State
  BY StatesOK DEF Sound, Bounded
<1>2. /\ states' = Append(states, t) /\ stage' = stage
      /\ chart' = [chart EXCEPT ![at] = heap] /\ nlist' = Append(nlist, id)
  BY DEF Store
<1>3. /\ states' \in Seq(State) /\ Len(states') = id /\ states'[id] = t
      /\ \A p \in Ids : states'[p] = states[p]
  BY <1>1, <1>2, AppendProperties
<1>4. Ids' = 1 .. id /\ Ids \subseteq Ids' /\ id \in Ids'
  BY <1>1, <1>3 DEF Ids
<1>5. Extends(states, states')
  BY <1>1, <1>3 DEF Extends
<1>6. \A p \in Ids' : Sound(hand, states', states'[p]) /\ Within(states', states'[p])
  <2>1. ASSUME NEW p \in Ids
        PROVE  Sound(hand, states', states[p]) /\ Within(states', states[p])
    <3>1. Sound(hand, states, states[p]) /\ Within(states, states[p])
      BY DEF Inv, Inductive
    <3>2. Sound(hand, states', states[p])
      BY <1>1, <1>3, <1>5, <3>1, SoundExtends
    <3>3. states[p].g \in 0 .. Len(states)  BY StatesOK
    <3>4. Within(states', states[p])
      BY <1>5, <3>1, <3>3 DEF Within, Extends
    <3> QED  BY <3>2, <3>4
  <2>2. Sound(hand, states', t)
    BY <1>1, <1>3, <1>5, SoundExtends
  <2>3. Within(states', t)
    <3>1. t.g \in 0 .. Len(states) /\ t.i \in Int /\ t.j \in Int
      BY <1>1 DEF Bounded, State
    <3>2. CASE t.g # 0
      <4>1. t.g \in Ids /\ states[t.g].i \in Int /\ states[t.g].j \in Int
        BY <1>1, <3>1, <3>2, StatesOK, HandOK DEF Inv
      <4>2. ~ (states[t.g].i > t.i) /\ ~ (states[t.g].j < t.j)
        BY <3>2 DEF OutOfGoal
      <4> QED  BY <1>3, <3>1, <4>1, <4>2 DEF Within
    <3>3. CASE t.g = 0
      BY <3>3 DEF Within
    <3> QED  BY <3>2, <3>3
  <2> QED  BY <1>1, <1>3, <1>4, <2>1, <2>2, <2>3
<1>7. at \in Spans
  BY <1>1, HandOK DEF Spans, Bounded, Inv
<1>8. chart \in [Spans -> Seq(Ids)]
  BY DEF Inv, Inductive, TypeOK
<1>9. chart[at] \in Seq(Ids) /\ Ids' = Ids \cup {id}
  BY <1>1, <1>4, <1>7, <1>8
<1>10. /\ heap \in Seq(Ids')
       /\ \A k \in DOMAIN heap : heap[k] = id \/ \E l \in DOMAIN chart[at] : heap[k] = chart[at][l]
  <2>1. heap = HeapInsert(chart[at], id, t)
    BY DEF heap
  <2> HIDE DEF heap, at, id
  <2> QED  BY <1>9, <2>1, HeapInsertIn, SMTT(30)
<1>11. ASSUME NEW q \in Seq(Ids) PROVE q \in Seq(Ids')
  BY <1>4, SeqMonotonic
<1> HIDE DEF heap, at
<1>12. chart' \in [Spans -> Seq(Ids')]
  BY <1>2, <1>7, <1>8, <1>10, <1>11
<1>13. \A v \in Spans : \A k \in DOMAIN chart'[v] :
         states'[chart'[v][k]].i = v[1] /\ states'[chart'[v][k]].j = v[2]
  <2> SUFFICES ASSUME NEW v \in Spans, NEW k \in DOMAIN chart'[v]
               PROVE  states'[chart'[v][k]].i = v[1] /\ states'[chart'[v][k]].j = v[2]
    OBVIOUS
  <2>1. ASSUME NEW l \in DOMAIN chart[v]
        PROVE  states'[chart[v][l]].i = v[1] /\ states'[chart[v][l]].j = v[2]
    <3>1. chart[v][l] \in Ids
      BY <1>8
    <3>2. states[chart[v][l]].i = v[1] /\ states[chart[v][l]].j = v[2]
      BY DEF Inv, Inductive
    <3> QED  BY <1>3, <3>1, <3>2
  <2>2. CASE v = at
    <3>1. chart'[v] = heap
      BY <1>2, <1>7, <1>8, <2>2
    <3>2. CASE heap[k] = id
      BY <1>3, <2>2, <3>1, <3>2 DEF at
    <3>3. CASE \E l \in DOMAIN chart[at] : heap[k] = chart[at][l]
      BY <2>1, <2>2, <3>1, <3>3
    <3> QED  BY <1>10, <3>1, <3>2, <3>3
  <2>3. CASE v # at
    <3>1. chart'[v] = chart[v]
      BY <1>2, <1>8, <2>3
    <3> QED  BY <2>1, <3>1
  <2> QED  BY <2>2, <2>3
<1>14. plist' \in Seq(Ids') /\ nlist' \in Seq(Ids')
  <2>1. plist \in Seq(Ids) /\ nlist \in Seq(Ids)
    BY DEF Inv, Inductive, TypeOK
  <2>2. plist \in Seq(Ids') /\ nlist \in Seq(Ids')
    BY <1>11, <2>1
  <2> QED  BY <1>2, <1>4, <2>2, AppendProperties
<1>15. idx' \in 1 .. Len(plist') + 1 /\ stage' \in {"head", "move", "complete", "done", "abort"}
  BY <1>2 DEF Inv, Inductive, TypeOK
<1> QED  BY <1>3, <1>5, <1>6, <1>12, <1>13, <1>14, <1>15, StepInv

\* ptrs are back pointers of bp.
SomeOf(ptrs, bp) ==
  ptrs \in Seq(Backptr) /\ \A k \in DOMAIN ptrs : \E l \in DOMAIN bp : ptrs[k] = bp[l]

\* What hp_combine_logprob does: some of the back pointers of t go to d, unless
\* d is a child of t.
LEMMA MergeIs ==
  ASSUME NEW t, Sound(hand, states, t), NEW d \in Ids, Merge(d, t)
  PROVE  /\ chart' = chart /\ nlist' = nlist
         /\ stage' = stage \/ (stage' = "abort" /\ t.bp # <<>> /\ d \in {t.bp[1].b, t.bp[1].c})
         /\ states' = states \/ \E ptrs : SomeOf(ptrs, t.bp) /\ states' = Merged(d, ptrs)
<1> DEFINE known == \E k \in DOMAIN states[d].bp :
                      /\ PtrEq(states[d].bp[k].b, t.bp[1].b)
                      /\ PtrEq(states[d].bp[k].c, t.bp[1].c)
           ptrs == (IF known THEN <<>> ELSE t.bp) \o (IF t.type = "init" THEN t.bp ELSE <<>>)
<1>1. /\ chart' = chart /\ nlist' = nlist
      /\ stage' = stage \/ (stage' = "abort" /\ t.bp # <<>> /\ d \in {t.bp[1].b, t.bp[1].c})
      /\ states' = states \/ states' = Merged(d, ptrs)
  BY DEF Merge, Merged
<1>2. t.bp \in Seq(Backptr)
  BY DEF Sound, Bounded, State
<1>3. /\ ptrs \in Seq(Backptr)
      /\ \A k \in DOMAIN ptrs : \E l \in DOMAIN t.bp : ptrs[k] = t.bp[l]
  <2> DEFINE x == IF known THEN <<>> ELSE t.bp
             y == IF t.type = "init" THEN t.bp ELSE <<>>
  <2>1. x \in {<<>>, t.bp} /\ y \in {<<>>, t.bp} /\ ptrs = x \o y
    OBVIOUS
  <2> HIDE DEF x, y, ptrs, known
  <2>2. x \in Seq(Backptr) /\ y \in Seq(Backptr)
    BY <1>2, <2>1, EmptySeq
  <2>3. /\ ptrs \in Seq(Backptr) /\ Len(ptrs) = Len(x) + Len(y)
        /\ \A k \in 1 .. Len(x) + Len(y) :
             ptrs[k] = IF k <= Len(x) THEN x[k] ELSE y[k - Len(x)]
    BY <2>1, <2>2, ConcatProperties
  <2>4. ASSUME NEW k \in DOMAIN ptrs
        PROVE  \E l \in DOMAIN t.bp : ptrs[k] = t.bp[l]
    <3>1. k \in 1 .. Len(x) + Len(y) /\ Len(x) \in Nat /\ Len(y) \in Nat
      BY <2>2, <2>3
    <3>2. CASE k <= Len(x)
      <4>1. k \in DOMAIN x /\ ptrs[k] = x[k]
        BY <2>2, <2>3, <3>1, <3>2
      <4> QED  BY <2>1, <4>1
    <3>3. CASE ~ (k <= Len(x))
      <4>1. k - Len(x) \in DOMAIN y /\ ptrs[k] = y[k - Len(x)]
        BY <2>2, <2>3, <3>1, <3>3
      <4> QED  BY <2>1, <4>1
    <3> QED  BY <3>2, <3>3
  <2> QED  BY <2>3, <2>4
<1> HIDE DEF ptrs
<1>4. SomeOf(ptrs, t.bp)
  BY <1>3 DEF SomeOf
<1> QED  BY <1>1, <1>4

\* Merging a state into another preserves the invariant.
LEMMA MergeInv ==
  ASSUME Inv, NEW t, Sound(hand, states, t), CheckHeap(t) # 0, Merge(CheckHeap(t), t),
         CallsOK(todo'), UNCHANGED <<hand, plist, idx>>
  PROVE  Inv'
<1> DEFINE d == CheckHeap(t)
<1>1. d \in Ids /\ AddEq(states[d], t) /\ Merge(d, t)
  BY CheckHeapIn DEF Sound
<1> HIDE DEF d
<1>2. /\ chart' = chart /\ nlist' = nlist
      /\ stage' = stage \/ stage' = "abort"
      /\ states' = states \/ \E ptrs : SomeOf(ptrs, t.bp) /\ states' = Merged(d, ptrs)
  BY <1>1, MergeIs
<1>3. CASE states' = states
  BY <1>2, <1>3, QuietInv DEF Inv, Inductive, TypeOK
<1>4. CASE states' # states
  <2>1. PICK ptrs \in Seq(Backptr) :
          /\ states' = Merged(d, ptrs)
          /\ \A k \in DOMAIN ptrs : \E l \in DOMAIN t.bp : ptrs[k] = t.bp[l]
    BY <1>2, <1>4 DEF SomeOf
  <2>2. /\ states' \in Seq(State) /\ Len(states') = Len(states)
        /\ Extends(states, states')
        /\ \A q \in Ids : Sound(hand, states', states'[q]) /\ Within(states', states'[q])
    BY <1>1, <2>1, MergedOK
  <2>3. Ids' = Ids
    BY <2>2, StatesOK DEF Ids
  <2>4. \A v \in Spans : \A k \in DOMAIN chart'[v] :
          states'[chart'[v][k]].i = v[1] /\ states'[chart'[v][k]].j = v[2]
    <3> SUFFICES ASSUME NEW v \in Spans, NEW k \in DOMAIN chart[v]
                 PROVE  states'[chart[v][k]].i = v[1] /\ states'[chart[v][k]].j = v[2]
      BY <1>2
    <3>1. chart[v][k] \in 1 .. Len(states)
      BY StatesOK DEF Inv, Inductive, TypeOK
    <3>2. states[chart[v][k]].i = v[1] /\ states[chart[v][k]].j = v[2]
      BY DEF Inv, Inductive
    <3> QED  BY <2>2, <3>1, <3>2 DEF Extends
  <2>5. /\ chart' \in [Spans -> Seq(Ids')]
        /\ plist' \in Seq(Ids') /\ nlist' \in Seq(Ids') /\ idx' \in 1 .. Len(plist') + 1
        /\ stage' \in {"head", "move", "complete", "done", "abort"}
    BY <1>2, <2>3 DEF Inv, Inductive, TypeOK
  <2> QED  BY <2>2, <2>3, <2>4, <2>5, StepInv
<1> QED  BY <1>2, <1>3, <1>4

\* hparse_add preserves the invariant.
LEMMA AddInv ==
  ASSUME Inv, Add
  PROVE  Inv'
<1>1. PICK r \in todo : hparse_add(r.t) /\ todo' = todo \ {r}
  BY DEF Add
<1>2. UNCHANGED <<hand, plist, idx>>
  BY DEF Add
<1>3. CallsOK(todo) /\ Sound(hand, states, r.t)
  BY DEF Inv, Inductive, TypeOK, CallsOK
<1>4. CallsOK(todo')
  BY <1>1, <1>3 DEF CallsOK
<1>5. CASE Drop(r.t)
  BY <1>2, <1>4, <1>5, QuietInv DEF Drop, Inv, Inductive, TypeOK
<1>6. CASE CheckHeap(r.t) # 0 /\ Merge(CheckHeap(r.t), r.t)
  BY <1>2, <1>3, <1>4, <1>6, MergeInv
<1>7. CASE ~ OutOfGoal(r.t) /\ Store(r.t)
  BY <1>2, <1>3, <1>4, <1>7, StoreInv
<1> QED  BY <1>1, <1>5, <1>6, <1>7 DEF hparse_add

\* Every step of the parser preserves the invariant.
LEMMA NextInv ==
  ASSUME Inv, [Next]_vars
  PROVE  Inv'
<1>1. CASE Next
  BY <1>1, AddInv, InitHeadInv, MoveUpInv, CompleterInv, NextListInv DEF Next
<1>2. CASE UNCHANGED vars
  <2>1. CallsOK(todo')
    BY <1>2 DEF vars, Inv, Inductive, TypeOK, CallsOK
  <2> QED  BY <1>2, <2>1, QuietInv DEF vars, Inv, Inductive, TypeOK
<1> QED  BY <1>1, <1>2

-----------------------------------------------------------------------------
\* Everything the parser holds, calls still to be made included, stays within
\* the bounds of its tables (the indexing of chart_get, of the node tables
\* and of the pointers in hparse.c and hparse_add.c).
THEOREM TypeCorrect == Spec => []TypeOK
<1>1. Init => Inv
  BY InitInv
<1>2. Inv /\ [Next]_vars => Inv'
  BY NextInv
<1>3. Inv => TypeOK
  BY DEF Inv, Inductive
<1> QED  BY <1>1, <1>2, <1>3, PTL DEF Spec

\* The inductive invariant holds for every sentence and every grammar.
THEOREM InductiveHolds == Spec => []Inductive
<1>1. Init => Inv
  BY InitInv
<1>2. Inv /\ [Next]_vars => Inv'
  BY NextInv
<1>3. Inv => Inductive
  BY DEF Inv
<1> QED  BY <1>1, <1>2, <1>3, PTL DEF Spec

\* Every state pursues a goal on its own path of headcorners and within the
\* goal's span, so that hpstate_add_eq may judge two goals of equal states by
\* their spans alone.
THEOREM GoalsOnSpines == Spec => []GoalsAreSpines
<1>1. Inv => GoalsAreSpines
  <2> SUFFICES ASSUME Inv, NEW p \in Ids, states[p].g # 0
               PROVE  LET s == states[p]
                          t == hand.up[states[s.g].n]
                      IN /\ states[s.g].type # "item"
                         /\ states[s.g].i <= s.i /\ s.j <= states[s.g].j
                         /\ hand.head[states[s.g].n] = hand.head[s.n]
                         /\ t # 0 => hand.head[t] # hand.head[s.n]
    BY DEF GoalsAreSpines
  <2>1. Aims(hand, states, states[p].g, states[p].n) /\ Within(states, states[p])
    BY StatesOK DEF Inv, Inductive
  <2> QED  BY <2>1 DEF Aims, Within, SpineTop
<1>2. Init => Inv
  BY InitInv
<1>3. Inv /\ [Next]_vars => Inv'
  BY NextInv
<1> QED  BY <1>1, <1>2, <1>3, PTL DEF Spec

\* A head that hparse_left_head or hparse_right_head leaves on the back pointer
\* of a prediction is the finished sibling next to the span it asked for, so
\* that the completer may join the two without looking at their spans.
THEOREM AskersBeside == Spec => []AskersAdjoin
<1>1. Inv => AskersAdjoin
  <2> SUFFICES ASSUME Inv, NEW p \in Ids \ ItemIds, NEW k \in DOMAIN states[p].bp
               PROVE  LET s == states[p]
                          q == s.bp[k]
                      IN /\ q.b = 0 <=> q.c # 0
                         /\ q.b # 0 => LET b == states[q.b]
                                       IN /\ b.type = "item" /\ b.pos = "top" /\ b.i = s.j
                                          /\ hand.sibling[s.n] = b.n /\ hand.side[b.n] = "right"
                         /\ q.c # 0 => LET c == states[q.c]
                                       IN /\ c.type = "item" /\ c.pos = "top" /\ c.j = s.i
                                          /\ hand.sibling[s.n] = c.n /\ hand.side[c.n] = "left"
    BY DEF AskersAdjoin
  <2>1. Asks(hand, states, states[p]) /\ states[p].type # "item"
    BY StatesOK DEF Sound, ItemIds
  <2> QED  BY <2>1 DEF Asks, Asker
<1>2. Init => Inv
  BY InitInv
<1>3. Inv /\ [Next]_vars => Inv'
  BY NextInv
<1> QED  BY <1>1, <1>2, <1>3, PTL DEF Spec
=============================================================================
