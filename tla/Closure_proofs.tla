--------------------------- MODULE Closure_proofs ---------------------------
(***************************************************************************)
(* When hparse() is done, its chart is closed: nothing that a goal asks    *)
(* for is missing from it (HParseProps!ChartClosed), for every grammar     *)
(* whose auxiliary trees are lexical and sentences of every length.        *)
(*                                                                         *)
(* A conclusion of two items is made when the later of them goes through   *)
(* its handler.  If that is the head, hparse_move_up finds the other one   *)
(* in the chart (ia_hp_state_exists); if it is the other one, the state    *)
(* that asked for it points to the head, and hparse_completer follows the  *)
(* back pointers.  So the invariant says of everything that a handler has  *)
(* been asked for that it is in the chart or in a pending call of          *)
(* hparse_add (Arrives), and of a subtree that is wanted that it has been  *)
(* asked for and, once it has been through the completer, has served the   *)
(* head (Served).  It is kept because a merge loses nothing: the state     *)
(* that stays stands for the one that is dropped and takes its back        *)
(* pointers (Grows, Taken).                                                *)
(*                                                                         *)
(* A conclusion that leaves its goal is dropped by hparse_add, and the     *)
(* proof has to show that those that are needed do not: FeetFound and      *)
(* Shaped are for the gaps of an item, GoalsAim for the goals.             *)
(*                                                                         *)
(* A closed chart rejects no sentence that has an analysis: what is        *)
(* derived is found wherever it is wanted, by induction on the derivation  *)
(* (DerivedIsFound), and the whole sentence is wanted from the start.      *)
(***************************************************************************)
EXTENDS Chart_proofs, Deduction_proofs

\* The invariants of the earlier modules.
AllInv == DeductionInv /\ ChartInv /\ AgendaInv

-----------------------------------------------------------------------------
(* Nothing that has been found or asked for is lost again.                 *)

\* s stands for t.
StandsFor(s, t) ==
  /\ Like(s, t) /\ (s.type = "item" <=> t.type = "item")
  /\ t.type = "goal" => s.type = "goal"

\* The back pointers of t are among those of s.
PtrsKept(s, t) == \A k \in DOMAIN t.bp : \E l \in DOMAIN s.bp : s.bp[l] = t.bp[k]

Grows ==
  /\ hand' = hand /\ Ids \subseteq Ids'
  /\ \A p \in Ids :
       /\ StandsFor(states'[p], states[p]) /\ PtrsKept(states'[p], states[p])
       /\ states'[p].g \in {states[p].g, p}
       /\ states[p].type # "init" => states'[p].g = states[p].g

\* The span of the goal q contains that of the goal g.
Wide(q, g) == AsWide(states, q, g)

\* A state stands for t, and has the back pointers of t if that is a prediction;
\* if it is none, its goal is as wide as that of t.
Taken(t) ==
  \E d \in Ids' :
    /\ StandsFor(states'[d], t) /\ (t.type = "init" => PtrsKept(states'[d], t))
    /\ t.g # 0 => Wide(states[d].g, t.g)'

\* Nothing is lost where the states stay the same.
LEMMA GrowsQuiet ==
  ASSUME hand' = hand, states' = states
  PROVE  Grows /\ Ids' = Ids
BY DEF Grows, StandsFor, Like, PtrsKept, Ids

\* hp_store_state keeps what there is and takes the state.
LEMMA StoreTakes ==
  ASSUME Inv, NEW t \in State, t.g \in Ids \cup {0}, Store(t), hand' = hand
  PROVE  /\ Grows /\ Taken(t)
         /\ Ids' = Ids \cup {Len(states) + 1} /\ states'[Len(states) + 1] = t
<1>1. /\ states \in Seq(State) /\ Len(states) \in Nat /\ Ids = 1 .. Len(states)
      /\ states' = Append(states, t)
  BY StatesOK DEF Store
<1>2. /\ Len(states') = Len(states) + 1 /\ states'[Len(states) + 1] = t
      /\ DOMAIN states' = 1 .. Len(states) + 1
      /\ \A p \in Ids : states'[p] = states[p]
  BY <1>1, AppendProperties
<1>3. Ids' = Ids \cup {Len(states) + 1}
  BY <1>1, <1>2 DEF Ids
<1>4. Grows
  BY <1>2, <1>3 DEF Grows, StandsFor, Like, PtrsKept
<1>5. Taken(t)
  <2>1. ASSUME t.g # 0
        PROVE  Wide(t.g, t.g)'
    <3>1. states'[t.g] = states[t.g] /\ states[t.g] \in State
      BY <1>2, <2>1, StatesOK
    <3>2. states'[t.g].i \in Int /\ states'[t.g].j \in Int
      BY <3>1 DEF State
    <3> QED  BY <2>1, <3>2 DEF Wide, AsWide
  <2>2. Len(states) + 1 \in Ids' /\ states'[Len(states) + 1] = t
    BY <1>2, <1>3
  <2> QED  BY <2>1, <2>2 DEF Taken, StandsFor, Like, PtrsKept, Wide
<1> QED  BY <1>2, <1>3, <1>4, <1>5

\* The back pointers that hp_combine_logprob adds.
LEMMA MergeGives ==
  ASSUME NEW t, t.bp \in Seq(Backptr), NEW d, Merge(d, t), stage' # "abort", stage # "abort"
  PROVE  \/ t.bp = <<>> /\ states' = states
         \/ \E x \in Seq(Backptr) : \E y \in Seq(Backptr) :
              /\ t.type = "init" => y = t.bp
              /\ states' = Merged(d, x \o y)
<1> DEFINE known == \E k \in DOMAIN states[d].bp :
                      /\ PtrEq(states[d].bp[k].b, t.bp[1].b)
                      /\ PtrEq(states[d].bp[k].c, t.bp[1].c)
           x == IF known THEN <<>> ELSE t.bp
           y == IF t.type = "init" THEN t.bp ELSE <<>>
<1>1. x \in Seq(Backptr) /\ y \in Seq(Backptr) /\ (t.type = "init" => y = t.bp)
  BY EmptySeq
<1>2. t.bp # <<>> => states' = Merged(d, x \o y)
  BY DEF Merge, Merged
<1>3. t.bp = <<>> => states' = states
  BY DEF Merge
<1> HIDE DEF x, y
<1> QED  BY <1>1, <1>2, <1>3

\* A state that is merged into another is represented by it.
LEMMA MergeTakes ==
  ASSUME Inv, stage # "abort", NEW t, Sound(hand, states, t), t.type = "goal" => t.g # 0,
         NEW d \in Ids, AddEq(states[d], t), Merge(d, t), stage' # "abort", hand' = hand
  PROVE  Grows /\ Taken(t) /\ Ids' = Ids
<1>1. /\ states \in Seq(State) /\ Len(states) \in Nat /\ Ids = 1 .. Len(states)
      /\ DOMAIN states = Ids /\ t.bp \in Seq(Backptr) /\ t \in State
  BY StatesOK DEF Ids, Sound, Bounded, State
<1>2. StandsFor(states[d], t)
  <2>1. Like(states[d], t) /\ (states[d].type = "item" <=> t.type = "item")
    BY DEF AddEq, Like
  <2>2. states[d] \in State /\ Pursues(hand, states, states[d])
    BY StatesOK DEF Sound
  <2>3. ASSUME t.type = "goal"
        PROVE  states[d].type = "goal"
    <3>1. states[d].g # 0
      BY <2>3 DEF AddEq
    <3>2. states[d].type # "init" /\ states[d].type \in {"init", "goal", "item"}
      BY <2>2, <3>1 DEF Pursues, State
    <3> QED  BY <2>1, <2>3, <3>2
  <2> QED  BY <2>1, <2>3 DEF StandsFor
<1>20. t.g # 0 => Wide(states[d].g, t.g) /\ states[d].g \in Ids /\ t.g \in Ids
  <2> SUFFICES ASSUME t.g # 0
               PROVE  Wide(states[d].g, t.g) /\ states[d].g \in Ids /\ t.g \in Ids
    OBVIOUS
  <2>1. t.g \in Ids /\ states[d].g \in Ids \cup {0}
    BY <1>1, StatesOK DEF Sound, Bounded
  <2>2. CASE states[d].g = t.g
    <3>1. states[t.g].i \in Int /\ states[t.g].j \in Int
      BY <2>1, StatesOK DEF State
    <3> QED  BY <2>1, <2>2, <3>1 DEF Wide, AsWide
  <2>3. CASE states[d].g # t.g
    <3>1. /\ states[d].g # 0 /\ states[states[d].g].i <= states[t.g].i
          /\ states[states[d].g].j >= states[t.g].j
      BY <2>3 DEF AddEq
    <3>2. states[t.g] \in State /\ states[states[d].g] \in State
      BY <2>1, <3>1, StatesOK
    <3> QED  BY <2>1, <3>1, <3>2 DEF Wide, AsWide, State
  <2> QED  BY <2>2, <2>3
<1>3. CASE t.bp = <<>> /\ states' = states
  <2>1. Grows /\ Ids' = Ids
    BY <1>3, GrowsQuiet
  <2>2. t.g # 0 => Wide(states[d].g, t.g)'
    BY <1>3, <1>20 DEF Wide
  <2> QED  BY <1>2, <1>3, <2>1, <2>2 DEF Taken, PtrsKept
<1>4. ASSUME NEW x \in Seq(Backptr), NEW y \in Seq(Backptr),
             t.type = "init" => y = t.bp, states' = Merged(d, x \o y)
      PROVE  Grows /\ Taken(t) /\ Ids' = Ids
  <2> DEFINE new == states'[d].bp
             old == states[d].bp
  <2>1. \A p \in Ids :
          LET s == states'[p]
          IN /\ s.n = states[p].n /\ s.pos = states[p].pos /\ s.i = states[p].i
             /\ s.j = states[p].j /\ s.fl = states[p].fl /\ s.fr = states[p].fr
             /\ s.w = states[p].w /\ s.g = states[p].g /\ s.type = states[p].type
             /\ s.bp = IF p = d THEN old \o (x \o y) ELSE states[p].bp
    BY <1>1, <1>4, MergedFields
  <2>2. Ids' = Ids
    BY <1>1, <1>4 DEF Merged, Ids
  <2>3. states[d] \in State
    BY StatesOK
  <2>4. old \in Seq(Backptr)
    BY <2>3 DEF State
  <2>5. new = old \o (x \o y)
    BY <2>1
  <2> HIDE DEF old, new
  <2>6. /\ Len(old) \in Nat /\ Len(x) \in Nat /\ Len(y) \in Nat
        /\ Len(x \o y) = Len(x) + Len(y) /\ (x \o y) \in Seq(Backptr)
        /\ \A k \in 1 .. Len(x) + Len(y) : (x \o y)[k] = IF k <= Len(x) THEN x[k] ELSE y[k - Len(x)]
        /\ DOMAIN old = 1 .. Len(old) /\ DOMAIN y = 1 .. Len(y)
    BY <1>4, <2>4, ConcatProperties
  <2> DEFINE z == x \o y
  <2> HIDE DEF z
  <2>7. /\ DOMAIN new = 1 .. Len(old) + Len(z)
        /\ \A k \in 1 .. Len(old) + Len(z) : new[k] = IF k <= Len(old) THEN old[k] ELSE z[k - Len(old)]
    <3>1. z \in Seq(Backptr) /\ new = old \o z /\ Len(new) \in Nat
      BY <2>4, <2>5, <2>6 DEF z
    <3> QED  BY <2>4, <3>1, ConcatProperties
  <2>8. \A k \in DOMAIN old : k \in DOMAIN new /\ new[k] = old[k]
    BY <2>6, <2>7 DEF z
  <2>9. \A k \in DOMAIN y : \E l \in DOMAIN new : new[l] = y[k]
    <3> SUFFICES ASSUME NEW k \in DOMAIN y
                 PROVE  \E l \in DOMAIN new : new[l] = y[k]
      OBVIOUS
    <3>1. k \in 1 .. Len(y) /\ Len(z) = Len(x) + Len(y)
      BY <2>6 DEF z
    <3>2. z[Len(x) + k] = y[k]
      BY <2>6, <3>1 DEF z
    <3>3. Len(old) + Len(x) + k \in DOMAIN new /\ new[Len(old) + Len(x) + k] = z[Len(x) + k]
      BY <2>6, <2>7, <3>1
    <3> QED  BY <3>2, <3>3
  <2>10. ASSUME NEW p \in Ids
         PROVE  /\ StandsFor(states'[p], states[p]) /\ PtrsKept(states'[p], states[p])
                /\ states'[p].g = states[p].g
    <3>1. StandsFor(states'[p], states[p]) /\ states'[p].g = states[p].g
      BY <2>1 DEF StandsFor, Like
    <3>2. PtrsKept(states'[p], states[p])
      <4>1. CASE p = d
        BY <2>8, <4>1 DEF PtrsKept, old, new
      <4>2. CASE p # d
        BY <2>1, <4>2 DEF PtrsKept
      <4> QED  BY <4>1, <4>2
    <3> QED  BY <3>1, <3>2
  <2>11. Grows
    BY <2>2, <2>10 DEF Grows
  <2>12. StandsFor(states'[d], t)
    BY <1>2, <2>1 DEF StandsFor, Like
  <2>13. t.type = "init" => PtrsKept(states'[d], t)
    BY <1>4, <2>9 DEF PtrsKept, new
  <2>14. t.g # 0 => Wide(states[d].g, t.g)'
    BY <1>20, <2>1 DEF Wide, AsWide
  <2> QED  BY <2>2, <2>11, <2>12, <2>13, <2>14 DEF Taken
<1> QED  BY <1>1, <1>3, <1>4, MergeGives
-----------------------------------------------------------------------------
(* What the handlers have asked for arrives.                               *)

\* An item like f is in the chart.
Found(f) == \E x \in ItemIds : Like(states[x], f)

\* A state like f is in the chart or about to be added.
Arrives(f) ==
  \/ \E d \in Ids : Like(states[d], f)
  \/ \E r \in todo : Like(r.t, f) /\ ~ OutOfGoal(r.t)

\* A state like f, of one of the types T, that works for the goal g or for one
\* that gives it more room.
Comes(T, f, g) ==
  \/ \E d \in Ids : states[d].type \in T /\ Like(states[d], f) /\ Wide(states[d].g, g)
  \/ \E r \in todo : /\ r.t.type \in T /\ Like(r.t, f) /\ ~ OutOfGoal(r.t)
                     /\ Wide(r.t.g, g)

AnyType == {"init", "goal", "item"}

\* The states that have been through hparse_move_up, and through all handlers.
Moved == {p \in Ids : p < First + (IF stage = "complete" THEN idx ELSE idx - 1)}
Finished == {p \in Ids : p < First + idx - 1}

\* The subtree w has been asked for, and f follows, for the goal g, once it has
\* been completed.
Served(w, f, g) ==
  /\ Arrives(w)
  /\ \A q \in Working \cap Finished : Like(states[q], w) => Comes({"item"}, f, g)

Spot(n, pos, i, j, fl, fr) == D!Fact(n, pos, i, j, fl, fr, <<>>)

LeavesArrive(p) == \A f \in D!Axioms(hand) : Leaf(states[p], f) => Comes({"item"}, f, p)

\* What the substitution of the tree with root r over the span v asks for.
SubstArrives(p, r, v) ==
  LET s == states[p]
      n == hand.head[s.n]
      w == Spot(r, "top", v[1], v[2], ef, ef)
      f == Spot(n, "top", v[1], v[2], ef, ef)
  IN /\ Arrives(w)
     /\ (s.n = n => v = <<s.i, s.j>>) => Served(w, f, p) /\ Comes({"goal", "item"}, f, p)

SubstsArrive(p) ==
  LET n == hand.head[states[p].n]
  IN hand.kind[n] = "subst" =>
       \A k \in DOMAIN hand.inits[hand.label[n]] : \A v \in SubstSpans(states[p], n) :
         SubstArrives(p, hand.inits[hand.label[n]][k], v)

\* The predictions that have been through hparse_init_head.
Begun == {p \in Ids : states[p].type = "goal" /\ states[p].g \in {0, p}}

BegunArrive == \A p \in Begun : LeavesArrive(p) /\ SubstsArrive(p)

Over(s) == Spot(s.n, "top", s.i, s.j, s.fl, s.fr)
Under(s) == Spot(hand.up[s.n], "bot", s.i, s.j, s.fl, s.fr)

UpArrives(p) ==
  LET s == states[p]
  IN /\ s.pos = "bot" => Comes({"item"}, Over(s), s.g)
     /\ s.pos = "top" /\ hand.up[s.n] # 0 /\ hand.side[s.n] = "only" => Comes({"item"}, Under(s), s.g)

\* t asks for the sibling of the head p.
AsksFor(t, w, p) ==
  /\ t.type # "item" /\ Like(t, w)
  /\ \E k \in DOMAIN t.bp :
       p = IF hand.side[states[p].n] = "left" THEN t.bp[k].c ELSE t.bp[k].b

\* The head p has asked for the subtree w before it was found.
Asking(p, w) ==
  \/ \E d \in Ids : /\ AsksFor(states[d], w, p)
                    /\ \A q \in ItemIds : Like(states[q], w) => q > d
  \/ /\ \E r \in todo : AsksFor(r.t, w, p) /\ r.t.type = "init" /\ r.t.g = 0
     /\ \A q \in ItemIds : ~ Like(states[q], w)
     /\ \A r \in todo : r.t.type = "item" => ~ Like(r.t, w)

\* The parent of s and its sibling over the span from a to b.
Joined(s, a, b) ==
  IF hand.side[s.n] = "left" THEN Spot(hand.up[s.n], "bot", s.i, b, s.fl, s.fr)
  ELSE Spot(hand.up[s.n], "bot", a, s.j, s.fl, s.fr)

\* The head s and the sibling over the span v make their parent.
SiblingArrives(p, v) ==
  LET s == states[p]
      w == Spot(hand.sibling[s.n], "top", v[1], v[2], ef, ef)
      f == Joined(s, v[1], v[2])
  IN Served(w, f, s.g) /\ (Comes({"item"}, f, s.g) \/ Asking(p, w))

SiblingsArrive(p) ==
  LET s == states[p]
  IN /\ s.pos = "top" /\ hand.side[s.n] # "only"
     /\ hand.head[hand.up[s.n]] = hand.head[s.n]
     => \A v \in SpansBeside(s, states[s.g]) : SiblingArrives(p, v)

\* The auxiliary tree aux over the span v is adjoined to s.
AuxArrives(p, aux, v) ==
  LET s == states[p]
  IN Served(Spot(aux, "top", v[1], v[2], s.i, s.j),
            Spot(s.n, AdjoinedPos, v[1], v[2], s.fl, s.fr), s.g)

AuxsArrive(p) ==
  LET s == states[p]
  IN s.pos = "bot" /\ s.n \in hand.adjoin =>
       \A aux \in AuxTrees(s) :
         ~WrapBarred(aux, s.n) => \A v \in AdjoinSpans(s, aux) : AuxArrives(p, aux, v)

MovedArrive ==
  \A p \in Working \cap Moved : UpArrives(p) /\ SiblingsArrive(p) /\ AuxsArrive(p)

\* The foot that s has been built on.
FootBelow(s) == Spot(hand.head[s.n], "bot", s.fl, s.fr, s.fl, s.fr)
OnFoot(s) == Footed(hand, s.n) => Found(FootBelow(s))

FeetFound ==
  /\ \A p \in ItemIds : OnFoot(states[p])
  /\ \A r \in todo : r.t.type = "item" => OnFoot(r.t) \/ Like(r.t, FootBelow(r.t))

\* Predictions and goals are for finished subtrees; a gap is asked for only
\* above a foot.
Shapely(t) ==
  t.type # "item" => t.pos = "top" /\ (Footed(hand, t.n) \/ (t.fl = ef /\ t.fr = ef))

Shaped == (\A p \in Ids : Shapely(states[p])) /\ \A r \in todo : Shapely(r.t)

\* An item that works for no goal, and what it has been found for: a prediction
\* over its span.
Backed(t) == \E d \in Ids : states[d].type = "goal" /\ states[d].g = 0 /\ Like(states[d], t)

Goalless ==
  /\ \A p \in ItemIds : states[p].g = 0 => Backed(states[p])
  /\ \A r \in todo : r.t.type = "item" /\ r.t.g = 0 => Backed(r.t)

\* The goal of a goal is for another node.
Higher(t) == t.type # "item" /\ t.g # 0 => states[t.g].n # t.n

HigherGoals ==
  /\ \A p \in Ids : states[p].g # p => Higher(states[p])
  /\ \A r \in todo : Higher(r.t)

\* A goal serves a state from the start.
GoalsAim == \A r \in todo : r.t.type = "goal" => r.t.g # 0

SeedsArrive == \A r \in Seeds(hand) : Arrives(r.t)

OverIsOver == stage = "done" => todo = {} /\ plist = <<>> /\ nlist = <<>> /\ idx = 1

-----------------------------------------------------------------------------
(* What a step leaves.                                                     *)

\* What later states have in common with the earlier ones.
LEMMA GrowsFields ==
  ASSUME Grows, NEW p \in Ids
  PROVE  /\ p \in Ids' /\ hand' = hand /\ Like(states'[p], states[p])
         /\ states'[p].n = states[p].n /\ states'[p].pos = states[p].pos
         /\ states'[p].i = states[p].i /\ states'[p].j = states[p].j
         /\ states'[p].fl = states[p].fl /\ states'[p].fr = states[p].fr
         /\ states'[p].type = "item" <=> states[p].type = "item"
         /\ states[p].type = "goal" => states'[p].type = "goal"
         /\ states'[p].g \in {states[p].g, p}
         /\ states[p].type # "init" => states'[p].g = states[p].g
BY DEF Grows, StandsFor, Like

\* What a call of hparse_add comes to.
Added(t) ==
  /\ OutOfGoal(t) \/ Taken(t)
  /\ Ids' = Ids \/ (Ids' = Ids \cup {Len(states) + 1} /\ states'[Len(states) + 1] = t
                    /\ nlist' = Append(nlist, Len(states) + 1) /\ Len(states') = Len(states) + 1)

\* hparse_add keeps what there is, and takes the state unless it is out of its goal.
LEMMA AddGrows ==
  ASSUME AllInv, AllInv', GoalsAim, Add
  PROVE  Grows /\ \E r \in todo : todo' = todo \ {r} /\ Added(r.t)
<1>1. PICK r \in todo : hparse_add(r.t) /\ todo' = todo \ {r}
  BY DEF Add
<1>2. /\ Inv /\ stage # "abort" /\ stage' # "abort" /\ hand' = hand
      /\ Sound(hand, states, r.t) /\ (r.t.type = "goal" => r.t.g # 0)
      /\ Bounded(hand, states, r.t) /\ r.t \in State
  BY DEF Add, AllInv, DeductionInv, Inv, Inductive, GoalsAim, Sound, Bounded
<1>30. r.t.g \in Ids \cup {0}
  BY <1>2, StatesOK DEF Bounded
<1>3. CASE Drop(r.t)
  <2>1. Grows /\ Ids' = Ids
    BY <1>2, <1>3, GrowsQuiet DEF Drop
  <2> QED  BY <1>1, <1>3, <2>1 DEF Drop, Added
<1>4. CASE CheckHeap(r.t) # 0 /\ Merge(CheckHeap(r.t), r.t)
  <2>1. CheckHeap(r.t) \in Ids /\ AddEq(states[CheckHeap(r.t)], r.t)
    BY <1>2, <1>4, CheckHeapIn
  <2>2. Grows /\ Taken(r.t) /\ Ids' = Ids
    BY <1>2, <1>4, <2>1, MergeTakes
  <2> QED  BY <1>1, <2>2 DEF Added
<1>5. CASE Store(r.t)
  <2>1. /\ Grows /\ Taken(r.t)
        /\ Ids' = Ids \cup {Len(states) + 1} /\ states'[Len(states) + 1] = r.t
    BY <1>2, <1>30, <1>5, StoreTakes
  <2>2. states \in Seq(State) /\ states' = Append(states, r.t) /\ nlist' = Append(nlist, Len(states) + 1)
    BY <1>2, <1>5, StatesOK DEF Store
  <2>3. Len(states') = Len(states) + 1
    BY <1>2, <2>2, AppendProperties
  <2> QED  BY <1>1, <2>1, <2>2, <2>3 DEF Added
<1> QED  BY <1>1, <1>3, <1>4, <1>5 DEF hparse_add

\* hparse_init_head changes no more than the type and the goal of a prediction.
LEMMA InitHeadGrows ==
  ASSUME AllInv, InitHead
  PROVE  Grows /\ Ids' = Ids
<1> DEFINE p == plist[idx]
           hc == hand.head[states[p].n]
<1>1. /\ p \in Ids /\ states \in Seq(State) /\ DOMAIN states = Ids
      /\ Ids = 1 .. Len(states) /\ Len(states) \in Nat
  BY ListPlace, StatesOK DEF InitHead, AllInv, DeductionInv, Ids
<1>2. hand' = hand
  BY DEF InitHead
<1>3. CASE states[p].type # "init"
  BY <1>2, <1>3, GrowsQuiet DEF InitHead
<1>4. CASE states[p].type = "init"
  <2> DEFINE g == IF hand.kind[hc] = "subst" /\ OwnGoal(p, hc) THEN p ELSE states[p].g
  <2>1. states' = Retyped(p, g) /\ g \in {states[p].g, p}
    BY <1>4 DEF InitHead, Retyped
  <2> HIDE DEF g, hc
  <2>2. \A q \in Ids :
          LET s == states'[q]
          IN /\ s.n = states[q].n /\ s.pos = states[q].pos /\ s.i = states[q].i
             /\ s.j = states[q].j /\ s.fl = states[q].fl /\ s.fr = states[q].fr
             /\ s.bp = states[q].bp
             /\ s.g = IF q = p THEN g ELSE states[q].g
             /\ s.type = IF q = p THEN "goal" ELSE states[q].type
    BY <1>1, <2>1, RetypedFields
  <2>3. Ids' = Ids
    BY <1>1, <2>1 DEF Retyped, Ids
  <2> HIDE DEF p
  <2>4. ASSUME NEW q \in Ids
        PROVE  /\ StandsFor(states'[q], states[q]) /\ PtrsKept(states'[q], states[q])
               /\ states'[q].g \in {states[q].g, q}
               /\ states[q].type # "init" => states'[q].g = states[q].g
    BY <1>4, <2>1, <2>2 DEF StandsFor, Like, PtrsKept
  <2> QED  BY <1>2, <2>3, <2>4 DEF Grows
<1> QED  BY <1>3, <1>4

\* The invariants of the earlier modules.
LEMMA AllNext ==
  ASSUME AllInv, [Next]_vars
  PROVE  AllInv'
BY NextDed, NextChart, AgendaNext DEF AllInv

\* No step of the parser loses anything.
LEMMA NextGrows ==
  ASSUME AllInv, GoalsAim, [Next]_vars
  PROVE  Grows
<1>1. CASE Add
  BY <1>1, AllNext, AddGrows
<1>2. CASE InitHead
  BY <1>2, InitHeadGrows
<1>3. CASE MoveUp \/ Completer \/ NextList \/ UNCHANGED vars
  BY <1>3, GrowsQuiet DEF MoveUp, Completer, NextList, vars
<1> QED  BY <1>1, <1>2, <1>3 DEF Next

Wants == {{"item"}, {"goal", "item"}}

\* A state that stands for one that is wanted is wanted.
LEMMA StandsForWanted ==
  ASSUME NEW T \in Wants, NEW s, NEW t, NEW f, StandsFor(s, t), Like(t, f)
  PROVE  Like(s, f) /\ (t.type \in T => s.type \in T)
<1>1. Like(s, f)
  BY DEF StandsFor, Like
<1>2. t.type \in T => s.type \in T
  BY DEF StandsFor, Wants
<1> QED  BY <1>1, <1>2

\* The types and goals of the states.
LEMMA TypesAre ==
  ASSUME AllInv
  PROVE  /\ \A p \in Ids : states[p].type \in AnyType /\ states[p].g \in Ids \cup {0}
         /\ \A r \in todo : r.t.type \in AnyType /\ r.t.g \in Ids \cup {0} /\ r.t \in State
         /\ Ids \subseteq Nat \ {0} /\ Len(states) \in Nat /\ Ids = 1 .. Len(states)
<1>1. /\ Len(states) \in Nat /\ Ids = 1 .. Len(states)
      /\ \A p \in Ids : states[p] \in State /\ states[p].g \in 0 .. Len(states)
  BY StatesOK DEF AllInv, DeductionInv
<1>2. \A r \in todo : r.t \in State /\ r.t.g \in 0 .. Len(states)
  BY DEF AllInv, DeductionInv, Inv, Inductive, TypeOK, Bounded
<1> QED  BY <1>1, <1>2 DEF State, AnyType

\* The spans of the goals are numbers, and stay what they are.
LEMMA SpansAre ==
  ASSUME AllInv, NEW g \in Ids
  PROVE  /\ states[g].i \in Int /\ states[g].j \in Int
         /\ Grows => states'[g].i = states[g].i /\ states'[g].j = states[g].j
<1>1. states[g] \in State
  BY StatesOK DEF AllInv, DeductionInv
<1> QED  BY <1>1, GrowsFields DEF State

\* A goal is as wide as itself.
LEMMA WideRefl ==
  ASSUME AllInv, NEW g \in Ids
  PROVE  Wide(g, g)
<1>1. g # 0 /\ states[g].i \in Int /\ states[g].j \in Int
  BY SpansAre, TypesAre
<1> QED  BY <1>1 DEF Wide, AsWide

LEMMA AsWideTrans ==
  ASSUME NEW st, NEW a, NEW b, NEW c, AsWide(st, a, b), AsWide(st, b, c),
         \A x \in {a, b, c} : st[x].i \in Int /\ st[x].j \in Int
  PROVE  AsWide(st, a, c)
BY DEF AsWide

\* What is as wide as a goal stays so.
LEMMA WideKept ==
  ASSUME AllInv, Grows, NEW q \in Ids \cup {0}, NEW g \in Ids
  PROVE  Wide(q, g)' <=> Wide(q, g)
<1>1. CASE q = 0
  BY <1>1 DEF Wide, AsWide
<1>2. CASE q \in Ids
  BY <1>2, SpansAre DEF Wide, AsWide
<1> QED  BY <1>1, <1>2

\* A state that is out of its goal stays so.
LEMMA OutOfGoalKept ==
  ASSUME Grows, NEW t, t.g \in Ids \cup {0}
  PROVE  OutOfGoal(t)' <=> OutOfGoal(t)
<1>1. CASE t.g = 0
  BY <1>1 DEF OutOfGoal
<1>2. CASE t.g \in Ids
  BY <1>2, GrowsFields DEF OutOfGoal
<1> QED  BY <1>1, <1>2

\* A call of hparse_add that is made takes its state.
LEMMA TakenUp ==
  ASSUME AllInv, GoalsAim, [Next]_vars, NEW q \in todo, q \notin todo', ~ OutOfGoal(q.t)
  PROVE  Taken(q.t)
<1>1. Add
  BY DEF Next, InitHead, MoveUp, Completer, NextList, Current, vars
<1>2. Added(q.t)
  BY <1>1, AllNext, AddGrows
<1> QED  BY <1>2 DEF Added

\* What has arrived, or is about to, does not get lost.
LEMMA ArrivesKept ==
  ASSUME AllInv, GoalsAim, [Next]_vars, NEW f, Arrives(f)
  PROVE  Arrives(f)'
<1>1. Grows /\ AllInv'
  BY NextGrows, AllNext
<1>3. CASE \E d \in Ids : Like(states[d], f)
  <2>1. PICK d \in Ids : Like(states[d], f)
    BY <1>3
  <2>2. d \in Ids' /\ StandsFor(states'[d], states[d])
    BY <1>1 DEF Grows
  <2>3. Like(states'[d], f)
    BY <2>1, <2>2 DEF StandsFor, Like
  <2> QED  BY <2>2, <2>3 DEF Arrives, Like
<1>4. CASE \E r \in todo : Like(r.t, f) /\ ~ OutOfGoal(r.t)
  <2>1. PICK q \in todo : Like(q.t, f) /\ ~ OutOfGoal(q.t)
    BY <1>4
  <2>2. ~ OutOfGoal(q.t)'
    BY <1>1, <2>1, OutOfGoalKept, TypesAre
  <2>3. CASE q \in todo'
    BY <2>1, <2>2, <2>3 DEF Arrives, Like, OutOfGoal
  <2>4. CASE q \notin todo'
    <3>1. PICK d \in Ids' : StandsFor(states'[d], q.t)
      BY <2>1, <2>4, TakenUp DEF Taken
    <3>2. Like(states'[d], f)
      BY <2>1, <3>1 DEF StandsFor, Like
    <3> QED  BY <3>2 DEF Arrives, Like
  <2> QED  BY <2>3, <2>4
<1> QED  BY <1>3, <1>4 DEF Arrives

\* The same for what comes for a goal.
LEMMA ComesKept ==
  ASSUME AllInv, GoalsAim, [Next]_vars, NEW T \in Wants, NEW f, NEW g \in Ids, Comes(T, f, g)
  PROVE  Comes(T, f, g)'
<1>1. Grows /\ AllInv' /\ g \in Ids'
  BY NextGrows, AllNext DEF Grows
<1>2. ASSUME NEW d \in Ids', states'[d].type \in T, Like(states'[d], f), Wide(states[d].g, g)'
      PROVE  Comes(T, f, g)'
  BY <1>2 DEF Comes, Like, Wide
<1>3. CASE \E d \in Ids : states[d].type \in T /\ Like(states[d], f) /\ Wide(states[d].g, g)
  <2>1. PICK d \in Ids : states[d].type \in T /\ Like(states[d], f) /\ Wide(states[d].g, g)
    BY <1>3
  <2>2. d \in Ids' /\ StandsFor(states'[d], states[d]) /\ states'[d].g = states[d].g
    BY <1>1, <2>1 DEF Grows, Wants
  <2>3. states'[d].type \in T /\ Like(states'[d], f)
    BY <2>1, <2>2, StandsForWanted
  <2>4. states[d].g \in Ids \cup {0}
    BY TypesAre
  <2>5. PICK q : q = states[d].g
    OBVIOUS
  <2>6. Wide(q, g)'
    BY <1>1, <2>1, <2>4, <2>5, WideKept
  <2>7. Wide(states[d].g, g)'
    BY <2>2, <2>5, <2>6 DEF Wide
  <2> QED  BY <1>2, <2>2, <2>3, <2>7
<1>4. CASE \E r \in todo : /\ r.t.type \in T /\ Like(r.t, f) /\ ~ OutOfGoal(r.t)
                           /\ Wide(r.t.g, g)
  <2>1. PICK q \in todo : /\ q.t.type \in T /\ Like(q.t, f) /\ ~ OutOfGoal(q.t)
                           /\ Wide(q.t.g, g)
    BY <1>4
  <2>2. q.t.g \in Ids
    BY <2>1, TypesAre DEF Wide, AsWide
  <2>3. ~ OutOfGoal(q.t)' /\ Wide(q.t.g, g)'
    BY <1>1, <2>1, <2>2, OutOfGoalKept, WideKept
  <2>4. CASE q \in todo'
    BY <2>1, <2>3, <2>4 DEF Comes, Like, OutOfGoal, Wide
  <2>5. CASE q \notin todo'
    <3>1. PICK d \in Ids' : StandsFor(states'[d], q.t) /\ (q.t.g # 0 => Wide(states[d].g, q.t.g)')
      BY <2>1, <2>5, TakenUp DEF Taken
    <3>2. states'[d].type \in T /\ Like(states'[d], f)
      BY <2>1, <3>1, StandsForWanted
    <3>3. Wide(states[d].g, q.t.g)' /\ q.t.g \in Ids'
      BY <1>1, <2>2, <3>1, TypesAre DEF Grows
    <3>4. states'[d].g \in Ids'
      BY SMTT(30), <1>1, <3>3 DEF Wide, AsWide, AllInv, DeductionInv, Inv, Inductive, TypeOK, Bounded, Ids
    <3>5. \A x \in Ids' : states'[x].i \in Int /\ states'[x].j \in Int
      BY <1>1 DEF AllInv, DeductionInv, Inv, Inductive, TypeOK, Bounded, State
    <3>6. AsWide(states', states'[d].g, q.t.g) /\ AsWide(states', q.t.g, g)
      BY <2>3, <3>3 DEF Wide
    <3>7. AsWide(states', states'[d].g, g)
      BY <1>1, <3>3, <3>4, <3>5, <3>6, AsWideTrans
    <3>8. Wide(states[d].g, g)'
      BY <3>7 DEF Wide
    <3> QED  BY <1>2, <3>2, <3>8
  <2> QED  BY <2>4, <2>5
<1> QED  BY <1>3, <1>4 DEF Comes

-----------------------------------------------------------------------------
(* How far the handlers have come.                                         *)

MoveMark == First + (IF stage = "complete" THEN idx ELSE idx - 1)
DoneMark == First + idx - 1

\* The states behind the marks, by their numbers.
LEMMA MarksAre ==
  ASSUME AllInv
  PROVE  /\ Ids = 1 .. Len(states) /\ Len(states) \in Nat /\ First \in Int /\ idx \in Int
         /\ Len(plist) \in Nat /\ Len(nlist) \in Nat
         /\ First = Len(states) + 1 - Len(plist) - Len(nlist)
         /\ MoveMark \in Int /\ DoneMark \in Int
         /\ MoveMark <= Len(states) + 1 /\ DoneMark <= Len(states) + 1
         /\ Moved = {p \in Ids : p < MoveMark} /\ Finished = {p \in Ids : p < DoneMark}
         /\ Current => plist[idx] \in Ids /\ plist[idx] = DoneMark
<1>1. Inv /\ OnLists /\ InPlace
  BY DEF AllInv, AgendaInv, DeductionInv
<1>2. /\ Len(states) \in Nat /\ Ids = 1 .. Len(states) /\ First \in Int
      /\ Len(plist) \in Nat /\ DOMAIN plist = 1 .. Len(plist)
      /\ Len(nlist) \in Nat /\ idx \in 1 .. Len(plist) + 1 /\ plist \in Seq(Ids)
  BY <1>1, AgendaTypes
<1>3. MoveMark \in Int /\ DoneMark \in Int
  BY <1>2 DEF MoveMark, DoneMark
<1>4. MoveMark <= Len(states) + 1 /\ DoneMark <= Len(states) + 1
  BY <1>1, <1>2 DEF MoveMark, DoneMark, First, InPlace
<1>5. Current => plist[idx] \in Ids /\ plist[idx] = DoneMark
  BY <1>1, <1>2 DEF Current, OnLists, DoneMark
<1> QED  BY <1>2, <1>3, <1>4, <1>5 DEF First, Moved, Finished, MoveMark, DoneMark

\* A step that leaves the marks where they are.
LEMMA MarksStay ==
  ASSUME AllInv, AllInv', Ids \subseteq Ids',
         \A p \in Ids' \ Ids : p = Len(states) + 1,
         MoveMark' = MoveMark \/ DoneMark' = DoneMark
  PROVE  /\ MoveMark' = MoveMark => Moved' = Moved
         /\ DoneMark' = DoneMark => Finished' = Finished
<1>1. /\ MoveMark \in Int /\ DoneMark \in Int /\ Ids \subseteq Nat /\ Len(states) \in Nat
      /\ MoveMark <= Len(states) + 1 /\ DoneMark <= Len(states) + 1
      /\ Moved = {p \in Ids : p < MoveMark} /\ Finished = {p \in Ids : p < DoneMark}
  BY MarksAre
<1>2. /\ Moved' = {p \in Ids' : p < MoveMark'} /\ Finished' = {p \in Ids' : p < DoneMark'}
  BY DEF Moved, Finished, MoveMark, DoneMark
<1>3. \A p \in Ids' : p \notin Ids => ~ (p < MoveMark) /\ ~ (p < DoneMark)
  BY <1>1
<1> QED  BY <1>1, <1>2, <1>3

\* A step moves a mark by at most one state, the one that its handler is on.
LEMMA MarksNext ==
  ASSUME AllInv, GoalsAim, [Next]_vars
  PROVE  /\ Moved' = Moved \/ (MoveUp /\ Moved' = Moved \cup {plist[idx]} /\ plist[idx] \in Ids)
         /\ Finished' = Finished
              \/ (Completer /\ Finished' = Finished \cup {plist[idx]} /\ plist[idx] \in Ids)
<1>1. AllInv'
  BY AllNext
<1>2. /\ Ids = 1 .. Len(states) /\ Len(states) \in Nat /\ First \in Int /\ idx \in Int
      /\ Len(plist) \in Nat /\ Len(nlist) \in Nat
      /\ First = Len(states) + 1 - Len(plist) - Len(nlist)
      /\ MoveMark \in Int /\ DoneMark \in Int
      /\ Moved = {p \in Ids : p < MoveMark} /\ Finished = {p \in Ids : p < DoneMark}
      /\ Current => plist[idx] \in Ids /\ plist[idx] = DoneMark
  BY MarksAre
<1>3. ASSUME Ids' = Ids, MoveMark' = MoveMark, DoneMark' = DoneMark
      PROVE  Moved' = Moved /\ Finished' = Finished
  BY <1>1, <1>3, MarksStay
<1>4. CASE Add
  <2>1. PICK r \in todo : Added(r.t)
    BY <1>1, <1>4, AddGrows
  <2>2. Ids \subseteq Ids' /\ \A p \in Ids' \ Ids : p = Len(states) + 1
    BY <2>1 DEF Added
  <2>3. First' = First
    <3>1. plist' = plist
      BY <1>4 DEF Add
    <3>2. CASE Ids' = Ids
      <4>1. Len(states') = Len(states)
        <5>1. Len(states') \in Nat /\ Ids' = 1 .. Len(states')
          BY <1>1 DEF AllInv, DeductionInv, Inv, Inductive, TypeOK, Ids
        <5> QED  BY <1>2, <3>2, <5>1
      <4>2. nlist' = nlist
        <5>1. PICK q \in todo : hparse_add(q.t)
          BY <1>4 DEF Add
        <5>2. ~ Store(q.t)
          <6>1. SUFFICES ASSUME Store(q.t)
                PROVE  FALSE
            OBVIOUS
          <6>2. Len(states') = Len(states) + 1
            <7>1. states \in Seq(State) /\ q.t \in State
              BY <5>1, StatesOK DEF AllInv, DeductionInv, Inv, Inductive, TypeOK, Bounded
            <7> QED  BY <6>1, <7>1, AppendProperties DEF Store
          <6> QED  BY <1>2, <4>1, <6>2
        <5> QED  BY <5>1, <5>2 DEF hparse_add, Drop, Merge
      <4> QED  BY <3>1, <4>1, <4>2 DEF First
    <3>3. CASE nlist' = Append(nlist, Len(states) + 1) /\ Len(states') = Len(states) + 1
      <4>1. Len(nlist') = Len(nlist) + 1
        <5>1. nlist \in Seq(Ids)
          BY DEF AllInv, DeductionInv, Inv, Inductive, TypeOK
        <5> QED  BY <1>2, <3>3, <5>1
      <4> QED  BY <1>2, <3>1, <3>3, <4>1 DEF First
    <3> QED  BY <2>1, <3>2, <3>3 DEF Added
  <2>4. stage' = stage
    <3>1. stage' = stage \/ stage' = "abort"
      BY <1>4 DEF Add, hparse_add, Drop, Merge, Store
    <3> QED  BY <1>1, <3>1 DEF AllInv, DeductionInv
  <2>5. MoveMark' = MoveMark /\ DoneMark' = DoneMark
    BY <1>4, <2>3, <2>4 DEF MoveMark, DoneMark, Add
  <2> QED  BY <1>1, <2>2, <2>5, MarksStay
<1>5. CASE InitHead
  <2>1. Ids' = Ids
    BY <1>5, InitHeadGrows
  <2>2. Len(states') = Len(states)
    <3>1. Len(states') \in Nat /\ Ids' = 1 .. Len(states')
      BY <1>1 DEF AllInv, DeductionInv, Inv, Inductive, TypeOK, Ids
    <3> QED  BY <1>2, <2>1, <3>1
  <2>3. MoveMark' = MoveMark /\ DoneMark' = DoneMark
    BY <1>5, <2>2 DEF InitHead, MoveMark, DoneMark, First
  <2> QED  BY <1>3, <2>1, <2>3
<1>6. CASE MoveUp
  <2>1. Ids' = Ids /\ First' = First
    BY <1>6 DEF MoveUp, Ids, First
  <2>2. /\ plist[idx] \in Ids /\ plist[idx] = DoneMark
        /\ DoneMark' = DoneMark /\ MoveMark = DoneMark /\ MoveMark' = DoneMark + 1
    BY <1>2, <1>6, <2>1 DEF MoveUp, MoveMark, DoneMark
  <2>3. Moved' = {p \in Ids : p < DoneMark + 1}
    BY <2>1, <2>2 DEF Moved, MoveMark
  <2>4. Moved' = Moved \cup {plist[idx]}
    BY <1>2, <2>2, <2>3
  <2>5. Finished' = Finished
    BY <1>1, <2>1, <2>2, MarksStay
  <2> QED  BY <1>6, <2>2, <2>4, <2>5
<1>7. CASE Completer
  <2>1. Ids' = Ids /\ First' = First
    BY <1>7 DEF Completer, Ids, First
  <2>2. /\ plist[idx] \in Ids /\ plist[idx] = DoneMark
        /\ DoneMark' = DoneMark + 1 /\ MoveMark' = MoveMark
    BY <1>2, <1>7, <2>1 DEF Completer, MoveMark, DoneMark
  <2>3. Finished' = {p \in Ids : p < DoneMark + 1}
    BY <2>1, <2>2 DEF Finished, DoneMark
  <2>4. Finished' = Finished \cup {plist[idx]}
    BY <1>2, <2>2, <2>3
  <2>5. Moved' = Moved
    BY <1>1, <2>1, <2>2, MarksStay
  <2> QED  BY <1>7, <2>2, <2>4, <2>5
<1>8. CASE NextList
  <2>1. Ids' = Ids /\ Len(states') = Len(states)
    BY <1>8 DEF NextList, Ids
  <2>2. idx = Len(plist) + 1
    <3>1. idx \in 1 .. Len(plist) + 1
      BY DEF AllInv, DeductionInv, Inv, Inductive, TypeOK
    <3> QED  BY <1>2, <1>8, <3>1 DEF NextList
  <2>3. First' = Len(states) + 1 - Len(nlist)
    <3>1. First' = Len(states) + 1 - Len(nlist) - Len(<<>>)
      BY <1>8 DEF NextList, First
    <3> QED  BY <1>2, <3>1
  <2>4. MoveMark' = MoveMark /\ DoneMark' = DoneMark
    BY <1>2, <1>8, <2>2, <2>3 DEF NextList, MoveMark, DoneMark
  <2> QED  BY <1>3, <2>1, <2>4
<1>9. CASE UNCHANGED vars
  BY <1>9 DEF vars, Moved, Finished, First, Ids
<1> QED  BY <1>4, <1>5, <1>6, <1>7, <1>8, <1>9 DEF Next

\* What is newly at work, newly begun.
LEMMA NewlyAtWork ==
  ASSUME AllInv, GoalsAim, [Next]_vars
  PROVE  /\ Working' \cap Ids = Working
         /\ \A p \in Begun' \ Begun : InitHead /\ p = plist[idx] /\ p \in Ids /\ states[p].type = "init"
<1>1. Grows /\ AllInv'
  BY NextGrows, AllNext
<1>2. /\ \A p \in Ids : states[p].type \in AnyType /\ states[p].g \in Ids \cup {0}
      /\ Ids \subseteq Nat \ {0} /\ Len(states) \in Nat /\ Ids = 1 .. Len(states)
      /\ \A r \in todo : r.t.g \in Ids \cup {0}
  BY TypesAre
<1>3. ASSUME NEW p \in Ids
      PROVE  p \in Working' <=> p \in Working
  <2>1. /\ p \in Ids' /\ (states'[p].type = "item" <=> states[p].type = "item")
        /\ states[p].type # "init" => states'[p].g = states[p].g
    BY <1>1, GrowsFields
  <2> QED  BY <2>1 DEF Working, ItemIds
<1>4. ASSUME NEW p \in Begun', p \notin Begun
      PROVE  InitHead /\ p = plist[idx] /\ p \in Ids /\ states[p].type = "init"
  <2>1. p \in Ids' /\ states'[p].type = "goal" /\ states'[p].g \in {0, p}
    BY <1>4 DEF Begun
  <2>2. p \in Ids
    <3>1. SUFFICES ASSUME p \notin Ids
          PROVE  FALSE
      OBVIOUS
    <3>2. Add
      BY <2>1, <3>1, InitHeadGrows DEF Next, MoveUp, Completer, NextList, Ids, vars
    <3>3. PICK r \in todo : Added(r.t)
      BY <1>1, <3>2, AddGrows
    <3>4. p = Len(states) + 1 /\ states'[p] = r.t
      BY <2>1, <3>1, <3>3 DEF Added
    <3>5. r.t.g # 0
      BY <2>1, <3>4 DEF GoalsAim
    <3> QED  BY <1>2, <2>1, <3>4, <3>5
  <2>3. states[p].type = "init"
    <3>1. SUFFICES ASSUME states[p].type # "init"
          PROVE  FALSE
      OBVIOUS
    <3>2. states[p].g = states'[p].g /\ states[p].type # "item"
      BY <1>1, <2>1, <2>2, <3>1, GrowsFields
    <3>3. states[p].type = "goal"
      BY <1>2, <2>2, <3>1, <3>2 DEF AnyType
    <3> QED  BY <1>4, <2>1, <2>2, <3>2, <3>3 DEF Begun
  <2>4. InitHead
    <3>1. states' # states
      BY <2>1, <2>3
    <3>2. ~ Add
      <4>1. SUFFICES ASSUME Add
            PROVE  FALSE
        OBVIOUS
      <4>2. PICK r \in todo : hparse_add(r.t)
        BY <4>1 DEF Add
      <4>3. states'[p].type = states[p].type
        <5>0. Inv /\ states \in Seq(State) /\ DOMAIN states = Ids /\ Sound(hand, states, r.t) /\ r.t \in State
              /\ Bounded(hand, states, r.t) /\ Len(states) \in Nat
          BY <4>2, StatesOK DEF AllInv, DeductionInv, Inv, Inductive, TypeOK, Bounded, Ids, Sound
        <5>1. CASE Drop(r.t)
          BY <5>1 DEF Drop
        <5>2. CASE CheckHeap(r.t) # 0 /\ Merge(CheckHeap(r.t), r.t)
          <6>1. CheckHeap(r.t) \in Ids
            BY <5>0, <5>2, CheckHeapIn
          <6>2. states' = states \/ \E ptrs : states' = Merged(CheckHeap(r.t), ptrs)
            BY <5>0, <5>2, <6>1, MergeIs
          <6> QED  BY <2>2, <5>0, <6>1, <6>2, MergedFields
        <5>3. CASE Store(r.t)
          <6>1. states' = Append(states, r.t)
            BY <5>3 DEF Store
          <6> QED  BY <1>2, <2>2, <5>0, <6>1, AppendProperties
        <5> QED  BY SMTT(30), <4>2, <5>1, <5>2, <5>3 DEF hparse_add
      <4> QED  BY <2>1, <2>3, <4>3
    <3> QED  BY <3>1, <3>2 DEF Next, MoveUp, Completer, NextList, vars
  <2>5. p = plist[idx]
    <3>1. SUFFICES ASSUME p # plist[idx]
          PROVE  FALSE
      OBVIOUS
    <3> DEFINE q == plist[idx]
               g == IF hand.kind[hand.head[states[q].n]] = "subst" /\ OwnGoal(q, hand.head[states[q].n])
                    THEN q ELSE states[q].g
    <3>2. q \in Ids /\ states \in Seq(State) /\ DOMAIN states = Ids
      BY <2>4, ListPlace, StatesOK DEF InitHead, AllInv, DeductionInv, Ids
    <3>3. states' = states \/ states' = Retyped(q, g)
      BY <2>4 DEF InitHead, Retyped
    <3> HIDE DEF g, q
    <3>4. states'[p].type = states[p].type
      BY <2>2, <3>1, <3>2, <3>3, RetypedFields DEF q
    <3> QED  BY <2>1, <2>3, <3>4
  <2> QED  BY <2>2, <2>3, <2>4, <2>5
<1> QED  BY <1>3, <1>4 DEF Working, ItemIds

-----------------------------------------------------------------------------
(* What the handlers find and what their calls bring.                      *)

\* The fields of a fact without words.
LEMMA SpotFields ==
  ASSUME NEW n, NEW pos, NEW i, NEW j, NEW fl, NEW fr
  PROVE  LET f == Spot(n, pos, i, j, fl, fr)
         IN f.n = n /\ f.pos = pos /\ f.i = i /\ f.j = j /\ f.fl = fl /\ f.fr = fr
BY DEF Spot, D!Fact

\* A state is in the heap of its span.
LEMMA InCell ==
  ASSUME AllInv, NEW x \in Ids
  PROVE  \E k \in DOMAIN CellOf(states[x].i, states[x].j) :
           CellOf(states[x].i, states[x].j)[k] = x
BY DEF AllInv, ChartInv, Indexed, CellOf

\* hp_state_exists finds the item for a finished subtree if there is one.
LEMMA ExistsIffFound ==
  ASSUME AllInv, NEW i \in 0 .. hand.last + 1, NEW j \in 0 .. hand.last + 1,
         NEW n, NEW fl, NEW fr
  PROVE  StateExists(i, j, n, fl, fr) # 0 <=> Found(Spot(n, "top", i, j, fl, fr))
<1> DEFINE cell == CellOf(i, j)
           places == {p \in DOMAIN cell :
                      LET s == states[cell[p]]
                      IN /\ s.n = n /\ s.pos = "top" /\ s.type = "item"
                         /\ s.fl = fl /\ s.fr = fr}
           w == Spot(n, "top", i, j, fl, fr)
<1>1. Inv /\ 0 \notin Ids
  BY TypesAre DEF AllInv, DeductionInv
<1>2. w.n = n /\ w.pos = "top" /\ w.i = i /\ w.j = j /\ w.fl = fl /\ w.fr = fr
  BY SpotFields
<1> HIDE DEF w
<1>3. ASSUME StateExists(i, j, n, fl, fr) # 0
      PROVE  Found(w)
  <2>1. LET q == StateExists(i, j, n, fl, fr)
        IN /\ q \in Ids /\ states[q].type = "item" /\ states[q].pos = "top" /\ states[q].n = n
           /\ states[q].i = i /\ states[q].j = j /\ states[q].fl = fl /\ states[q].fr = fr
    BY <1>1, <1>3, StateExistsIn
  <2> QED  BY <1>2, <2>1 DEF Found, ItemIds, Like
<1>4. ASSUME Found(w)
      PROVE  StateExists(i, j, n, fl, fr) # 0
  <2>1. PICK q \in ItemIds : Like(states[q], w)
    BY <1>4 DEF Found
  <2>2. /\ states[q].i = i /\ states[q].j = j /\ states[q].n = n /\ states[q].pos = "top"
        /\ states[q].fl = fl /\ states[q].fr = fr /\ states[q].type = "item" /\ q \in Ids
    BY <1>2, <2>1 DEF Like, ItemIds
  <2>3. PICK k \in DOMAIN cell : cell[k] = q
    BY <2>2, InCell
  <2>4. k \in places
    BY <2>2, <2>3
  <2>5. \A p \in places : cell[p] \in Ids /\ p \in Nat
    BY <1>1, CellIn
  <2>6. StateExists(i, j, n, fl, fr) = FirstOf(cell, places)
    BY DEF StateExists
  <2>7. places \subseteq Nat
    BY <2>5
  <2> HIDE DEF places
  <2>8. PICK p \in places : FirstOf(cell, places) = cell[p]
    BY <2>4, <2>7, FirstOfIn
  <2> QED  BY <1>1, <2>5, <2>6, <2>8
<1> QED  BY <1>3, <1>4 DEF w

\* A call that hparse_add will not drop.
LEMMA CallStays ==
  ASSUME AllInv, AllInv', Grows, NEW f, NEW r \in todo', Like(r.t, f),
         \/ r.t.g = 0
         \/ r.t.g \in Ids /\ states[r.t.g].i <= f.i /\ f.j <= states[r.t.g].j
  PROVE  ~ OutOfGoal(r.t)'
<1>1. r.t \in State
  BY DEF AllInv, DeductionInv, Inv, Inductive, TypeOK, Bounded
<1>2. ~ OutOfGoal(r.t)'
  <2>1. CASE r.t.g = 0
    BY <2>1 DEF OutOfGoal
  <2>2. CASE r.t.g \in Ids /\ states[r.t.g].i <= f.i /\ f.j <= states[r.t.g].j
    <3>1. states'[r.t.g].i = states[r.t.g].i /\ states'[r.t.g].j = states[r.t.g].j
      BY <2>2, GrowsFields
    <3>2. states[r.t.g].i \in Int /\ states[r.t.g].j \in Int /\ f.i \in Int /\ f.j \in Int
      <4>1. states[r.t.g] \in State
        BY <2>2, StatesOK DEF AllInv, DeductionInv
      <4>2. f.i = r.t.i /\ f.j = r.t.j
        BY DEF Like
      <4> QED  BY <1>1, <4>1, <4>2 DEF State
    <3>3. f.i = r.t.i /\ f.j = r.t.j
      BY DEF Like
    <3> QED  BY <2>2, <3>1, <3>2, <3>3 DEF OutOfGoal
  <2> QED  BY <2>1, <2>2
<1> QED  BY <1>2

\* It brings its state.
LEMMA CallArrives ==
  ASSUME AllInv, AllInv', Grows, NEW f, NEW r \in todo', Like(r.t, f),
         \/ r.t.g = 0
         \/ r.t.g \in Ids /\ states[r.t.g].i <= f.i /\ f.j <= states[r.t.g].j
  PROVE  Arrives(f)'
<1>1. ~ OutOfGoal(r.t)'
  BY CallStays
<1> QED  BY <1>1 DEF Arrives, Like, OutOfGoal

\* And that for a goal with as much room.
LEMMA CallComes ==
  ASSUME AllInv, AllInv', Grows, NEW T, NEW f, NEW r \in todo', NEW g \in Ids,
         r.t.type \in T, Like(r.t, f), r.t.g \in Ids, Wide(r.t.g, g),
         states[r.t.g].i <= f.i, f.j <= states[r.t.g].j
  PROVE  Comes(T, f, g)'
<1>1. ~ OutOfGoal(r.t)'
  BY CallStays
<1>2. Wide(r.t.g, g)'
  BY WideKept
<1> QED  BY <1>1, <1>2 DEF Comes, Like, OutOfGoal, Wide

\* What is in the chart arrives.
LEMMA FoundArrives ==
  ASSUME Grows, NEW f, Found(f)
  PROVE  Arrives(f)'
<1>1. PICK q \in ItemIds : Like(states[q], f)
  BY DEF Found
<1>2. q \in Ids /\ states[q].type = "item"
  BY DEF ItemIds
<1>3. q \in Ids' /\ states'[q].type = "item" /\ Like(states'[q], states[q])
  BY <1>2, GrowsFields
<1>4. Like(states'[q], f)
  BY <1>1, <1>3 DEF Like
<1> QED  BY <1>3, <1>4 DEF Arrives, Like

\* Which of the finished states the step before may have held already.
LEMMA FinishedBefore ==
  ASSUME AllInv, GoalsAim, [Next]_vars, NEW w, NEW q \in (Working \cap Finished)',
         Like(states'[q], w)
  PROVE  /\ q \in Working /\ Like(states[q], w)
         /\ q \in Finished \/ (Completer /\ q = plist[idx])
<1>1. Grows /\ AllInv'
  BY NextGrows, AllNext
<1>2. Finished' = Finished
       \/ (Completer /\ Finished' = Finished \cup {plist[idx]} /\ plist[idx] \in Ids)
  BY MarksNext
<1>3. q \in Working' /\ q \in Finished'
  OBVIOUS
<1>4. q \in Ids
  BY <1>2, <1>3 DEF Finished
<1>5. q \in Working
  BY <1>3, <1>4, NewlyAtWork
<1>6. Like(states'[q], states[q])
  BY <1>1, <1>4, GrowsFields
<1> QED  BY <1>2, <1>3, <1>5, <1>6 DEF Like

\* A subtree is served when the conclusion is made at once, or is asked for.
LEMMA ServedNew ==
  ASSUME AllInv, GoalsAim, [Next]_vars, NEW w, NEW f, NEW g,
         Arrives(w)', Found(w) => Comes({"item"}, f, g)'
  PROVE  Served(w, f, g)'
<1> SUFFICES ASSUME NEW q \in (Working \cap Finished)', Like(states[q], w)'
             PROVE  Comes({"item"}, f, g)'
  BY DEF Served
<1>1. Like(states'[q], w)
  BY DEF Like
<1>2. q \in Working /\ Like(states[q], w)
  BY <1>1, FinishedBefore
<1> QED  BY <1>2 DEF Found, Working

\* It stays so, as long as the completer serves it.
LEMMA ServedKept ==
  ASSUME AllInv, GoalsAim, [Next]_vars, NEW w, NEW f, NEW g \in Ids, Served(w, f, g),
         Completer /\ plist[idx] \in Working /\ Like(states[plist[idx]], w)
           => Comes({"item"}, f, g)'
  PROVE  Served(w, f, g)'
<1>1. Arrives(w)'
  BY ArrivesKept DEF Served
<1> SUFFICES ASSUME NEW q \in (Working \cap Finished)', Like(states[q], w)'
             PROVE  Comes({"item"}, f, g)'
  BY <1>1 DEF Served
<1>2. Like(states'[q], w)
  BY DEF Like
<1>3. /\ q \in Working /\ Like(states[q], w)
      /\ q \in Finished \/ (Completer /\ q = plist[idx])
  BY <1>2, FinishedBefore
<1>4. CASE q \in Finished
  <2>1. Comes({"item"}, f, g)
    BY <1>3, <1>4 DEF Served
  <2> QED  BY <2>1, ComesKept DEF Wants
<1>5. CASE Completer /\ q = plist[idx]
  BY <1>3, <1>5
<1> QED  BY <1>3, <1>4, <1>5

-----------------------------------------------------------------------------
(* hparse_init_head.                                                       *)

\* The axioms: words, nothing, and feet.
LEMMA AxiomsAre ==
  ASSUME hand \in Hands, NEW f \in D!Axioms(hand)
  PROVE  /\ f.n \in hand.nodes
         /\ \/ /\ <<f.i, f.n>> \in hand.lexed /\ hand.kind[f.n] \in {"anchor", "terminal"}
               /\ f.pos = "bot" /\ f.i \in Int /\ f.j = f.i + 1 /\ f.fl = ef /\ f.fr = ef
            \/ /\ D!EmptyAt(hand, f.n) /\ f.pos = "top" /\ f.i \in Int /\ f.i = f.j /\ f.fl = ef /\ f.fr = ef
            \/ /\ hand.kind[f.n] = "foot" /\ f.pos = "bot" /\ f.i = f.fl /\ f.j = f.fr
               /\ f.fl # ef
<1>1. TablesOK(hand) /\ hand.last \in Nat
  BY HandOK
<1>2. CASE \E x \in hand.lexed :
             f = D!Fact(x[2], "bot", x[1], x[1] + 1, D!noFoot, D!noFoot, <<x[1]>>)
  <2>1. PICK x \in hand.lexed :
             f = D!Fact(x[2], "bot", x[1], x[1] + 1, D!noFoot, D!noFoot, <<x[1]>>)
    BY <1>2
  <2>2. /\ x = <<x[1], x[2]>> /\ x[1] \in Int /\ x[2] \in hand.nodes
        /\ hand.kind[x[2]] \in {"anchor", "terminal"}
    BY <1>1 DEF TablesOK
  <2> QED  BY <2>1, <2>2 DEF D!Fact, D!noFoot, ef
<1>3. CASE \E n \in {m \in hand.nodes : D!EmptyAt(hand, m)} : \E i \in D!Places(hand) :
             f = D!Fact(n, "top", i, i, D!noFoot, D!noFoot, <<>>)
  BY <1>1, <1>3 DEF D!Fact, D!noFoot, D!Places, ef
<1>4. CASE \E n \in {m \in hand.nodes : hand.kind[m] = "foot"} :
             \E v \in {u \in D!Places(hand) \X D!Places(hand) : u[1] <= u[2]} :
               f = D!Fact(n, "bot", v[1], v[2], v[1], v[2], <<>>)
  <2>1. PICK n \in {m \in hand.nodes : hand.kind[m] = "foot"} :
             \E v \in {u \in D!Places(hand) \X D!Places(hand) : u[1] <= u[2]} :
               f = D!Fact(n, "bot", v[1], v[2], v[1], v[2], <<>>)
    BY <1>4
  <2>2. PICK v \in D!Places(hand) \X D!Places(hand) :
               f = D!Fact(n, "bot", v[1], v[2], v[1], v[2], <<>>)
    BY <2>1
  <2>3. v[1] \in 0 .. hand.last
    BY <2>2 DEF D!Places
  <2>4. v[1] # ef
    BY <1>1, <2>3 DEF ef
  <2> QED  BY <2>1, <2>2, <2>4 DEF D!Fact
<1> QED  BY <1>2, <1>3, <1>4 DEF D!Axioms

\* The leaf that a prediction starts at is the one hparse_init_head takes up.
LEMMA StartIs ==
  ASSUME hand \in Hands, NEW n \in hand.nodes, NEW m, m = Start(n)
  PROVE  LET hc == hand.head[n]
         IN /\ m \in hand.nodes /\ hc \in hand.nodes
            /\ hand.kind[m] \in {"anchor", "terminal", "foot"} => m = hc /\ hand.kind[hc] = hand.kind[m]
            /\ D!EmptyAt(hand, m) =>
                 \/ /\ hand.kind[hc] \in {"anchor", "terminal"} /\ m = hc
                    /\ hand.pref.epsTrees /\ hc \in hand.eps
                 \/ hand.kind[hc] = "eps" /\ m = (IF hand.pref.epsAdjoin THEN hc ELSE n)
<1> DEFINE hc == hand.head[n]
<1>1. /\ hc \in hand.nodes /\ hand.head[hc] = hc
      /\ hand.kind[n] # "internal" => hc = n
  BY NodeFacts
<1>2. m = IF hand.kind[hc] = "eps" /\ ~hand.pref.epsAdjoin THEN n ELSE hc
  BY DEF Start
<1>3. \A k \in hand.nodes : k \in hand.eps => hand.kind[k] \in {"anchor", "terminal"}
  BY NodeFacts
<1>4. D!AllEps(hand, m) => hand.kind[hc] = "eps"
  <2>1. m \in hand.nodes /\ hand.head[m] = hc
    BY <1>1, <1>2
  <2> QED  BY <2>1, EpsilonAssumption
<1> HIDE DEF hc
<1>5. hand.kind[m] \in {"anchor", "terminal", "foot"} => m = hc /\ hand.kind[hc] = hand.kind[m]
  BY <1>1, <1>2
<1>6. ASSUME D!EmptyAt(hand, m)
      PROVE  \/ /\ hand.kind[hc] \in {"anchor", "terminal"} /\ m = hc
                /\ hand.pref.epsTrees /\ hc \in hand.eps
             \/ hand.kind[hc] = "eps" /\ m = (IF hand.pref.epsAdjoin THEN hc ELSE n)
  <2>1. CASE hand.pref.epsTrees /\ m \in hand.eps
    <3>1. m \in hand.nodes
      BY <1>1, <1>2
    <3>2. hand.kind[m] \in {"anchor", "terminal"}
      BY <1>3, <2>1, <3>1
    <3> QED  BY <1>5, <2>1, <3>2
  <2>2. CASE hand.pref.epsAdjoin /\ hand.kind[m] = "eps"
    BY <1>2, <2>2
  <2>3. CASE ~hand.pref.epsAdjoin /\ D!AllEps(hand, m)
    BY <1>2, <1>4, <2>3
  <2> QED  BY <1>6, <2>1, <2>2, <2>3 DEF D!EmptyAt
<1> QED  BY <1>1, <1>2, <1>5, <1>6 DEF hc

\* The state hparse_init_head runs on.
LEMMA HeadStep ==
  ASSUME AllInv, GoalsAim, InitHead, NEW p, p = plist[idx], states[p].type = "init"
  PROVE  /\ AllInv' /\ Grows /\ p \in Ids /\ p \in Nat \ {0} /\ hand \in Hands /\ hand' = hand
         /\ states[p].n \in hand.nodes /\ todo' = HeadCalls(p) /\ [Next]_vars
         /\ states'[p].n = states[p].n /\ states'[p].i = states[p].i /\ states'[p].j = states[p].j
         /\ states'[p].fl = states[p].fl /\ states'[p].fr = states[p].fr
         /\ states[p].i \in 0 .. hand.last /\ states[p].j \in 0 .. hand.last + 1 /\ hand.last \in Nat
         /\ states'[p].type = "goal"
<1>1. [Next]_vars
  BY DEF Next
<1>2. AllInv' /\ Grows
  BY <1>1, AllNext, InitHeadGrows
<1>3. p \in Ids /\ hand \in Hands
  BY ListPlace DEF AllInv, DeductionInv, Inv, InitHead
<1>4. todo' = HeadCalls(p) /\ hand' = hand
  BY DEF InitHead
<1>5. p \in Nat \ {0}
  BY <1>3, TypesAre
<1>6. states'[p].type = "goal"
  <2> DEFINE g == IF hand.kind[hand.head[states[p].n]] = "subst" /\ OwnGoal(p, hand.head[states[p].n])
                  THEN p ELSE states[p].g
  <2>1. states' = Retyped(p, g)
    BY DEF InitHead, Retyped
  <2>2. states \in Seq(State) /\ DOMAIN states = Ids
    BY StatesOK DEF AllInv, DeductionInv, Ids
  <2> HIDE DEF g
  <2> QED  BY <1>3, <2>1, <2>2, RetypedFields
<1> QED  BY <1>1, <1>2, <1>3, <1>4, <1>5, <1>6, GrowsFields, HeadFacts DEF AllInv

\* The axioms that a prediction may start at are called for.
LEMMA LeavesCalled ==
  ASSUME AllInv, GoalsAim, InitHead, NEW p, p = plist[idx], states[p].type = "init"
  PROVE  LeavesArrive(p)'
<1> DEFINE s == states[p]
           hc == hand.head[s.n]
<1>1. /\ AllInv' /\ Grows /\ p \in Ids /\ p \in Nat \ {0} /\ hand \in Hands /\ hand' = hand
      /\ s.n \in hand.nodes /\ todo' = HeadCalls(p)
      /\ s.i \in 0 .. hand.last /\ s.j \in 0 .. hand.last + 1 /\ hand.last \in Nat
      /\ states'[p].n = s.n /\ states'[p].i = s.i /\ states'[p].j = s.j
      /\ states'[p].fl = s.fl /\ states'[p].fr = s.fr
  BY HeadStep
<1> SUFFICES ASSUME NEW f \in D!Axioms(hand), Leaf(states[p], f)'
             PROVE  Comes({"item"}, f, p)'
  <2>1. D!Axioms(hand)' = D!Axioms(hand)
    BY <1>1
  <2> QED  BY <2>1 DEF LeavesArrive
<1>2. /\ f.n = Start(s.n) /\ s.i <= f.i /\ f.j <= s.j
      /\ CASE f.pos = "top" -> s.i = s.j
           [] f.fl # ef     -> f.fl = s.fl /\ f.fr = s.fr
           [] OTHER         -> ~(hand.pref.epsTrees /\ f.n \in hand.eps)
  BY <1>1 DEF Leaf, Start
<1>3. /\ hc \in hand.nodes /\ f.n \in hand.nodes
      /\ hand.kind[f.n] \in {"anchor", "terminal", "foot"} => f.n = hc /\ hand.kind[hc] = hand.kind[f.n]
      /\ D!EmptyAt(hand, f.n) =>
           \/ /\ hand.kind[hc] \in {"anchor", "terminal"} /\ f.n = hc
              /\ hand.pref.epsTrees /\ hc \in hand.eps
           \/ hand.kind[hc] = "eps" /\ f.n = (IF hand.pref.epsAdjoin THEN hc ELSE s.n)
  BY <1>1, <1>2, StartIs
<1> HIDE DEF s, hc
<1>4. SUFFICES \E r \in todo' : r.t.type = "item" /\ Like(r.t, f) /\ r.t.g = p
  <2>1. PICK r \in todo' : r.t.type = "item" /\ Like(r.t, f) /\ r.t.g = p
    BY <1>4
  <2>2. r.t.type \in {"item"} /\ r.t.g \in Ids /\ states[r.t.g].i <= f.i /\ f.j <= states[r.t.g].j
    BY <1>1, <1>2, <2>1 DEF s
  <2>3. Wide(r.t.g, p)
    BY <1>1, <2>1, WideRefl
  <2> QED  BY <1>1, <2>1, <2>2, <2>3, CallComes
<1>5. CASE /\ <<f.i, f.n>> \in hand.lexed /\ hand.kind[f.n] \in {"anchor", "terminal"}
           /\ f.pos = "bot" /\ f.i \in Int /\ f.j = f.i + 1 /\ f.fl = ef /\ f.fr = ef
  <2>1. f.n = hc /\ hand.kind[hc] \in {"anchor", "terminal"}
    BY <1>3, <1>5
  <2>2. ~(hand.pref.epsTrees /\ hc \in hand.eps)
    BY <1>2, <1>5, <2>1
  <2>3. todo' = InitAnchor(p, hc)
    BY <1>1, <2>1, <2>2 DEF HeadCalls, s, hc
  <2>4. f.i \in s.i .. (s.j - 1)
    BY <1>1, <1>2, <1>5
  <2> DEFINE t == Item(hc, p, "bot", f.i, f.i + 1, ef, ef, <<f.i>>, 0, 0)
  <2>5. Call(<<f.i, 0, 0, 0>>, t) \in todo'
    BY <1>5, <2>1, <2>3, <2>4 DEF InitAnchor, s
  <2>6. Call(<<f.i, 0, 0, 0>>, t).t = t
    BY CallFields
  <2>7. t.type = "item" /\ Like(t, f) /\ t.g = p
    BY <1>5, <2>1, ItemFields DEF Like
  <2> HIDE DEF t
  <2> QED  BY <2>5, <2>6, <2>7
<1>6. CASE /\ D!EmptyAt(hand, f.n) /\ f.pos = "top" /\ f.i \in Int /\ f.i = f.j /\ f.fl = ef /\ f.fr = ef
  <2>1. s.i = s.j /\ f.i = s.i
    BY <1>1, <1>2, <1>6
  <2>2. todo' = InitEpsilon(p, f.n)
    BY <1>1, <1>3, <1>6 DEF HeadCalls, s, hc
  <2> DEFINE t == Item(f.n, p, "top", s.i, s.i, ef, ef, <<>>, 0, 0)
  <2>3. Call(<<0, 0, 0, 0>>, t) \in todo'
    BY <2>1, <2>2 DEF InitEpsilon, s
  <2>4. Call(<<0, 0, 0, 0>>, t).t = t
    BY CallFields
  <2>5. t.type = "item" /\ Like(t, f) /\ t.g = p
    BY <1>6, <2>1, ItemFields DEF Like
  <2> HIDE DEF t
  <2> QED  BY <2>3, <2>4, <2>5
<1>7. CASE /\ hand.kind[f.n] = "foot" /\ f.pos = "bot" /\ f.i = f.fl /\ f.j = f.fr /\ f.fl # ef
  <2>1. f.n = hc /\ hand.kind[hc] = "foot" /\ f.fl = s.fl /\ f.fr = s.fr
    BY <1>2, <1>3, <1>7
  <2>2. todo' = InitFoot(p, hc)
    BY <1>1, <2>1 DEF HeadCalls, s, hc
  <2> DEFINE t == Item(hc, p, "bot", s.fl, s.fr, s.fl, s.fr, <<>>, 0, 0)
  <2>3. Call(<<0, 0, 0, 0>>, t) \in todo'
    BY <2>2 DEF InitFoot, s
  <2>4. Call(<<0, 0, 0, 0>>, t).t = t
    BY CallFields
  <2>5. t.type = "item" /\ Like(t, f) /\ t.g = p
    BY <1>7, <2>1, ItemFields DEF Like
  <2> HIDE DEF t
  <2> QED  BY <2>3, <2>4, <2>5
<1> QED  BY <1>1, <1>5, <1>6, <1>7, AxiomsAre

\* hparse_init_subst visits the root r and the span from a to b.
SubstVisit(s, node, r, a, b) ==
  /\ hand.kind[node] = "subst" /\ <<a, b>> \in SubstSpans(s, node)
  /\ \E k \in DOMAIN hand.inits[hand.label[node]] : r = hand.inits[hand.label[node]][k]

\* The calls for one tree and one span.
SubstCalling(S, p, s, node, r, a, b, done) ==
  /\ done # 0 => \E c \in S : c.t = Item(node, p, "top", a, b, ef, ef, <<>>, done, 0)
  /\ done = 0 /\ s.n # node => \E c \in S : c.t = Goal(node, p, a, b)
  /\ done = 0 => \E c \in S : c.t = Predict(r, a, b, ef, ef, 0, 0)

\* The call of InitSubst for one tree and one span.
LEMMA SubstCalls ==
  ASSUME NEW p, NEW s, s = states[p], NEW node, NEW r, NEW a, NEW b, SubstVisit(s, node, r, a, b),
         NEW done, done = StateExists(a, b, r, ef, ef)
  PROVE  SubstCalling(InitSubst(p, node), p, s, node, r, a, b, done)
<1> PICK k \in DOMAIN hand.inits[hand.label[node]] : r = hand.inits[hand.label[node]][k]
  BY DEF SubstVisit
<1> DEFINE roots == hand.inits[hand.label[node]]
           visits == {u \in (DOMAIN roots) \X (s.i .. s.j) \X (s.i .. s.j) :
                        <<u[2], u[3]>> \in SubstSpans(s, node)}
           found(u) == StateExists(u[2], u[3], roots[u[1]], ef, ef)
           x == <<k, a, b>>
           S == {Call(<<u[1], u[2], -u[3], 0>>,
                   IF found(u) # 0
                   THEN Item(node, p, "top", u[2], u[3], ef, ef, <<>>, found(u), 0)
                   ELSE Goal(node, p, u[2], u[3])) :
                 u \in {y \in visits : found(y) # 0 \/ s.n # node}}
           P == {Call(<<u[1], u[2], -u[3], 1>>,
                   Predict(roots[u[1]], u[2], u[3], ef, ef, 0, 0)) :
                 u \in {y \in visits : found(y) = 0}}
<1>1. a \in s.i .. s.j /\ b \in s.i .. s.j /\ <<a, b>> \in SubstSpans(s, node)
  BY DEF SubstSpans, SubstVisit
<1>2. x \in visits /\ x[1] = k /\ x[2] = a /\ x[3] = b
  BY <1>1
<1>3. InitSubst(p, node) = S \cup P
  BY SMTT(30) DEF InitSubst
<1>4. ASSUME found(x) # 0
      PROVE  \E c \in S : c.t = Item(node, p, "top", x[2], x[3], ef, ef, <<>>, found(x), 0)
  <2>1. Call(<<x[1], x[2], -x[3], 0>>, Item(node, p, "top", x[2], x[3], ef, ef, <<>>, found(x), 0)) \in S
    BY <1>2, <1>4
  <2> QED  BY <2>1, CallFields
<1>5. ASSUME found(x) = 0, s.n # node
      PROVE  \E c \in S : c.t = Goal(node, p, x[2], x[3])
  <2>1. Call(<<x[1], x[2], -x[3], 0>>, Goal(node, p, x[2], x[3])) \in S
    BY <1>2, <1>5
  <2> QED  BY <2>1, CallFields
<1>6. ASSUME found(x) = 0
      PROVE  \E c \in P : c.t = Predict(roots[x[1]], x[2], x[3], ef, ef, 0, 0)
  <2>1. Call(<<x[1], x[2], -x[3], 1>>, Predict(roots[x[1]], x[2], x[3], ef, ef, 0, 0)) \in P
    BY <1>2, <1>6
  <2> QED  BY <2>1, CallFields
<1> HIDE DEF visits, S, P, x
<1> QED  BY <1>2, <1>3, <1>4, <1>5, <1>6 DEF SubstCalling

\* A prediction becomes its own goal.
LEMMA OwnGoalTaken ==
  ASSUME AllInv, InitHead, NEW p, p = plist[idx], states[p].type = "init",
         NEW hc, hc = hand.head[states[p].n], hand.kind[hc] = "subst", OwnGoal(p, hc)
  PROVE  states'[p].g = p
<1>1. p \in Ids /\ states \in Seq(State) /\ DOMAIN states = Ids
  BY ListPlace, StatesOK DEF InitHead, AllInv, DeductionInv, Ids
<1>2. states' = Retyped(p, p)
  BY DEF InitHead, Retyped
<1> QED  BY <1>1, <1>2, RetypedFields

\* hparse_init_head asks for the trees that fit.
LEMMA SubstCalled ==
  ASSUME AllInv, GoalsAim, Shaped, InitHead, NEW p, p = plist[idx], states[p].type = "init",
         NEW s, s = states[p], NEW hc, hc = hand.head[s.n],
         NEW r, NEW a, NEW b, SubstVisit(s, hc, r, a, b)
  PROVE  SubstArrives(p, r, <<a, b>>)'
<1>1. /\ AllInv' /\ Grows /\ p \in Ids /\ p \in Nat \ {0} /\ hand \in Hands /\ hand' = hand
      /\ s.n \in hand.nodes /\ todo' = HeadCalls(p) /\ [Next]_vars
      /\ s.i \in 0 .. hand.last /\ s.j \in 0 .. hand.last + 1 /\ hand.last \in Nat
      /\ states'[p].n = s.n /\ states'[p].i = s.i /\ states'[p].j = s.j
      /\ states'[p].fl = s.fl /\ states'[p].fr = s.fr /\ states'[p].type = "goal"
  BY HeadStep
<1>2. PICK done : done = StateExists(a, b, r, ef, ef)
  OBVIOUS
<1>3. /\ done # 0 => \E c \in todo' : c.t = Item(hc, p, "top", a, b, ef, ef, <<>>, done, 0)
      /\ done = 0 /\ s.n # hc => \E c \in todo' : c.t = Goal(hc, p, a, b)
      /\ done = 0 => \E c \in todo' : c.t = Predict(r, a, b, ef, ef, 0, 0)
  <2>1. todo' = InitSubst(p, hc)
    BY <1>1 DEF HeadCalls, SubstVisit
  <2>2. SubstCalling(InitSubst(p, hc), p, s, hc, r, a, b, done)
    BY <1>2, SubstCalls
  <2> QED  BY <2>1, <2>2 DEF SubstCalling
<1>4. s.pos = "top" /\ s.fl = ef /\ s.fr = ef /\ states'[p].pos = "top"
  <2>1. Shapely(s) /\ s.type = "init" /\ hand.kind[hc] = "subst"
    BY <1>1 DEF Shaped, SubstVisit
  <2>2. states'[p].pos = s.pos
    BY <1>1, GrowsFields
  <2> QED  BY <2>1, <2>2 DEF Shapely, Footed
<1>5. a \in 0 .. hand.last + 1 /\ b \in 0 .. hand.last + 1 /\ s.i <= a /\ b <= s.j
  <2>1. a \in s.i .. s.j /\ b \in s.i .. s.j
    BY DEF SubstSpans, SubstVisit
  <2>2. s.i \in 0 .. hand.last /\ s.j \in 0 .. hand.last + 1 /\ hand.last \in Nat
    BY <1>1
  <2> QED  BY <2>1, <2>2
<1>6. PICK w : w = Spot(r, "top", a, b, ef, ef)
  OBVIOUS
<1>7. PICK f : f = Spot(hc, "top", a, b, ef, ef)
  OBVIOUS
<1>8. /\ w.n = r /\ w.pos = "top" /\ w.i = a /\ w.j = b /\ w.fl = ef /\ w.fr = ef
      /\ f.n = hc /\ f.pos = "top" /\ f.i = a /\ f.j = b /\ f.fl = ef /\ f.fr = ef
  BY <1>6, <1>7 DEF Spot, D!Fact
<1>9. done # 0 <=> Found(w)
  BY <1>2, <1>5, <1>6, ExistsIffFound
<1>10. /\ Arrives(w)'
       /\ (s.n = hc => <<a, b>> = <<s.i, s.j>>) => Served(w, f, p)' /\ Comes({"goal", "item"}, f, p)'
       => SubstArrives(p, r, <<a, b>>)'
  BY <1>1, <1>6, <1>7 DEF SubstArrives
<1>11. CASE Found(w)
  <2>1. PICK c \in todo' : c.t = Item(hc, p, "top", a, b, ef, ef, <<>>, done, 0)
    BY <1>3, <1>9, <1>11
  <2>2. c.t.type = "item" /\ Like(c.t, f) /\ c.t.g = p
    BY <1>8, <2>1 DEF Item, Like
  <2>3. c.t.g \in Ids /\ states[c.t.g].i <= f.i /\ f.j <= states[c.t.g].j
    BY <1>1, <1>5, <1>8, <2>2
  <2>4. Comes({"item"}, f, p)' /\ Comes({"goal", "item"}, f, p)'
    <3>1. c.t.type \in {"item"} /\ c.t.type \in {"goal", "item"}
      BY <2>2
    <3>2. Wide(c.t.g, p)
      BY <1>1, <2>2, WideRefl
    <3> QED  BY <1>1, <2>2, <2>3, <3>1, <3>2, CallComes
  <2>5. Arrives(w)'
    BY <1>1, <1>11, FoundArrives
  <2>6. Served(w, f, p)'
    BY <1>1, <2>4, <2>5, ServedNew
  <2> QED  BY <1>10, <2>4, <2>5, <2>6
<1>12. CASE ~ Found(w)
  <2>1. Arrives(w)'
    <3>1. PICK c \in todo' : c.t = Predict(r, a, b, ef, ef, 0, 0)
      BY <1>3, <1>9, <1>12
    <3>2. c.t.type = "init" /\ c.t.pos = "top" /\ Like(c.t, w) /\ c.t.g = 0
      BY <1>8, <3>1 DEF Predict, Like
    <3> QED  BY <1>1, <3>2, CallArrives
  <2>2. Served(w, f, p)'
    BY <1>1, <1>12, <2>1, ServedNew
  <2>3. ASSUME s.n = hc => <<a, b>> = <<s.i, s.j>>
        PROVE  Comes({"goal", "item"}, f, p)'
    <3>1. CASE s.n # hc
      <4>1. PICK c \in todo' : c.t = Goal(hc, p, a, b)
        BY <1>3, <1>9, <1>12, <3>1
      <4>2. c.t.type = "goal" /\ Like(c.t, f) /\ c.t.g = p
        BY <1>8, <4>1 DEF Goal, Like
      <4>3. c.t.g \in Ids /\ states[c.t.g].i <= f.i /\ f.j <= states[c.t.g].j
        BY <1>1, <1>5, <1>8, <4>2
      <4>4. c.t.type \in {"goal", "item"}
        BY <4>2
      <4>5. Wide(c.t.g, p)
        BY <1>1, <4>2, WideRefl
      <4> QED  BY <1>1, <4>2, <4>3, <4>4, <4>5, CallComes
    <3>2. CASE s.n = hc /\ <<a, b>> = <<s.i, s.j>>
      <4>1. Like(states'[p], f)
        BY <1>1, <1>4, <1>8, <3>2 DEF Like
      <4>2. p \in Ids'
        BY <1>1, GrowsFields
      <4>3. states'[p].type \in {"goal", "item"}
        BY <1>1
      <4>4. states'[p].g = p
        <5>1. OwnGoal(p, hc)
          BY <1>2, <1>9, <1>12, <3>2 DEF OwnGoal, SubstVisit
        <5> QED  BY ZenonT(60), <5>1, OwnGoalTaken DEF SubstVisit
      <4>5. Wide(states[p].g, p)'
        <5>1. Wide(p, p)'
          BY <1>1, WideRefl, WideKept
        <5> QED  BY <4>4, <5>1 DEF Wide
      <4> QED  BY SMTT(30), <4>1, <4>2, <4>3, <4>5 DEF Comes, Like, Wide
    <3> QED  BY <2>3, <3>1, <3>2
  <2> QED  BY <1>10, <2>1, <2>2, <2>3
<1> QED  BY <1>11, <1>12

\* It asks for all of them.
LEMMA SubstsCalled ==
  ASSUME AllInv, GoalsAim, Shaped, InitHead, NEW p, p = plist[idx], states[p].type = "init"
  PROVE  SubstsArrive(p)'
<1>1. PICK s : s = states[p]
  OBVIOUS
<1>2. PICK hc : hc = hand.head[s.n]
  OBVIOUS
<1>3. hand' = hand /\ states'[p].n = s.n /\ states'[p].i = s.i /\ states'[p].j = s.j
  BY SMTT(30), <1>1, HeadStep
<1>4. SUFFICES ASSUME hand.kind[hc] = "subst",
                      NEW k \in DOMAIN hand.inits[hand.label[hc]], NEW v \in SubstSpans(s, hc)
               PROVE  SubstArrives(p, hand.inits[hand.label[hc]][k], v)'
  <2>1. SubstSpans(states[p], hc)' = SubstSpans(s, hc)
    BY <1>3 DEF SubstSpans
  <2>2. ASSUME hand.kind[hc] = "subst", NEW k \in DOMAIN hand.inits[hand.label[hc]],
               NEW v \in SubstSpans(states[p], hc)'
        PROVE  SubstArrives(p, hand.inits[hand.label[hc]][k], v)'
    BY <1>4, <2>1, <2>2
  <2> QED  BY <1>2, <1>3, <2>2 DEF SubstsArrive
<1>5. PICK r : r = hand.inits[hand.label[hc]][k]
  OBVIOUS
<1>6. PICK a, b : v = <<a, b>>
  BY DEF SubstSpans
<1>7. SubstVisit(s, hc, r, a, b)
  BY SMTT(30), <1>4, <1>5, <1>6 DEF SubstVisit
<1>8. SubstArrives(p, r, <<a, b>>)'
  BY <1>1, <1>2, <1>7, SubstCalled
<1> QED  BY <1>3, <1>5, <1>6, <1>8

-----------------------------------------------------------------------------
(* What hparse_completer brings to a tree that is substituted.             *)

\* A state lies within its goal.
LEMMA WithinGoal ==
  ASSUME AllInv, NEW p \in Ids, states[p].g # 0
  PROVE  LET g == states[p].g
         IN g \in Ids /\ states[g].i <= states[p].i /\ states[p].j <= states[g].j
<1>1. states[p].g \in Ids
  BY TypesAre
<1>2. Within(states, states[p])
  BY DEF AllInv, DeductionInv, Inv, Inductive
<1> QED  BY <1>1, <1>2 DEF Within

\* An item for a highest node with its headcorner is what its goal asked for.
LEMMA SpineCompletes ==
  ASSUME AllInv, NEW q \in Working, SpineTop(hand, states[q].n), states[q].pos = "top"
  PROVE  MayComplete(states[q])
<1>1. /\ q \in Ids /\ states[q].type = "item" /\ states[q].g # 0 /\ states[q].g \in Ids
  BY WithinGoal DEF Working, ItemIds
<1>2. /\ Aims(hand, states, states[q].g, states[q].n) /\ states[q].n \in hand.nodes
      /\ states[states[q].g].n \in hand.nodes /\ hand \in Hands
  BY <1>1, StatesOK DEF AllInv, DeductionInv, Inv
<1>3. /\ SpineTop(hand, states[states[q].g].n)
      /\ hand.head[states[states[q].g].n] = hand.head[states[q].n]
  BY <1>1, <1>2 DEF Aims
<1>4. states[q].n = states[states[q].g].n
  BY <1>2, <1>3, HandOK DEF HeadsOK
<1> QED  BY <1>1, <1>4 DEF MayComplete

\* A step of hparse_completer.
LEMMA CompleterStep ==
  ASSUME AllInv, GoalsAim, Completer
  PROVE  /\ AllInv' /\ Grows /\ [Next]_vars /\ plist[idx] \in Ids /\ hand \in Hands /\ todo = {}
         /\ hand' = hand /\ states' = states /\ Ids' = Ids
         /\ MayComplete(states[plist[idx]]) => todo' = CompleterCalls(plist[idx])
<1>1. [Next]_vars
  BY DEF Next
<1>2. AllInv' /\ Grows
  BY <1>1, AllNext, NextGrows
<1>3. plist[idx] \in Ids /\ hand \in Hands /\ todo = {}
  BY ListPlace DEF AllInv, DeductionInv, Inv, Completer, Current
<1>4. /\ hand' = hand /\ states' = states /\ Ids' = Ids
      /\ MayComplete(states[plist[idx]]) => todo' = CompleterCalls(plist[idx])
  BY DEF Completer, Ids
<1> QED  BY <1>1, <1>2, <1>3, <1>4

\* The completer substitutes a finished tree.
LEMMA SubstCompleted ==
  ASSUME AllInv, GoalsAim, Completer, NEW q \in Working, q = plist[idx],
         NEW s, NEW node \in hand.nodes, NEW r, NEW a, NEW b, SubstVisit(s, node, r, a, b),
         NEW w, w = Spot(r, "top", a, b, ef, ef), Like(states[q], w),
         NEW f, f = Spot(node, "top", a, b, ef, ef), NEW p \in Ids, Comes({"goal", "item"}, f, p)
  PROVE  Comes({"item"}, f, p)'
<1>1. /\ AllInv' /\ Grows /\ [Next]_vars /\ q \in Ids /\ hand \in Hands /\ todo = {}
      /\ MayComplete(states[q]) => todo' = CompleterCalls(q)
  BY CompleterStep
<1>2. /\ states[q].n = r /\ states[q].pos = "top" /\ states[q].i = a /\ states[q].j = b
      /\ f.n = node /\ f.pos = "top" /\ f.i = a /\ f.j = b /\ f.fl = ef /\ f.fr = ef
  BY SMTT(30) DEF Like, Spot, D!Fact
<1>3. /\ r \in hand.nodes /\ hand.up[r] = 0 /\ hand.foot[r] = 0 /\ hand.label[r] = hand.label[node]
      /\ hand.kind[node] = "subst"
  <2>1. hand.label[node] \in DOMAIN hand.inits
    BY <1>1, HandOK DEF ListsOK
  <2>2. PICK l : l = hand.label[node]
    OBVIOUS
  <2>3. hand.kind[node] = "subst" /\ \E k \in DOMAIN hand.inits[l] : r = hand.inits[l][k]
    BY <2>2 DEF SubstVisit
  <2>4. PICK k \in DOMAIN hand.inits[l] : r = hand.inits[l][k]
    BY <2>3
  <2>5. /\ hand.inits[l][k] \in hand.nodes /\ hand.up[hand.inits[l][k]] = 0
        /\ hand.foot[hand.inits[l][k]] = 0 /\ hand.label[hand.inits[l][k]] = l
    BY <1>1, <2>1, <2>2, RootFacts
  <2> QED  BY <2>2, <2>3, <2>4, <2>5
<1>4. todo' = CompleteInit(q)
  <2>1. SpineTop(hand, states[q].n)
    BY <1>2, <1>3 DEF SpineTop
  <2>2. MayComplete(states[q])
    BY <1>2, <2>1, SpineCompletes
  <2> QED  BY <1>1, <1>2, <1>3, <2>2 DEF CompleterCalls
<1>5. PICK d \in Ids : /\ states[d].type \in {"goal", "item"} /\ Like(states[d], f)
                        /\ Wide(states[d].g, p)
  BY <1>1 DEF Comes
<1>6. CASE states[d].type = "item"
  <2>1. Comes({"item"}, f, p)
    BY <1>5, <1>6 DEF Comes
  <2> QED  BY <1>1, <2>1, ComesKept DEF Wants
<1>7. CASE states[d].type = "goal"
  <2>1. /\ states[d].n = node /\ states[d].pos = "top" /\ states[d].i = a /\ states[d].j = b
    BY <1>2, <1>5 DEF Like
  <2>2. PICK k \in DOMAIN CellOf(a, b) : CellOf(a, b)[k] = d
    BY <2>1, InCell
  <2>3. PICK t : t = Item(node, states[d].g, "top", a, b, ef, ef, <<>>, q, 0)
    OBVIOUS
  <2>4. Call(<<k, 0, 0, 0>>, t) \in todo'
    BY <1>2, <1>3, <1>4, <1>7, <2>1, <2>2, <2>3 DEF CompleteInit
  <2>5. Call(<<k, 0, 0, 0>>, t).t = t
    BY CallFields
  <2>6. t.type = "item" /\ Like(t, f) /\ t.g = states[d].g
    BY <1>2, <2>3 DEF Like, Item
  <2>7. /\ t.g \in Ids /\ states[t.g].i <= f.i /\ f.j <= states[t.g].j
        /\ Wide(t.g, p)
    <3>1. states[d].g # 0
      BY <1>5 DEF Wide, AsWide
    <3> QED  BY <1>2, <1>5, <2>1, <2>6, <3>1, WithinGoal
  <2>8. PICK c \in todo' : c.t = t
    BY <2>4, <2>5
  <2>9. c.t.type \in {"item"}
    BY <2>6, <2>8
  <2> QED  BY <1>1, <2>6, <2>7, <2>8, <2>9, CallComes
<1> QED  BY <1>5, <1>6, <1>7

\* What hparse_init_head has asked for comes, step by step.
LEMMA SubstArrivesKept ==
  ASSUME AllInv, GoalsAim, [Next]_vars, NEW p \in Begun, NEW s, s = states[p],
         NEW node \in hand.nodes, node = hand.head[s.n],
         NEW r, NEW a, NEW b, SubstVisit(s, node, r, a, b), SubstArrives(p, r, <<a, b>>)
  PROVE  SubstArrives(p, r, <<a, b>>)'
<1>1. p \in Ids /\ Grows
  BY NextGrows DEF Begun
<1>2. /\ hand' = hand /\ states'[p].n = s.n /\ states'[p].i = s.i /\ states'[p].j = s.j
  BY <1>1, GrowsFields
<1>3. PICK w : w = Spot(r, "top", a, b, ef, ef)
  OBVIOUS
<1>4. PICK f : f = Spot(node, "top", a, b, ef, ef)
  OBVIOUS
<1>5. /\ Arrives(w)
      /\ (s.n = node => <<a, b>> = <<s.i, s.j>>) => Served(w, f, p) /\ Comes({"goal", "item"}, f, p)
  BY <1>3, <1>4 DEF SubstArrives
<1>6. /\ Arrives(w)'
      /\ (s.n = node => <<a, b>> = <<s.i, s.j>>) => Served(w, f, p)' /\ Comes({"goal", "item"}, f, p)'
      => SubstArrives(p, r, <<a, b>>)'
  BY <1>2, <1>3, <1>4 DEF SubstArrives
<1>7. Arrives(w)'
  BY <1>5, ArrivesKept
<1>8. ASSUME Served(w, f, p), Comes({"goal", "item"}, f, p)
      PROVE  Served(w, f, p)' /\ Comes({"goal", "item"}, f, p)'
  <2>1. Comes({"goal", "item"}, f, p)'
    BY <1>1, <1>8, ComesKept DEF Wants
  <2>2. ASSUME Completer, plist[idx] \in Working, Like(states[plist[idx]], w)
        PROVE  Comes({"item"}, f, p)'
    <3>1. PICK q \in Working : q = plist[idx]
      BY <2>2
    <3>2. Like(states[q], w)
      BY <2>2, <3>1
    <3> QED  BY <1>1, <1>3, <1>4, <1>8, <2>2, <3>1, <3>2, SubstCompleted
  <2> QED  BY <1>1, <1>8, <2>1, <2>2, ServedKept
<1> QED  BY <1>5, <1>6, <1>7, <1>8

\* Every prediction that has been through hparse_init_head has asked for all
\* that may start its subtree.
LEMMA BegunNext ==
  ASSUME AllInv, GoalsAim, Shaped, BegunArrive, [Next]_vars
  PROVE  BegunArrive'
<1> SUFFICES ASSUME NEW p \in Begun'
             PROVE  LeavesArrive(p)' /\ SubstsArrive(p)'
  BY DEF BegunArrive
<1>1. Grows /\ AllInv' /\ hand' = hand /\ hand \in Hands
  BY NextGrows, AllNext DEF Grows, AllInv, DeductionInv, Inv
<1>2. CASE p \notin Begun
  <2>1. InitHead /\ p = plist[idx] /\ p \in Ids /\ states[p].type = "init"
    BY <1>2, NewlyAtWork
  <2> QED  BY <2>1, LeavesCalled, SubstsCalled
<1>3. CASE p \in Begun
  <2>1. p \in Ids /\ LeavesArrive(p) /\ SubstsArrive(p)
    BY <1>3 DEF BegunArrive, Begun
  <2>2. /\ states'[p].n = states[p].n /\ states'[p].i = states[p].i /\ states'[p].j = states[p].j
        /\ states'[p].fl = states[p].fl /\ states'[p].fr = states[p].fr
        /\ states[p].n \in hand.nodes
    BY <1>1, <2>1, GrowsFields, StatesOK DEF AllInv, DeductionInv
  <2>3. LeavesArrive(p)'
    <3> SUFFICES ASSUME NEW f \in D!Axioms(hand), Leaf(states[p], f)'
                 PROVE  Comes({"item"}, f, p)'
      <4>1. D!Axioms(hand)' = D!Axioms(hand)
        BY <1>1
      <4> QED  BY <4>1 DEF LeavesArrive
    <3>1. Leaf(states[p], f)
      BY <1>1, <2>2 DEF Leaf, Start
    <3>2. Comes({"item"}, f, p)
      BY <2>1, <3>1 DEF LeavesArrive
    <3> QED  BY <2>1, <3>2, ComesKept DEF Wants
  <2>4. SubstsArrive(p)'
    <3>1. PICK s : s = states[p]
      OBVIOUS
    <3>2. PICK node : node = hand.head[s.n]
      OBVIOUS
    <3>3. node \in hand.nodes
      BY <1>1, <2>2, <3>1, <3>2, NodeFacts
    <3>4. ASSUME hand.kind[node] = "subst",
                 NEW k \in DOMAIN hand.inits[hand.label[node]], NEW v \in SubstSpans(s, node)
          PROVE  SubstArrives(p, hand.inits[hand.label[node]][k], v)'
      <4>1. PICK r : r = hand.inits[hand.label[node]][k]
        OBVIOUS
      <4>2. PICK a, b : v = <<a, b>>
        BY DEF SubstSpans
      <4>3. SubstVisit(s, node, r, a, b)
        BY <3>4, <4>1, <4>2 DEF SubstVisit
      <4>4. SubstArrives(p, r, <<a, b>>)
        BY <2>1, <3>1, <3>2, <3>4, <4>1, <4>2 DEF SubstsArrive
      <4>5. SubstArrives(p, r, <<a, b>>)'
        BY <1>3, <3>1, <3>2, <3>3, <4>3, <4>4, SubstArrivesKept
      <4> QED  BY <1>1, <4>1, <4>2, <4>5
    <3>5. SubstSpans(states[p], node)' = SubstSpans(s, node)
      BY <1>1, <2>2, <3>1 DEF SubstSpans
    <3>6. ASSUME hand.kind[node] = "subst",
                 NEW k \in DOMAIN hand.inits[hand.label[node]], NEW v \in SubstSpans(states[p], node)'
          PROVE  SubstArrives(p, hand.inits[hand.label[node]][k], v)'
      BY <3>4, <3>5, <3>6
    <3> QED  BY <1>1, <2>2, <3>1, <3>2, <3>6 DEF SubstsArrive
  <2> QED  BY <2>3, <2>4
<1> QED  BY <1>2, <1>3

-----------------------------------------------------------------------------
(* hparse_move_up, and what the completer brings to the items it has been   *)
(* called on.                                                              *)

\* An item at work that is not the top of its goal's subtree moves up.
LEMMA SpineMovesUp ==
  ASSUME AllInv, NEW p \in Working,
         \/ states[p].pos = "bot"
         \/ hand.up[states[p].n] # 0 /\ hand.head[hand.up[states[p].n]] = hand.head[states[p].n]
  PROVE  MayMoveUp(states[p])
<1>1. /\ p \in Ids /\ states[p].type = "item" /\ states[p].g # 0 /\ states[p].g \in Ids
  BY WithinGoal DEF Working, ItemIds
<1>2. Aims(hand, states, states[p].g, states[p].n)
  BY <1>1, StatesOK DEF AllInv, DeductionInv
<1>3. SpineTop(hand, states[states[p].g].n)
  BY <1>1, <1>2 DEF Aims
<1> QED  BY <1>1, <1>3 DEF MayMoveUp, SpineTop

\* A step of hparse_move_up.
LEMMA MoveStep ==
  ASSUME AllInv, GoalsAim, MoveUp, NEW p, p = plist[idx]
  PROVE  /\ AllInv' /\ Grows /\ [Next]_vars /\ p \in Ids /\ hand \in Hands /\ todo = {}
         /\ hand' = hand /\ states' = states /\ Ids' = Ids
         /\ MayMoveUp(states[p]) => todo' = MoveUpCalls(p)
<1>1. [Next]_vars
  BY DEF Next
<1>2. AllInv' /\ Grows
  BY <1>1, AllNext, NextGrows
<1>3. p \in Ids /\ hand \in Hands /\ todo = {}
  BY ListPlace DEF AllInv, DeductionInv, Inv, MoveUp, Current
<1>4. /\ hand' = hand /\ states' = states /\ Ids' = Ids
      /\ MayMoveUp(states[p]) => todo' = MoveUpCalls(p)
  BY DEF MoveUp, Ids
<1> QED  BY <1>1, <1>2, <1>3, <1>4

\* What the steps below know of an item at work.
LEMMA WorkingFacts ==
  ASSUME AllInv, NEW p \in Working
  PROVE  LET s == states[p]
             g == states[s.g]
         IN /\ p \in Ids /\ p \in Nat /\ p # 0 /\ s.type = "item" /\ s.n \in hand.nodes
            /\ s.g \in Ids /\ s.g # 0 /\ g.i <= s.i /\ s.j <= g.j
            /\ s.i \in 0 .. hand.last /\ s.j \in 0 .. hand.last /\ hand.last \in Nat
            /\ g.i \in 0 .. hand.last /\ g.j \in 0 .. hand.last
            /\ s.pos \in {"top", "bot"} /\ s \in State /\ hand \in Hands
            /\ Covers(hand, s.n, s.i, s.j, s.fl, s.fr)
<1>1. /\ p \in Ids /\ states[p].type = "item" /\ states[p].g # 0 /\ states[p].g \in Ids
      /\ states[states[p].g].i <= states[p].i /\ states[p].j <= states[states[p].g].j
      /\ p \in ItemIds
  BY WithinGoal DEF Working, ItemIds
<1>2. /\ states[p] \in State /\ states[p].n \in hand.nodes /\ states[p].i \in 0 .. hand.last
      /\ states[p].j \in 0 .. hand.last /\ states[states[p].g].i \in 0 .. hand.last
      /\ states[states[p].g].j \in 0 .. hand.last + 1 /\ hand \in Hands
      /\ Aims(hand, states, states[p].g, states[p].n)
  BY <1>1, StatesOK DEF AllInv, DeductionInv, Inv
<1>3. hand.last \in Nat
  BY <1>2, HandOK DEF TablesOK
<1>4. states[states[p].g].j \in 0 .. hand.last
  BY <1>1, <1>2, <1>3 DEF Aims
<1>5. p \in Nat /\ p # 0 /\ Covers(hand, states[p].n, states[p].i, states[p].j, states[p].fl, states[p].fr)
  BY <1>1, ItemFacts DEF AllInv
<1>6. states[p].pos \in {"top", "bot"}
  BY <1>2 DEF State
<1> QED  BY <1>1, <1>2, <1>3, <1>4, <1>5, <1>6

\* A call for an item of the goal of p that lies within the span of that goal.
LEMMA ItemArrives ==
  ASSUME AllInv, AllInv', Grows, NEW p \in Working, NEW f, NEW t,
         t.type = "item", Like(t, f), t.g = states[p].g,
         states[states[p].g].i <= f.i, f.j <= states[states[p].g].j,
         \E c \in todo' : c.t = t, NEW g, g = states[p].g
  PROVE  Comes({"item"}, f, g)'
<1>1. PICK c \in todo' : c.t = t
  OBVIOUS
<1>2. /\ c.t.type \in {"item"} /\ Like(c.t, f) /\ c.t.g \in Ids /\ g = c.t.g
      /\ states[c.t.g].i <= f.i /\ f.j <= states[c.t.g].j
  BY <1>1, WorkingFacts
<1>3. Wide(c.t.g, g)
  BY <1>2, WideRefl
<1> QED  BY <1>2, <1>3, CallComes

\* Null adjunction, and the parent of an only child.
LEMMA UpCalled ==
  ASSUME AllInv, GoalsAim, MoveUp, NEW p \in Working, p = plist[idx]
  PROVE  UpArrives(p)'
<1>1. /\ AllInv' /\ Grows /\ hand \in Hands /\ hand' = hand /\ states' = states
      /\ MayMoveUp(states[p]) => todo' = MoveUpCalls(p)
  BY MoveStep
<1>2. PICK s : s = states[p]
  OBVIOUS
<1>3. /\ s.n \in hand.nodes /\ states[s.g].i <= s.i /\ s.j <= states[s.g].j
      /\ s.pos \in {"top", "bot"}
  BY <1>2, WorkingFacts
<1>4. ASSUME s.pos = "bot"
      PROVE  Comes({"item"}, Over(s), s.g)'
  <2>1. PICK f : f = Over(s)
    OBVIOUS
  <2>2. PICK t : t = Item(s.n, s.g, "top", s.i, s.j, s.fl, s.fr, s.w, p, 0)
    OBVIOUS
  <2>3. todo' = Adjoin(p)
    <3>1. MayMoveUp(states[p])
      BY <1>2, <1>4, SpineMovesUp
    <3> QED  BY <1>1, <1>2, <1>4, <3>1 DEF MoveUpCalls
  <2>4. Call(<<0, 0, 0, 0>>, t) \in todo' /\ Call(<<0, 0, 0, 0>>, t).t = t
    BY <1>2, <2>2, <2>3, CallFields DEF Adjoin, AdjoinNothing
  <2>5. t.type = "item" /\ Like(t, f) /\ t.g = states[p].g /\ f.i = s.i /\ f.j = s.j
    BY <1>2, <2>1, <2>2 DEF Over, Spot, D!Fact, Like, Item
  <2>6. Comes({"item"}, f, s.g)'
    BY <1>1, <1>2, <1>3, <2>4, <2>5, ItemArrives
  <2> QED  BY <2>1, <2>6 DEF Over
<1>5. ASSUME s.pos = "top", hand.up[s.n] # 0, hand.side[s.n] = "only"
      PROVE  Comes({"item"}, Under(s), s.g)'
  <2>1. PICK f : f = Under(s)
    OBVIOUS
  <2>2. PICK t : t = Item(hand.up[s.n], s.g, "bot", s.i, s.j, s.fl, s.fr, s.w, p, 0)
    OBVIOUS
  <2>3. todo' = UnaryHead(p)
    <3>1. hand.head[hand.up[s.n]] = hand.head[s.n]
      BY SMTT(30), <1>1, <1>3, <1>5, NodeFacts
    <3>2. MayMoveUp(states[p])
      BY <1>2, <1>5, <3>1, SpineMovesUp
    <3> QED  BY <1>1, <1>2, <1>5, <3>2 DEF MoveUpCalls
  <2>4. Call(<<0, 0, 0, 0>>, t) \in todo' /\ Call(<<0, 0, 0, 0>>, t).t = t
    BY <1>2, <2>2, <2>3, CallFields DEF UnaryHead
  <2>5. t.type = "item" /\ Like(t, f) /\ t.g = states[p].g /\ f.i = s.i /\ f.j = s.j
    BY <1>2, <2>1, <2>2 DEF Under, Spot, D!Fact, Like, Item
  <2>6. Comes({"item"}, f, s.g)'
    BY <1>1, <1>2, <1>3, <2>4, <2>5, ItemArrives
  <2>7. f = Under(s)'
    BY <1>1, <2>1 DEF Under
  <2> QED  BY <2>6, <2>7
<1> QED  BY <1>1, <1>2, <1>4, <1>5 DEF UpArrives, Over, Under

\* The conclusions of hparse_move_up stay.
LEMMA UpKept ==
  ASSUME AllInv, GoalsAim, [Next]_vars, NEW p \in Working, UpArrives(p)
  PROVE  UpArrives(p)'
<1>1. p \in Ids /\ states[p].type = "item" /\ Grows /\ states[p].g \in Ids
  BY NextGrows, WorkingFacts
<1>2. /\ hand' = hand /\ states'[p].n = states[p].n /\ states'[p].i = states[p].i
      /\ states'[p].j = states[p].j /\ states'[p].fl = states[p].fl
      /\ states'[p].fr = states[p].fr /\ states'[p].pos = states[p].pos
      /\ states'[p].g = states[p].g
  BY <1>1, GrowsFields
<1>3. PICK x, y, g : x = Over(states[p]) /\ y = Under(states[p]) /\ g = states[p].g
  OBVIOUS
<1>4. x = Over(states[p])' /\ y = Under(states[p])'
  BY <1>2, <1>3 DEF Over, Under
<1>5. /\ Comes({"item"}, x, g) => Comes({"item"}, x, g)'
      /\ Comes({"item"}, y, g) => Comes({"item"}, y, g)'
  BY <1>1, <1>3, ComesKept DEF Wants
<1> QED  BY <1>2, <1>3, <1>4, <1>5 DEF UpArrives

\* hparse_adjoin visits the auxiliary tree aux and the span from a to b.
AuxVisit(s, aux, a, b) ==
  /\ s.pos = "bot" /\ s.n \in hand.adjoin /\ ~WrapBarred(aux, s.n)
  /\ aux \in AuxTrees(s) /\ <<a, b>> \in AdjoinSpans(s, aux)

\* The call for one tree and one span.
AuxCalling(S, p, s, aux, a, b, done) ==
  /\ done # 0 => \E c \in S : c.t = Item(s.n, s.g, AdjoinedPos, a, b, s.fl, s.fr, s.w, done, p)
  /\ done = 0 => \E c \in S : c.t = Predict(aux, a, b, s.i, s.j, 0, 0)

\* The call of AdjoinTrees for one tree and one span.
LEMMA AuxCalls ==
  ASSUME NEW p, NEW s, s = states[p], NEW aux, NEW a \in 0 .. hand.last, NEW b \in 0 .. hand.last,
         AuxVisit(s, aux, a, b), NEW done, done = StateExists(a, b, aux, s.i, s.j)
  PROVE  AuxCalling(AdjoinTrees(p), p, s, aux, a, b, done)
<1> PICK k \in DOMAIN hand.auxs[hand.label[s.n]] : aux = hand.auxs[hand.label[s.n]][k]
  BY DEF AuxVisit, AuxTrees
<1> DEFINE auxs == hand.auxs[hand.label[s.n]]
           visits == {v \in (DOMAIN auxs) \X (0 .. hand.last) \X (0 .. hand.last) :
                        /\ ~WrapBarred(auxs[v[1]], s.n)
                        /\ <<v[2], v[3]>> \in AdjoinSpans(s, auxs[v[1]])}
           found(v) == StateExists(v[2], v[3], auxs[v[1]], s.i, s.j)
           x == <<k, a, b>>
           S == {Call(<<v[1], v[2], -v[3], 0>>,
                   IF found(v) # 0
                   THEN Item(s.n, s.g, AdjoinedPos, v[2], v[3], s.fl, s.fr, s.w, found(v), p)
                   ELSE Predict(auxs[v[1]], v[2], v[3], s.i, s.j, 0, 0)) : v \in visits}
<1>1. ~WrapBarred(aux, s.n) /\ <<a, b>> \in AdjoinSpans(s, aux)
  BY ZenonT(60) DEF AuxVisit
<1>2. x \in visits /\ x[1] = k /\ x[2] = a /\ x[3] = b
  BY ZenonT(60), <1>1
<1>3. AdjoinTrees(p) = S
  BY ZenonT(60) DEF AdjoinTrees
<1>4. ASSUME found(x) # 0
      PROVE  \E c \in S : c.t = Item(s.n, s.g, AdjoinedPos, x[2], x[3], s.fl, s.fr, s.w, found(x), p)
  <2>1. Call(<<x[1], x[2], -x[3], 0>>,
          Item(s.n, s.g, AdjoinedPos, x[2], x[3], s.fl, s.fr, s.w, found(x), p)) \in S
    BY <1>2, <1>4
  <2> QED  BY ZenonT(60), <2>1, CallFields
<1>5. ASSUME found(x) = 0
      PROVE  \E c \in S : c.t = Predict(auxs[x[1]], x[2], x[3], s.i, s.j, 0, 0)
  <2>1. Call(<<x[1], x[2], -x[3], 0>>, Predict(auxs[x[1]], x[2], x[3], s.i, s.j, 0, 0)) \in S
    BY <1>2, <1>5
  <2> QED  BY ZenonT(60), <2>1, CallFields
<1> HIDE DEF visits, S, x
<1> QED  BY <1>2, <1>3, <1>4, <1>5 DEF AuxCalling

\* The spans lie around the item within its goal's.
LEMMA AuxSpan ==
  ASSUME AllInv, NEW p \in Working, NEW aux, NEW a, NEW b, AuxVisit(states[p], aux, a, b)
  PROVE  /\ a \in 0 .. hand.last /\ b \in 0 .. hand.last
         /\ states[states[p].g].i <= a /\ b <= states[states[p].g].j
<1>1. PICK s : s = states[p]
  OBVIOUS
<1>2. PICK g : g = states[s.g]
  OBVIOUS
<1>3. /\ g.i <= s.i /\ s.j <= g.j
      /\ s.i \in 0 .. hand.last /\ s.j \in 0 .. hand.last /\ hand.last \in Nat
      /\ g.i \in 0 .. hand.last /\ g.j \in 0 .. hand.last
  BY <1>1, <1>2, WorkingFacts
<1>4. PICK start \in {s.i, g.i}, end \in {s.j, g.j} :
        <<a, b>> \in (start .. s.i) \X (s.j .. end)
  BY <1>1, <1>2 DEF AuxVisit, AdjoinSpans
<1>5. a \in start .. s.i /\ b \in s.j .. end
  BY <1>4
<1> QED  BY <1>1, <1>2, <1>3, <1>5

\* A tree that is visited is an auxiliary tree for the node.
LEMMA AuxFacts ==
  ASSUME hand \in Hands, NEW s, s.n \in hand.nodes, NEW aux, NEW a, NEW b, AuxVisit(s, aux, a, b)
  PROVE  /\ aux \in hand.nodes /\ hand.up[aux] = 0 /\ hand.foot[aux] # 0
         /\ hand.label[aux] = hand.label[s.n] /\ Footed(hand, aux) /\ hand.foot[aux] = hand.head[aux]
<1>1. PICK l : l = hand.label[s.n]
  OBVIOUS
<1>2. l \in DOMAIN hand.auxs
  BY <1>1, HandOK DEF ListsOK
<1>3. PICK k \in DOMAIN hand.auxs[l] : aux = hand.auxs[l][k]
  BY <1>1 DEF AuxVisit, AuxTrees
<1>4. /\ hand.auxs[l][k] \in hand.nodes /\ hand.up[hand.auxs[l][k]] = 0
      /\ hand.foot[hand.auxs[l][k]] # 0 /\ hand.label[hand.auxs[l][k]] = l
      /\ hand.kind[hand.head[hand.auxs[l][k]]] = "foot"
  BY <1>2, RootFacts
<1>5. aux \in hand.nodes /\ hand.up[aux] = 0 /\ hand.foot[aux] # 0
  BY <1>3, <1>4
<1>6. hand.foot[aux] = hand.head[aux]
  BY <1>5, NodeFacts
<1> QED  BY <1>1, <1>3, <1>4, <1>5, <1>6 DEF Footed

\* Adjunctions are made or asked for.
LEMMA AuxCalled ==
  ASSUME AllInv, GoalsAim, MoveUp, NEW p \in Working, p = plist[idx],
         NEW aux, NEW a, NEW b, AuxVisit(states[p], aux, a, b)
  PROVE  AuxArrives(p, aux, <<a, b>>)'
<1>1. /\ AllInv' /\ Grows /\ [Next]_vars /\ hand \in Hands /\ hand' = hand /\ states' = states
      /\ MayMoveUp(states[p]) => todo' = MoveUpCalls(p)
  BY MoveStep
<1>2. PICK s : s = states[p]
  OBVIOUS
<1>3. /\ a \in 0 .. hand.last /\ b \in 0 .. hand.last
      /\ states[s.g].i <= a /\ b <= states[s.g].j
      /\ s.i \in 0 .. hand.last /\ s.j \in 0 .. hand.last /\ hand.last \in Nat
  BY <1>2, AuxSpan, WorkingFacts
<1>4. todo' = AdjoinNothing(p) \cup AdjoinTrees(p)
  <2>1. states[p].pos = "bot" /\ states[p].n \in hand.adjoin
    BY DEF AuxVisit
  <2> QED  BY <1>1, <2>1, SpineMovesUp DEF MoveUpCalls, Adjoin
<1>5. PICK done : done = StateExists(a, b, aux, s.i, s.j)
  OBVIOUS
<1>6. /\ done # 0 => \E c \in todo' : c.t = Item(s.n, s.g, AdjoinedPos, a, b, s.fl, s.fr, s.w, done, p)
      /\ done = 0 => \E c \in todo' : c.t = Predict(aux, a, b, s.i, s.j, 0, 0)
  <2>1. AuxCalling(AdjoinTrees(p), p, s, aux, a, b, done)
    BY <1>2, <1>3, <1>5, AuxCalls
  <2> QED  BY <1>4, <2>1 DEF AuxCalling
<1>7. PICK w : w = Spot(aux, "top", a, b, s.i, s.j)
  OBVIOUS
<1>8. PICK f : f = Spot(s.n, AdjoinedPos, a, b, s.fl, s.fr)
  OBVIOUS
<1>9. AuxArrives(p, aux, <<a, b>>)' <=> Served(w, f, s.g)'
  <2>1. AdjoinedPos' = AdjoinedPos
    BY <1>1 DEF AdjoinedPos
  <2>2. w = Spot(aux, "top", <<a, b>>[1], <<a, b>>[2], states'[p].i, states'[p].j)
    BY <1>1, <1>2, <1>7
  <2>3. f = Spot(states'[p].n, AdjoinedPos', <<a, b>>[1], <<a, b>>[2], states'[p].fl, states'[p].fr)
    BY <1>1, <1>2, <1>8, <2>1
  <2> QED  BY <1>1, <1>2, <2>2, <2>3 DEF AuxArrives
<1>10. done # 0 <=> Found(w)
  <2>1. a \in 0 .. hand.last + 1 /\ b \in 0 .. hand.last + 1
    BY <1>3
  <2> QED  BY <1>5, <1>7, <2>1, ExistsIffFound
<1>11. CASE Found(w)
  <2>1. PICK t : t = Item(s.n, s.g, AdjoinedPos, a, b, s.fl, s.fr, s.w, done, p)
    OBVIOUS
  <2>2. \E c \in todo' : c.t = t
    BY <1>6, <1>10, <1>11, <2>1
  <2>3. t.type = "item" /\ Like(t, f) /\ t.g = states[p].g /\ f.i = a /\ f.j = b
    BY <1>2, <1>8, <2>1 DEF Spot, D!Fact, Like, Item
  <2>4. Comes({"item"}, f, s.g)'
    BY <1>1, <1>2, <1>3, <2>2, <2>3, ItemArrives
  <2>5. Arrives(w)'
    BY <1>1, <1>11, FoundArrives
  <2> QED  BY <1>1, <1>9, <2>4, <2>5, ServedNew
<1>12. CASE ~ Found(w)
  <2>1. PICK c \in todo' : c.t = Predict(aux, a, b, s.i, s.j, 0, 0)
    BY <1>6, <1>10, <1>12
  <2>2. c.t.type = "init" /\ Like(c.t, w) /\ c.t.g = 0
    BY <1>7, <2>1 DEF Predict, Like, Spot, D!Fact
  <2>3. Arrives(w)'
    BY <1>1, <2>2, CallArrives
  <2> QED  BY <1>1, <1>9, <1>12, <2>3, ServedNew
<1> QED  BY <1>11, <1>12

\* The completer adjoins a tree to the items its foot stands over.
LEMMA AuxCompleted ==
  ASSUME AllInv, GoalsAim, FeetFound, Completer, NEW q \in Working, q = plist[idx],
         NEW p \in Working, NEW s, s = states[p], NEW aux, NEW a, NEW b, AuxVisit(s, aux, a, b),
         NEW w, w = Spot(aux, "top", a, b, s.i, s.j), Like(states[q], w),
         NEW f, f = Spot(s.n, AdjoinedPos, a, b, s.fl, s.fr)
  PROVE  Comes({"item"}, f, s.g)'
<1>1. /\ AllInv' /\ Grows /\ q \in Ids /\ hand \in Hands
      /\ MayComplete(states[q]) => todo' = CompleterCalls(q)
  BY CompleterStep
<1>2. /\ states[q].n = aux /\ states[q].pos = "top" /\ states[q].i = a /\ states[q].j = b
      /\ states[q].fl = s.i /\ states[q].fr = s.j
  BY DEF Like, Spot, D!Fact
<1>3. /\ p \in Ids /\ p \in Nat /\ s.type = "item" /\ s.n \in hand.nodes
      /\ states[s.g].i <= a /\ b <= states[s.g].j
  BY WorkingFacts, AuxSpan
<1>4. /\ aux \in hand.nodes /\ hand.up[aux] = 0 /\ hand.foot[aux] # 0
      /\ hand.label[aux] = hand.label[s.n] /\ Footed(hand, aux) /\ hand.foot[aux] = hand.head[aux]
  BY <1>1, <1>3, AuxFacts
<1>5. s.pos = "bot" /\ s.n \in hand.adjoin
  BY DEF AuxVisit
<1>6. todo' = CompleteAux(q)
  <2>1. SpineTop(hand, states[q].n)
    BY <1>2, <1>4 DEF SpineTop
  <2>2. MayComplete(states[q])
    BY <1>2, <2>1, SpineCompletes
  <2> QED  BY <1>1, <1>2, <1>4, <2>2 DEF CompleterCalls
<1>7. PICK k \in DOMAIN CellOf(s.i, s.j) : CellOf(s.i, s.j)[k] = p
  BY <1>3, InCell
<1>8. PICK l \in DOMAIN CellOf(s.i, s.j) :
        LET x == states[CellOf(s.i, s.j)[l]]
        IN /\ x.n = hand.foot[aux] /\ x.pos = "bot" /\ x.type = "item"
           /\ x.fl = s.i /\ x.fr = s.j
  <2>1. OnFoot(states[q])
    BY DEF FeetFound, Working
  <2>2. Found(FootBelow(states[q]))
    BY <1>2, <1>4, <2>1 DEF OnFoot
  <2>3. PICK x \in ItemIds : Like(states[x], FootBelow(states[q]))
    BY <2>2 DEF Found
  <2>4. /\ x \in Ids /\ states[x].type = "item" /\ states[x].n = hand.head[aux] /\ states[x].pos = "bot"
        /\ states[x].i = s.i /\ states[x].j = s.j /\ states[x].fl = s.i /\ states[x].fr = s.j
    BY <1>2, <2>3 DEF ItemIds, Like, FootBelow, Spot, D!Fact
  <2>5. \E l \in DOMAIN CellOf(s.i, s.j) : CellOf(s.i, s.j)[l] = x
    BY <2>4, InCell
  <2> QED  BY <1>4, <2>4, <2>5
<1>9. PICK t : t = Item(s.n, s.g, AdjoinedPos, a, b, s.fl, s.fr, s.w, q, p)
  OBVIOUS
<1>10. Call(<<k, 0, 0, 0>>, t) \in CompleteAux(q)
  <2> DEFINE cell == CellOf(states[q].fl, states[q].fr)
             base == {m \in DOMAIN cell :
                        LET x == states[cell[m]]
                        IN /\ x.n \in hand.adjoin /\ hand.label[x.n] = hand.label[states[q].n]
                           /\ x.pos = "bot" /\ x.type = "item"}
             call(m) == LET x == states[cell[m]]
                        IN Call(<<m, 0, 0, 0>>,
                             Item(x.n, x.g, AdjoinedPos, states[q].i, states[q].j,
                                  x.fl, x.fr, x.w, q, cell[m]))
  <2>1. k \in DOMAIN cell /\ cell[k] = p
    BY <1>2, <1>7
  <2>2. \E m \in DOMAIN cell :
          LET x == states[cell[m]]
          IN /\ x.n = hand.foot[states[q].n] /\ x.pos = "bot" /\ x.type = "item"
             /\ x.fl = states[q].fl /\ x.fr = states[q].fr
    BY <1>2, <1>8
  <2>3. CompleteAux(q) = {call(m) : m \in base}
    BY <2>2 DEF CompleteAux
  <2>4. k \in base
    BY <1>2, <1>3, <1>4, <1>5, <2>1
  <2>5. call(k) = Call(<<k, 0, 0, 0>>, t)
    BY <1>2, <1>9, <2>1
  <2> HIDE DEF cell, base, call
  <2> QED  BY <2>3, <2>4, <2>5
<1>11. \E c \in todo' : c.t = t
  BY <1>6, <1>10, CallFields
<1>12. t.type = "item" /\ Like(t, f) /\ t.g = states[p].g /\ f.i = a /\ f.j = b
  BY <1>9 DEF Spot, D!Fact, Like, Item
<1> QED  BY <1>1, <1>3, <1>11, <1>12, ItemArrives

\* Adjunctions that have been asked for come, step by step.
LEMMA AuxArrivesKept ==
  ASSUME AllInv, GoalsAim, FeetFound, [Next]_vars, NEW p \in Working, NEW s, s = states[p],
         NEW aux, NEW a, NEW b, AuxVisit(s, aux, a, b), AuxArrives(p, aux, <<a, b>>)
  PROVE  AuxArrives(p, aux, <<a, b>>)'
<1>1. p \in Ids /\ states[p].type = "item" /\ Grows /\ s.g \in Ids
  BY NextGrows, WorkingFacts
<1>2. /\ hand' = hand /\ states'[p].n = s.n /\ states'[p].i = s.i /\ states'[p].j = s.j
      /\ states'[p].fl = s.fl /\ states'[p].fr = s.fr /\ states'[p].g = s.g
  BY <1>1, GrowsFields
<1>3. PICK w : w = Spot(aux, "top", a, b, s.i, s.j)
  OBVIOUS
<1>4. PICK f : f = Spot(s.n, AdjoinedPos, a, b, s.fl, s.fr)
  OBVIOUS
<1>5. AuxArrives(p, aux, <<a, b>>)' <=> Served(w, f, s.g)'
  <2>1. AdjoinedPos' = AdjoinedPos
    BY <1>2 DEF AdjoinedPos
  <2>2. w = Spot(aux, "top", <<a, b>>[1], <<a, b>>[2], states'[p].i, states'[p].j)
    BY <1>2, <1>3
  <2>3. f = Spot(states'[p].n, AdjoinedPos', <<a, b>>[1], <<a, b>>[2], states'[p].fl, states'[p].fr)
    BY <1>2, <1>4, <2>1
  <2> QED  BY <1>2, <2>2, <2>3 DEF AuxArrives
<1>6. Served(w, f, s.g)
  BY <1>3, <1>4 DEF AuxArrives
<1>7. ASSUME Completer, plist[idx] \in Working, Like(states[plist[idx]], w)
      PROVE  Comes({"item"}, f, s.g)'
  <2>1. PICK q \in Working : q = plist[idx]
    BY <1>7
  <2>2. Like(states[q], w)
    BY <1>7, <2>1
  <2> QED  BY <1>3, <1>4, <1>7, <2>1, <2>2, AuxCompleted
<1> QED  BY <1>1, <1>5, <1>6, <1>7, ServedKept

\* hparse_left_head or hparse_right_head visits the span from a to b.
SibVisit(s, a, b) ==
  /\ s.pos = "top" /\ hand.side[s.n] # "only" /\ hand.head[hand.up[s.n]] = hand.head[s.n]
  /\ <<a, b>> \in SpansBeside(s, states[s.g])

\* Where the span lies.
SibSides(s, a, b) ==
  /\ hand.side[s.n] = "left" => a = s.j /\ b \in s.j .. states[s.g].j
  /\ hand.side[s.n] # "left" => b = s.i /\ a \in states[s.g].i .. s.i
  /\ hand.kind[hand.head[hand.sibling[s.n]]] = "eps" => a = b
  /\ EmptySubst(hand.sibling[s.n]) => a # b

\* The spans lie beside the item within its goal's.
LEMMA SibSpan ==
  ASSUME AllInv, NEW p \in Working, NEW s, s = states[p],
         NEW a, NEW b, SibVisit(s, a, b)
  PROVE  /\ a \in 0 .. hand.last /\ b \in 0 .. hand.last /\ states[s.g].i <= a /\ b <= states[s.g].j
         /\ SibSides(s, a, b)
<1>1. /\ states[s.g].i <= s.i /\ s.j <= states[s.g].j /\ s.i <= s.j
      /\ s.i \in 0 .. hand.last /\ s.j \in 0 .. hand.last /\ hand.last \in Nat
      /\ states[s.g].i \in 0 .. hand.last /\ states[s.g].j \in 0 .. hand.last
  BY WorkingFacts DEF Covers
<1>2. /\ hand.side[s.n] = "left" => a = s.j /\ b \in s.j .. states[s.g].j
      /\ hand.side[s.n] # "left" => b = s.i /\ a \in states[s.g].i .. s.i
      /\ hand.kind[hand.head[hand.sibling[s.n]]] = "eps" => a = b
      /\ EmptySubst(hand.sibling[s.n]) => a # b
  <2>1. /\ <<a, b>> \in IF hand.side[s.n] = "left" THEN {s.j} \X (s.j .. states[s.g].j) ELSE (states[s.g].i .. s.i) \X {s.i}
        /\ hand.kind[hand.head[hand.sibling[s.n]]] = "eps" => <<a, b>>[1] = <<a, b>>[2]
        /\ EmptySubst(hand.sibling[s.n]) => <<a, b>>[1] # <<a, b>>[2]
    BY DEF SibVisit, SpansBeside
  <2> QED  BY <2>1
<1> QED  BY <1>1, <1>2 DEF SibSides

\* The sibling of a head.
LEMMA SibFacts ==
  ASSUME hand \in Hands, NEW s, s.n \in hand.nodes, NEW a, NEW b, SibVisit(s, a, b)
  PROVE  LET m == hand.sibling[s.n]
         IN /\ m \in hand.nodes /\ hand.up[s.n] \in hand.nodes /\ hand.up[s.n] # 0
            /\ hand.up[m] = hand.up[s.n] /\ m # hand.up[s.n] /\ SpineTop(hand, m) /\ ~ Footed(hand, m)
            /\ hand.side[s.n] = "left" => hand.side[m] = "right"
            /\ hand.side[s.n] # "left" => hand.side[s.n] = "right" /\ hand.side[m] = "left"
<1>1. /\ hand.side[s.n] # "only" /\ hand.head[hand.up[s.n]] = hand.head[s.n]
  BY DEF SibVisit
<1>2. PICK m : m = hand.sibling[s.n]
  OBVIOUS
<1>3. /\ m \in hand.nodes /\ hand.up[m] = hand.up[s.n]
      /\ hand.side[s.n] = "left" => hand.side[m] = "right"
      /\ hand.side[s.n] = "right" => hand.side[m] = "left"
  BY <1>1, <1>2, SiblingFacts
<1>4. hand.side[s.n] \in {"only", "left", "right"} /\ hand.up[s.n] # 0 /\ hand.up[s.n] \in hand.nodes \cup {0}
  BY <1>1, NodeFacts
<1>5. m # hand.up[s.n]
  BY <1>3, <1>4, NodeFacts
<1>6. hand.head[s.n] # hand.head[m]
  BY <1>1, <1>2, <1>4, HandOK DEF HeadsOK
<1>7. SpineTop(hand, m)
  BY <1>1, <1>3, <1>6 DEF SpineTop
<1>8. ~ Footed(hand, m)
  BY <1>3, <1>4, <1>7, NodeFacts DEF Footed
<1> QED  BY <1>1, <1>2, <1>3, <1>4, <1>5, <1>7, <1>8

\* The call for one span.
SibCalling(S, p, s, w, f, done) ==
  /\ done # 0 => \E c \in S : c.t.type = "item" /\ Like(c.t, f) /\ c.t.g = s.g
  /\ done = 0 => \E c \in S : c.t.type = "init" /\ c.t.g = 0 /\ AsksFor(c.t, w, p)
  /\ \A c \in S : c.t.n # hand.up[s.n] => c.t.type # "item"

\* The call of hparse_left_head for one span.
LEMMA LeftCalls ==
  ASSUME AllInv, NEW p \in Working, NEW s, s = states[p],
         NEW a, NEW b, SibVisit(s, a, b), hand.side[s.n] = "left",
         NEW w, w = Spot(hand.sibling[s.n], "top", a, b, ef, ef),
         NEW f, f = Joined(s, a, b),
         NEW done, done = StateExists(a, b, hand.sibling[s.n], ef, ef)
  PROVE  SibCalling(LeftHead(p), p, s, w, f, done)
<1> DEFINE r == hand.sibling[s.n]
           end == IF hand.kind[hand.head[r]] = "eps" THEN s.j + 1 ELSE states[s.g].j
           ends == {k \in s.j .. end : EmptySubst(r) => k # s.j}
           found(k) == StateExists(s.j, k, r, ef, ef)
           item(k) == Item(hand.up[s.n], s.g, "bot", s.i, k, s.fl, s.fr,
                           s.w \o states[found(k)].w, p, found(k))
           init(k) == Predict(r, s.j, k, ef, ef, 0, p)
           call(k) == Call(<<-k, 0, 0, 0>>, IF found(k) # 0 THEN item(k) ELSE init(k))
<1>1. LeftHead(p) = {call(k) : k \in ends}
  BY DEF LeftHead
<1>2. /\ a = s.j /\ b \in s.j .. states[s.g].j /\ s.j \in Int
      /\ hand.kind[hand.head[r]] = "eps" => a = b
      /\ EmptySubst(r) => a # b
  <2>1. s.j \in 0 .. hand.last /\ hand.last \in Nat
    BY WorkingFacts
  <2>2. /\ hand.side[s.n] = "left" => a = s.j /\ b \in s.j .. states[s.g].j
        /\ hand.side[s.n] # "left" => b = s.i /\ a \in states[s.g].i .. s.i
        /\ hand.kind[hand.head[hand.sibling[s.n]]] = "eps" => a = b
        /\ EmptySubst(hand.sibling[s.n]) => a # b
    BY ZenonT(60), SibSpan DEF SibSides
  <2> QED  BY <2>1, <2>2
<1>3. b \in ends
  BY <1>2
<1>4. p # 0
  BY WorkingFacts
<1>5. \A k : call(k).t = IF found(k) # 0 THEN item(k) ELSE init(k)
  BY CallFields
<1>6. found(b) = done
  BY <1>2
<1>7. /\ w.n = r /\ w.pos = "top" /\ w.i = a /\ w.j = b /\ w.fl = ef /\ w.fr = ef
  BY DEF Spot, D!Fact
<1>8. /\ f.n = hand.up[s.n] /\ f.pos = "bot" /\ f.i = s.i /\ f.j = b /\ f.fl = s.fl /\ f.fr = s.fr
  BY DEF Joined, Spot, D!Fact
<1>9. item(b).type = "item" /\ Like(item(b), f) /\ item(b).g = s.g
  BY <1>8 DEF Item, Like
<1>10. init(b).type = "init" /\ init(b).g = 0 /\ AsksFor(init(b), w, p)
  <2>1. init(b).bp = <<[b |-> 0, c |-> p]>>
    BY <1>4 DEF Predict, Ptrs
  <2>2. 1 \in DOMAIN init(b).bp /\ init(b).bp[1].c = p
    BY SMTT(30), <2>1
  <2>3. init(b).type = "init" /\ init(b).g = 0 /\ Like(init(b), w)
    BY <1>2, <1>7 DEF Predict, Like
  <2> QED  BY <2>2, <2>3 DEF AsksFor
<1>11. ASSUME NEW k
       PROVE  call(k).t.n # hand.up[s.n] => call(k).t.type # "item"
  <2>1. item(k).n = hand.up[s.n] /\ init(k).type = "init"
    BY DEF Item, Predict
  <2> QED  BY ZenonT(60), <1>5, <2>1
<1>12. call(b) \in LeftHead(p)
  BY ZenonT(60), <1>1, <1>3
<1>13. \A c \in LeftHead(p) : \E k : c = call(k)
  BY <1>1
<1> HIDE DEF call, item, init, found, ends
<1> QED  BY <1>5, <1>6, <1>9, <1>10, <1>11, <1>12, <1>13 DEF SibCalling

\* The call of hparse_right_head for one span.
LEMMA RightCalls ==
  ASSUME AllInv, NEW p \in Working, NEW s, s = states[p],
         NEW a, NEW b, SibVisit(s, a, b), hand.side[s.n] = "right",
         NEW w, w = Spot(hand.sibling[s.n], "top", a, b, ef, ef),
         NEW f, f = Joined(s, a, b),
         NEW done, done = StateExists(a, b, hand.sibling[s.n], ef, ef)
  PROVE  SibCalling(RightHead(p), p, s, w, f, done)
<1> DEFINE l == hand.sibling[s.n]
           start == IF hand.kind[hand.head[l]] = "eps" THEN s.i ELSE states[s.g].i
           starts == {k \in start .. s.i : EmptySubst(l) => k # s.i}
           found(k) == StateExists(k, s.i, l, ef, ef)
           item(k) == Item(hand.up[s.n], s.g, "bot", k, s.j, s.fl, s.fr,
                           states[found(k)].w \o s.w, found(k), p)
           init(k) == Predict(l, k, s.i, ef, ef, p, 0)
           call(k) == Call(<<k, 0, 0, 0>>, IF found(k) # 0 THEN item(k) ELSE init(k))
<1>1. RightHead(p) = {call(k) : k \in starts}
  BY DEF RightHead
<1>2. /\ b = s.i /\ a \in states[s.g].i .. s.i /\ s.i \in Int
      /\ hand.kind[hand.head[l]] = "eps" => a = b
      /\ EmptySubst(l) => a # b
  <2>1. s.i \in 0 .. hand.last /\ hand.last \in Nat
    BY WorkingFacts
  <2>2. /\ hand.side[s.n] = "left" => a = s.j /\ b \in s.j .. states[s.g].j
        /\ hand.side[s.n] # "left" => b = s.i /\ a \in states[s.g].i .. s.i
        /\ hand.kind[hand.head[hand.sibling[s.n]]] = "eps" => a = b
        /\ EmptySubst(hand.sibling[s.n]) => a # b
    BY ZenonT(60), SibSpan DEF SibSides
  <2> QED  BY <2>1, <2>2
<1>3. a \in starts
  BY <1>2
<1>4. p # 0
  BY WorkingFacts
<1>5. \A k : call(k).t = IF found(k) # 0 THEN item(k) ELSE init(k)
  BY CallFields
<1>6. found(a) = done
  BY <1>2
<1>7. /\ w.n = l /\ w.pos = "top" /\ w.i = a /\ w.j = b /\ w.fl = ef /\ w.fr = ef
  BY DEF Spot, D!Fact
<1>8. /\ f.n = hand.up[s.n] /\ f.pos = "bot" /\ f.i = a /\ f.j = s.j /\ f.fl = s.fl /\ f.fr = s.fr
  BY DEF Joined, Spot, D!Fact
<1>9. item(a).type = "item" /\ Like(item(a), f) /\ item(a).g = s.g
  BY <1>8 DEF Item, Like
<1>10. init(a).type = "init" /\ init(a).g = 0 /\ AsksFor(init(a), w, p)
  <2>1. init(a).bp = <<[b |-> p, c |-> 0]>>
    BY <1>4 DEF Predict, Ptrs
  <2>2. 1 \in DOMAIN init(a).bp /\ init(a).bp[1].b = p
    BY <2>1
  <2>3. init(a).type = "init" /\ init(a).g = 0 /\ Like(init(a), w)
    BY <1>2, <1>7 DEF Predict, Like
  <2> QED  BY <2>2, <2>3 DEF AsksFor
<1>11. ASSUME NEW k
       PROVE  call(k).t.n # hand.up[s.n] => call(k).t.type # "item"
  <2>1. item(k).n = hand.up[s.n] /\ init(k).type = "init"
    BY DEF Item, Predict
  <2> QED  BY ZenonT(60), <1>5, <2>1
<1>12. call(a) \in RightHead(p)
  BY ZenonT(60), <1>1, <1>3
<1>13. \A c \in RightHead(p) : \E k : c = call(k)
  BY <1>1
<1> HIDE DEF call, item, init, found, starts
<1> QED  BY <1>5, <1>6, <1>9, <1>10, <1>11, <1>12, <1>13 DEF SibCalling

\* The parent is made, or the sibling asked for.
LEMMA SibCalled ==
  ASSUME AllInv, GoalsAim, MoveUp, NEW p \in Working, p = plist[idx], NEW s, s = states[p],
         NEW a, NEW b, SibVisit(s, a, b)
  PROVE  SiblingArrives(p, <<a, b>>)'
<1>1. /\ AllInv' /\ Grows /\ [Next]_vars /\ hand \in Hands /\ hand' = hand /\ states' = states
      /\ Ids' = Ids
      /\ MayMoveUp(states[p]) => todo' = MoveUpCalls(p)
  BY MoveStep
<1>2. /\ s.pos = "top" /\ hand.side[s.n] # "only" /\ hand.head[hand.up[s.n]] = hand.head[s.n]
      /\ s.n \in hand.nodes
  BY ZenonT(60), WorkingFacts DEF SibVisit
<1>3. /\ hand.sibling[s.n] \in hand.nodes /\ hand.up[s.n] # 0 /\ hand.sibling[s.n] # hand.up[s.n]
      /\ hand.side[s.n] # "left" => hand.side[s.n] = "right"
  BY <1>1, <1>2, SibFacts
<1>4. /\ a \in 0 .. hand.last /\ b \in 0 .. hand.last /\ states[s.g].i <= a /\ b <= states[s.g].j
      /\ states[s.g].i <= s.i /\ s.j <= states[s.g].j /\ hand.last \in Nat
  BY SibSpan, WorkingFacts
<1>5. todo' = IF hand.side[s.n] = "left" THEN LeftHead(p) ELSE RightHead(p)
  <2>1. MayMoveUp(states[p])
    BY <1>2, <1>3, SpineMovesUp
  <2>2. todo' = MoveUpCalls(p)
    BY <1>1, <2>1
  <2>3. CASE hand.side[s.n] = "left"
    BY <1>2, <2>2, <2>3 DEF MoveUpCalls
  <2>4. CASE hand.side[s.n] = "right"
    BY <1>2, <2>2, <2>4 DEF MoveUpCalls
  <2> QED  BY <1>3, <2>3, <2>4
<1>6. PICK w : w = Spot(hand.sibling[s.n], "top", a, b, ef, ef)
  OBVIOUS
<1>7. PICK f : f = Joined(s, a, b)
  OBVIOUS
<1>8. PICK done : done = StateExists(a, b, hand.sibling[s.n], ef, ef)
  OBVIOUS
<1>9. SibCalling(todo', p, s, w, f, done)
  <2>1. CASE hand.side[s.n] = "left"
    <3>1. SibCalling(LeftHead(p), p, s, w, f, done)
      BY <1>6, <1>7, <1>8, <2>1, LeftCalls
    <3> QED  BY <1>5, <2>1, <3>1
  <2>2. CASE hand.side[s.n] # "left"
    <3>1. SibCalling(RightHead(p), p, s, w, f, done)
      BY <1>3, <1>6, <1>7, <1>8, <2>2, RightCalls
    <3> QED  BY <1>5, <2>2, <3>1
  <2> QED  BY <2>1, <2>2
<1>10. SiblingArrives(p, <<a, b>>)' <=> Served(w, f, s.g)' /\ (Comes({"item"}, f, s.g)' \/ Asking(p, w)')
  <2>1. f = Joined(states[p], <<a, b>>[1], <<a, b>>[2])'
    BY <1>1, <1>7 DEF Joined
  <2>2. w = Spot(hand'.sibling[states'[p].n], "top", <<a, b>>[1], <<a, b>>[2], ef, ef)
    BY <1>1, <1>6
  <2> QED  BY <1>1, <2>1, <2>2 DEF SiblingArrives
<1>11. done # 0 <=> Found(w)
  <2>1. a \in 0 .. hand.last + 1 /\ b \in 0 .. hand.last + 1
    BY <1>4
  <2> QED  BY <1>6, <1>8, <2>1, ExistsIffFound
<1>12. CASE Found(w)
  <2>1. PICK c \in todo' : c.t.type = "item" /\ Like(c.t, f) /\ c.t.g = s.g
    BY <1>9, <1>11, <1>12 DEF SibCalling
  <2>2. states[s.g].i <= f.i /\ f.j <= states[s.g].j
    BY <1>4, <1>7 DEF Joined, Spot, D!Fact
  <2>3. Comes({"item"}, f, s.g)'
    BY <1>1, <2>1, <2>2, ItemArrives
  <2>4. Arrives(w)'
    BY <1>1, <1>12, FoundArrives
  <2> QED  BY <1>1, <1>10, <2>3, <2>4, ServedNew
<1>13. CASE ~ Found(w)
  <2>1. PICK c \in todo' : c.t.type = "init" /\ c.t.g = 0 /\ AsksFor(c.t, w, p)
    BY <1>9, <1>11, <1>13 DEF SibCalling
  <2>2. Like(c.t, w)
    BY <2>1 DEF AsksFor
  <2>3. Arrives(w)'
    BY <1>1, <2>1, <2>2, CallArrives
  <2>4. Asking(p, w)'
    <3>1. AsksFor(c.t, w, p)'
      BY <1>1, <2>1 DEF AsksFor, Like
    <3>2. \A q \in ItemIds' : ~ Like(states'[q], w)
      <4>1. \A q \in ItemIds : ~ Like(states[q], w)
        BY <1>13 DEF Found
      <4>2. ItemIds' = ItemIds
        BY <1>1 DEF ItemIds
      <4> QED  BY <1>1, <4>1, <4>2
    <3>3. \A d \in todo' : d.t.type = "item" => ~ Like(d.t, w)
      BY <1>3, <1>6, <1>9 DEF SibCalling, Like, Spot, D!Fact
    <3> QED  BY <2>1, <3>1, <3>2, <3>3 DEF Asking, Like
  <2> QED  BY <1>1, <1>10, <1>13, <2>3, <2>4, ServedNew
<1> QED  BY <1>12, <1>13

\* A head that has asked for its sibling is not forgotten.
LEMMA AskingKept ==
  ASSUME AllInv, GoalsAim, [Next]_vars, NEW p \in Working, NEW w, Asking(p, w)
  PROVE  Asking(p, w)'
<1>1. /\ AllInv' /\ Grows /\ p \in Ids /\ hand' = hand /\ states'[p].n = states[p].n
  BY AllNext, NextGrows, GrowsFields DEF Working, ItemIds
<1>2. /\ Ids = 1 .. Len(states) /\ Len(states) \in Nat
  BY TypesAre
<1>3. Ids' \subseteq Nat \ {0}
  BY <1>1 DEF AllInv, DeductionInv, Inv, Inductive, TypeOK, Ids
<1>4. \A q \in Ids : /\ q \in Ids' /\ (states'[q].type = "item" <=> states[q].type = "item")
                     /\ Like(states'[q], states[q])
  BY <1>1, GrowsFields
<1>5. CASE \E d \in Ids : /\ AsksFor(states[d], w, p)
                          /\ \A q \in ItemIds : Like(states[q], w) => q > d
  <2>1. PICK d \in Ids : /\ AsksFor(states[d], w, p)
                         /\ \A q \in ItemIds : Like(states[q], w) => q > d
    BY <1>5
  <2>2. AsksFor(states[d], w, p)'
    <3>1. PICK k \in DOMAIN states[d].bp :
            p = IF hand.side[states[p].n] = "left" THEN states[d].bp[k].c ELSE states[d].bp[k].b
      BY <2>1 DEF AsksFor
    <3>2. PICK l \in DOMAIN states'[d].bp : states'[d].bp[l] = states[d].bp[k]
      BY <1>1 DEF Grows, PtrsKept
    <3>3. states'[d].type # "item" /\ Like(states'[d], w)
      BY <1>4, <2>1 DEF AsksFor, Like
    <3> QED  BY <1>1, <3>1, <3>2, <3>3 DEF AsksFor, Like
  <2>3. ASSUME NEW q \in ItemIds', Like(states'[q], w)
        PROVE  q > d
    <3>1. q \in Ids' /\ states'[q].type = "item"
      BY DEF ItemIds
    <3>2. CASE q \in Ids
      <4>1. Like(states[q], w) /\ q \in ItemIds
        BY <1>4, <2>3, <3>1, <3>2 DEF Like, ItemIds
      <4> QED  BY <2>1, <4>1
    <3>3. CASE q \notin Ids
      BY <1>2, <1>3, <3>1, <3>3
    <3> QED  BY <3>2, <3>3
  <2>4. d \in Ids'
    BY <1>4
  <2> QED  BY <2>2, <2>3, <2>4 DEF Asking, Like
<1>6. CASE /\ \E r \in todo : AsksFor(r.t, w, p) /\ r.t.type = "init" /\ r.t.g = 0
           /\ \A q \in ItemIds : ~ Like(states[q], w)
           /\ \A r \in todo : r.t.type = "item" => ~ Like(r.t, w)
  <2>1. PICK r \in todo : AsksFor(r.t, w, p) /\ r.t.type = "init" /\ r.t.g = 0
    BY SMTT(30), <1>6
  <2>2. CASE UNCHANGED vars
    BY <1>6, <2>2 DEF vars, Asking, AsksFor, ItemIds, Ids, Like
  <2>3. CASE Add
    <3>1. PICK x \in todo : todo' = todo \ {x} /\ Added(x.t)
      BY <1>1, <2>3, AddGrows
    <3>2. \A q \in Ids' : q \in Ids \/ states'[q] = x.t
      BY <3>1 DEF Added
    <3>3. \A q \in ItemIds' : ~ Like(states'[q], w)
      <4> SUFFICES ASSUME NEW q \in ItemIds', Like(states'[q], w)
                   PROVE  FALSE
        OBVIOUS
      <4>1. q \in Ids' /\ states'[q].type = "item"
        BY DEF ItemIds
      <4>2. CASE q \in Ids
        <5>1. Like(states[q], w) /\ q \in ItemIds
          BY <1>4, <4>1, <4>2 DEF Like, ItemIds
        <5> QED  BY <1>6, <5>1
      <4>3. CASE states'[q] = x.t
        BY <1>6, <4>1, <4>3
      <4> QED  BY <3>2, <4>1, <4>2, <4>3
    <3>4. CASE x = r
      <4>1. ~ OutOfGoal(r.t)
        BY <2>1 DEF OutOfGoal
      <4>2. PICK d \in Ids' : StandsFor(states'[d], r.t) /\ PtrsKept(states'[d], r.t)
        BY <2>1, <3>1, <3>4, <4>1 DEF Added, Taken
      <4>3. states'[d].type # "item" /\ Like(states'[d], w)
        BY <2>1, <4>2 DEF StandsFor, AsksFor, Like
      <4>4. PICK k \in DOMAIN r.t.bp :
              p = IF hand.side[states[p].n] = "left" THEN r.t.bp[k].c ELSE r.t.bp[k].b
        BY <2>1 DEF AsksFor
      <4>5. PICK l \in DOMAIN states'[d].bp : states'[d].bp[l] = r.t.bp[k]
        BY <4>2 DEF PtrsKept
      <4>6. AsksFor(states[d], w, p)'
        BY <1>1, <4>3, <4>4, <4>5 DEF AsksFor, Like
      <4> QED  BY <3>3, <4>6 DEF Asking, Like
    <3>5. CASE x # r
      <4>1. AsksFor(r.t, w, p)'
        BY <1>1, <2>1 DEF AsksFor, Like
      <4>2. r \in todo' /\ \A y \in todo' : y.t.type = "item" => ~ Like(y.t, w)
        BY <1>6, <3>1, <3>5
      <4> QED  BY <2>1, <3>3, <4>1, <4>2 DEF Asking, Like
    <3> QED  BY <3>4, <3>5
  <2>4. UNCHANGED vars \/ Add
    BY <2>1 DEF Next, InitHead, MoveUp, Completer, NextList, Current
  <2> QED  BY <2>2, <2>3, <2>4
<1> QED  BY <1>5, <1>6 DEF Asking

\* The completer joins a sibling that has been asked for with the head.
LEMMA SibCompleted ==
  ASSUME AllInv, GoalsAim, Completer, NEW q \in Working, q = plist[idx],
         NEW p \in Working, NEW s, s = states[p], NEW a, NEW b, SibVisit(s, a, b),
         NEW w, w = Spot(hand.sibling[s.n], "top", a, b, ef, ef), Like(states[q], w),
         NEW f, f = Joined(s, a, b), Asking(p, w)
  PROVE  Comes({"item"}, f, s.g)'
<1>1. /\ AllInv' /\ Grows /\ q \in Ids /\ hand \in Hands /\ todo = {}
      /\ MayComplete(states[q]) => todo' = CompleterCalls(q)
  BY CompleterStep
<1>2. /\ states[q].n = hand.sibling[s.n] /\ states[q].pos = "top" /\ states[q].i = a /\ states[q].j = b
  BY DEF Like, Spot, D!Fact
<1>3. /\ p \in Ids /\ p \in Nat /\ p # 0 /\ s.type = "item" /\ s.n \in hand.nodes
      /\ states[s.g].i <= s.i /\ s.j <= states[s.g].j /\ q \in Nat
  BY WorkingFacts
<1>4. /\ hand.sibling[s.n] \in hand.nodes /\ hand.up[hand.sibling[s.n]] = hand.up[s.n]
      /\ hand.up[s.n] # 0 /\ SpineTop(hand, hand.sibling[s.n])
      /\ hand.side[s.n] = "left" => hand.side[hand.sibling[s.n]] = "right"
      /\ hand.side[s.n] # "left" => hand.side[hand.sibling[s.n]] = "left"
  BY <1>1, <1>3, SibFacts
<1>5. states[s.g].i <= a /\ b <= states[s.g].j
  BY SibSpan
<1>6. todo' = CompleterCalls(q)
  BY <1>1, <1>2, <1>4, SpineCompletes
<1>7. PICK d \in Ids : AsksFor(states[d], w, p) /\ \A x \in ItemIds : Like(states[x], w) => x > d
  BY <1>1 DEF Asking
<1>8. /\ states[d].n = hand.sibling[s.n] /\ states[d].pos = "top" /\ states[d].i = a /\ states[d].j = b
      /\ states[d].type # "item"
  BY <1>7 DEF AsksFor, Like, Spot, D!Fact
<1>9. states[d].type = "goal"
  <2>1. q > d
    BY <1>7 DEF Working
  <2>2. q = DoneMark /\ DoneMark = First + idx - 1 /\ First \in Int /\ idx \in Int
    BY MarksAre DEF Completer, DoneMark
  <2>3. d \in Nat
    BY TypesAre
  <2>4. states[d].type # "init"
    <3>1. states[d].type = "init" => d >= First + idx
      BY DEF AllInv, AgendaInv, OnLists, Expanded, Completer
    <3> QED  BY <2>1, <2>2, <2>3, <3>1
  <2> QED  BY <1>8, <2>4, TypesAre DEF AnyType
<1>10. PICK m \in DOMAIN CellOf(a, b) : CellOf(a, b)[m] = d
  BY <1>8, InCell
<1>11. PICK k \in DOMAIN states[d].bp :
         p = IF hand.side[s.n] = "left" THEN states[d].bp[k].c ELSE states[d].bp[k].b
  BY <1>7 DEF AsksFor
<1>12. PICK x \in Asked(states[q]) : x[1] = m /\ x[2] = k
  <2> DEFINE goals == {x \in DOMAIN CellOf(a, b) :
                         LET y == states[CellOf(a, b)[x]]
                         IN y.n = states[q].n /\ y.pos = "top" /\ y.type = "goal"}
  <2>1. m \in goals /\ k \in DOMAIN states[CellOf(a, b)[m]].bp
    BY <1>2, <1>8, <1>9, <1>10, <1>11
  <2>2. Asked(states[q]) = UNION {{<<x, y>> : y \in DOMAIN states[CellOf(a, b)[x]].bp} : x \in goals}
    BY <1>2 DEF Asked
  <2> HIDE DEF goals
  <2>3. <<m, k>> \in Asked(states[q])
    BY <2>1, <2>2
  <2> QED  BY <2>3
<1>13. CASE hand.side[s.n] = "left"
  <2> DEFINE head(v) == states[CellOf(states[q].i, states[q].j)[v[1]]].bp[v[2]].c
             call(v) == Call(<<v[1], v[2], 0, 0>>,
                          Item(hand.up[states[q].n], states[head(v)].g, "bot", states[head(v)].i,
                               states[q].j, states[head(v)].fl, states[head(v)].fr,
                               states[head(v)].w \o states[q].w, head(v), q))
  <2>1. CompleteRight(q) = {call(v) : v \in {u \in Asked(states[q]) : head(u) # 0}}
    BY DEF CompleteRight
  <2>2. head(x) = p
    BY ZenonT(60), <1>2, <1>10, <1>11, <1>12, <1>13
  <2>3. todo' = CompleteRight(q)
    BY <1>2, <1>4, <1>6, <1>13 DEF CompleterCalls
  <2>4. \A v : call(v).t = Item(hand.up[states[q].n], states[head(v)].g, "bot", states[head(v)].i,
                        states[q].j, states[head(v)].fl, states[head(v)].fr,
                        states[head(v)].w \o states[q].w, head(v), q)
    <3> HIDE DEF head
    <3> QED  BY CallFields
  <2> HIDE DEF call, head
  <2>5. PICK t : t = Item(hand.up[states[q].n], s.g, "bot", s.i, states[q].j, s.fl, s.fr,
                          s.w \o states[q].w, p, q)
    OBVIOUS
  <2>6. call(x).t = t
    BY SMTT(30), <2>2, <2>4, <2>5
  <2>7. t.type = "item" /\ Like(t, f) /\ t.g = states[p].g /\ f.i = s.i /\ f.j = b
    BY <1>2, <1>4, <1>13, <2>5 DEF Joined, Spot, D!Fact, Like, Item
  <2>8. call(x) \in todo'
    BY <1>3, <1>12, <2>1, <2>2, <2>3
  <2>9. \E c \in todo' : c.t = t
    BY <2>6, <2>8
  <2> QED  BY <1>1, <1>3, <1>5, <2>7, <2>9, ItemArrives
<1>14. CASE hand.side[s.n] # "left"
  <2> DEFINE head(v) == states[CellOf(states[q].i, states[q].j)[v[1]]].bp[v[2]].b
             call(v) == Call(<<v[1], v[2], 0, 0>>,
                          Item(hand.up[states[q].n], states[head(v)].g, "bot", states[q].i,
                               states[head(v)].j, states[head(v)].fl, states[head(v)].fr,
                               states[q].w \o states[head(v)].w, q, head(v)))
  <2>1. CompleteLeft(q) = {call(v) : v \in {u \in Asked(states[q]) : head(u) # 0}}
    BY DEF CompleteLeft
  <2>2. head(x) = p
    BY ZenonT(60), <1>2, <1>10, <1>11, <1>12, <1>14
  <2>3. todo' = CompleteLeft(q)
    BY <1>2, <1>4, <1>6, <1>14 DEF CompleterCalls
  <2>4. \A v : call(v).t = Item(hand.up[states[q].n], states[head(v)].g, "bot", states[q].i,
                        states[head(v)].j, states[head(v)].fl, states[head(v)].fr,
                        states[q].w \o states[head(v)].w, q, head(v))
    <3> HIDE DEF head
    <3> QED  BY CallFields
  <2> HIDE DEF call, head
  <2>5. PICK t : t = Item(hand.up[states[q].n], s.g, "bot", states[q].i, s.j, s.fl, s.fr,
                          states[q].w \o s.w, q, p)
    OBVIOUS
  <2>6. call(x).t = t
    BY <2>2, <2>4, <2>5
  <2>7. t.type = "item" /\ Like(t, f) /\ t.g = states[p].g /\ f.i = a /\ f.j = s.j
    BY <1>2, <1>4, <1>14, <2>5 DEF Joined, Spot, D!Fact, Like, Item
  <2>8. call(x) \in todo'
    BY <1>3, <1>12, <2>1, <2>2, <2>3
  <2>9. \E c \in todo' : c.t = t
    BY <2>6, <2>8
  <2> QED  BY <1>1, <1>3, <1>5, <2>7, <2>9, ItemArrives
<1> QED  BY <1>13, <1>14

\* Siblings that have been asked for come, step by step.
LEMMA SibArrivesKept ==
  ASSUME AllInv, GoalsAim, [Next]_vars, NEW p \in Working, NEW s, s = states[p],
         NEW a, NEW b, SibVisit(s, a, b), SiblingArrives(p, <<a, b>>)
  PROVE  SiblingArrives(p, <<a, b>>)'
<1>1. p \in Ids /\ states[p].type = "item" /\ Grows /\ s.g \in Ids
  BY NextGrows, WorkingFacts
<1>2. /\ hand' = hand /\ states'[p].n = s.n /\ states'[p].i = s.i /\ states'[p].j = s.j
      /\ states'[p].fl = s.fl /\ states'[p].fr = s.fr /\ states'[p].g = s.g
  BY <1>1, GrowsFields
<1>3. PICK w : w = Spot(hand.sibling[s.n], "top", a, b, ef, ef)
  OBVIOUS
<1>4. PICK f : f = Joined(s, a, b)
  OBVIOUS
<1>5. SiblingArrives(p, <<a, b>>)' <=> Served(w, f, s.g)' /\ (Comes({"item"}, f, s.g)' \/ Asking(p, w)')
  <2>1. f = Joined(states[p], <<a, b>>[1], <<a, b>>[2])'
    BY <1>2, <1>4 DEF Joined
  <2>2. w = Spot(hand'.sibling[states'[p].n], "top", <<a, b>>[1], <<a, b>>[2], ef, ef)
    BY <1>2, <1>3
  <2> QED  BY <1>2, <2>1, <2>2 DEF SiblingArrives
<1>6. Served(w, f, s.g) /\ (Comes({"item"}, f, s.g) \/ Asking(p, w))
  BY <1>3, <1>4 DEF SiblingArrives
<1>7. Comes({"item"}, f, s.g)' \/ Asking(p, w)'
  <2>1. Comes({"item"}, f, s.g) => Comes({"item"}, f, s.g)'
    BY <1>1, ComesKept DEF Wants
  <2>2. Asking(p, w) => Asking(p, w)'
    BY AskingKept
  <2> QED  BY <1>6, <2>1, <2>2
<1>8. ASSUME Completer, plist[idx] \in Working, Like(states[plist[idx]], w)
      PROVE  Comes({"item"}, f, s.g)'
  <2>1. CASE Comes({"item"}, f, s.g)
    BY <1>1, <2>1, ComesKept DEF Wants
  <2>2. CASE Asking(p, w)
    <3>1. PICK q \in Working : q = plist[idx]
      BY <1>8
    <3>2. Like(states[q], w)
      BY <1>8, <3>1
    <3> QED  BY <1>3, <1>4, <1>8, <2>2, <3>1, <3>2, SibCompleted
  <2> QED  BY <1>6, <2>1, <2>2
<1> QED  BY <1>1, <1>5, <1>6, <1>7, <1>8, ServedKept

\* The spans that an item at work looks at stay the same.
LEMMA SpansKept ==
  ASSUME AllInv, Grows, NEW p \in Working
  PROVE  /\ hand' = hand /\ states'[p].n = states[p].n /\ states'[p].pos = states[p].pos
         /\ SpansBeside(states[p], states[states[p].g])' = SpansBeside(states[p], states[states[p].g])
         /\ \A aux : /\ AdjoinSpans(states[p], aux)' = AdjoinSpans(states[p], aux)
                     /\ WrapBarred(aux, states[p].n)' <=> WrapBarred(aux, states[p].n)
<1>1. p \in Ids /\ states[p].type = "item" /\ states[p].g \in Ids
  BY WorkingFacts
<1>2. /\ hand' = hand /\ states'[p].n = states[p].n /\ states'[p].pos = states[p].pos
      /\ states'[p].i = states[p].i /\ states'[p].j = states[p].j /\ states'[p].g = states[p].g
  BY <1>1, GrowsFields
<1>3. PICK x : x = states[p].g
  OBVIOUS
<1>4. states'[x].i = states[x].i /\ states'[x].j = states[x].j
  BY <1>1, <1>3, GrowsFields
<1>5. SpansBeside(states[p], states[states[p].g])' = SpansBeside(states[p], states[states[p].g])
  BY <1>2, <1>3, <1>4 DEF SpansBeside, EmptySubst
<1>6. ASSUME NEW aux
      PROVE  AdjoinSpans(states[p], aux)' = AdjoinSpans(states[p], aux)
  BY <1>2, <1>3, <1>4 DEF AdjoinSpans
<1>7. ASSUME NEW aux
      PROVE  WrapBarred(aux, states[p].n)' <=> WrapBarred(aux, states[p].n)
  BY <1>2 DEF WrapBarred
<1> QED  BY <1>2, <1>5, <1>6, <1>7

\* What follows for one span or tree follows for all.
LEMMA SiblingsOf ==
  ASSUME AllInv, Grows, NEW p \in Working,
         \A a, b : SibVisit(states[p], a, b) => SiblingArrives(p, <<a, b>>)'
  PROVE  SiblingsArrive(p)'
<1>1. PICK s : s = states[p]
  OBVIOUS
<1>2. /\ hand' = hand /\ states'[p].n = s.n /\ states'[p].pos = s.pos
      /\ SpansBeside(states[p], states[states[p].g])' = SpansBeside(s, states[s.g])
  BY <1>1, SpansKept
<1>3. ASSUME s.pos = "top", hand.side[s.n] # "only", hand.head[hand.up[s.n]] = hand.head[s.n],
             NEW v \in SpansBeside(s, states[s.g])
      PROVE  SiblingArrives(p, v)'
  <2>1. PICK a, b : v = <<a, b>>
    BY DEF SpansBeside
  <2>2. SibVisit(s, a, b)
    BY <1>3, <2>1 DEF SibVisit
  <2> QED  BY <1>1, <2>1, <2>2
<1>4. ASSUME s.pos = "top", hand.side[s.n] # "only", hand.head[hand.up[s.n]] = hand.head[s.n],
             NEW v \in SpansBeside(states[p], states[states[p].g])'
      PROVE  SiblingArrives(p, v)'
  BY <1>2, <1>3, <1>4
<1> QED  BY <1>2, <1>4 DEF SiblingsArrive

\* The same for hparse_adjoin.
LEMMA AuxsOf ==
  ASSUME AllInv, Grows, NEW p \in Working,
         \A aux, a, b : AuxVisit(states[p], aux, a, b) => AuxArrives(p, aux, <<a, b>>)'
  PROVE  AuxsArrive(p)'
<1>1. PICK s : s = states[p]
  OBVIOUS
<1>2. /\ hand' = hand /\ states'[p].n = s.n /\ states'[p].pos = s.pos
      /\ \A aux : /\ AdjoinSpans(states[p], aux)' = AdjoinSpans(s, aux)
                  /\ WrapBarred(aux, states[p].n)' <=> WrapBarred(aux, s.n)
  BY <1>1, SpansKept
<1>3. ASSUME s.pos = "bot", s.n \in hand.adjoin, NEW aux \in AuxTrees(s), ~ WrapBarred(aux, s.n),
             NEW v \in AdjoinSpans(s, aux)
      PROVE  AuxArrives(p, aux, v)'
  <2>1. PICK a, b : v = <<a, b>>
    BY DEF AdjoinSpans
  <2>2. AuxVisit(s, aux, a, b)
    BY <1>3, <2>1 DEF AuxVisit
  <2> QED  BY <1>1, <2>1, <2>2
<1>4. AuxTrees(states[p])' = AuxTrees(s)
  BY <1>2 DEF AuxTrees
<1> QED  BY <1>2, <1>3, <1>4 DEF AuxsArrive

\* Every item that has been through hparse_move_up has its conclusions, has
\* asked for what else they need, and gets them when that is found.
LEMMA MovedNext ==
  ASSUME AllInv, GoalsAim, FeetFound, MovedArrive, [Next]_vars
  PROVE  MovedArrive'
<1> SUFFICES ASSUME NEW p \in (Working \cap Moved)'
             PROVE  UpArrives(p)' /\ SiblingsArrive(p)' /\ AuxsArrive(p)'
  BY DEF MovedArrive
<1>1. Grows /\ AllInv' /\ hand \in Hands
  BY NextGrows, AllNext DEF AllInv, DeductionInv, Inv
<1>2. p \in Working' /\ p \in Moved'
  OBVIOUS
<1>3. CASE p \notin Moved
  <2>1. MoveUp /\ p = plist[idx] /\ p \in Ids
    BY <1>2, <1>3, MarksNext
  <2>2. p \in Working
    BY <1>2, <2>1, NewlyAtWork
  <2>3. UpArrives(p)'
    BY <2>1, <2>2, UpCalled
  <2>4. \A a, b : SibVisit(states[p], a, b) => SiblingArrives(p, <<a, b>>)'
    BY <2>1, <2>2, SibCalled
  <2>5. \A aux, a, b : AuxVisit(states[p], aux, a, b) => AuxArrives(p, aux, <<a, b>>)'
    BY <2>1, <2>2, AuxCalled
  <2> QED  BY <1>1, <2>2, <2>3, <2>4, <2>5, SiblingsOf, AuxsOf
<1>4. CASE p \in Moved
  <2>1. p \in Ids
    BY <1>4 DEF Moved
  <2>2. p \in Working
    BY <1>2, <2>1, NewlyAtWork
  <2>3. UpArrives(p) /\ SiblingsArrive(p) /\ AuxsArrive(p)
    BY <1>4, <2>2 DEF MovedArrive
  <2>4. UpArrives(p)'
    BY <2>2, <2>3, UpKept
  <2>5. ASSUME NEW a, NEW b, SibVisit(states[p], a, b)
        PROVE  SiblingArrives(p, <<a, b>>)'
    <3>1. SiblingArrives(p, <<a, b>>)
      BY <2>3, <2>5 DEF SiblingsArrive, SibVisit
    <3> QED  BY <2>2, <2>5, <3>1, SibArrivesKept
  <2>6. ASSUME NEW aux, NEW a, NEW b, AuxVisit(states[p], aux, a, b)
        PROVE  AuxArrives(p, aux, <<a, b>>)'
    <3>1. AuxArrives(p, aux, <<a, b>>)
      BY <2>3, <2>6 DEF AuxsArrive, AuxVisit
    <3> QED  BY <2>2, <2>6, <3>1, AuxArrivesKept
  <2> QED  BY <1>1, <2>2, <2>4, <2>5, <2>6, SiblingsOf, AuxsOf
<1> QED  BY <1>3, <1>4

-----------------------------------------------------------------------------
(* What the calls of hparse_add are on.                                    *)

\* The item t stands on the foot that another item with its headcorner stands
\* on, on its own, or on none.
Footing(t) ==
  \/ ~ Footed(hand, t.n) \/ Like(t, FootBelow(t))
  \/ \E d \in ItemIds : /\ hand.head[states[d].n] = hand.head[t.n]
                        /\ states[d].fl = t.fl /\ states[d].fr = t.fr

Proper(t) ==
  /\ Shapely(t) /\ Higher(t) /\ (t.type = "goal" => t.g # 0)
  /\ t.type = "item" => Footing(t) /\ (t.g = 0 => Backed(t))

AllProper(S) == \A r \in S : Proper(r.t)

\* An item is proper where there is no gap, or an item with the gap below it.
LEMMA ItemProper ==
  ASSUME NEW n, NEW g, NEW pos, NEW i, NEW j, NEW fl, NEW fr, NEW w, NEW b, NEW c,
         \/ ~ Footed(hand, n)
         \/ \E d \in ItemIds : /\ hand.head[states[d].n] = hand.head[n]
                               /\ states[d].fl = fl /\ states[d].fr = fr,
         g # 0 \/ Backed(Item(n, g, pos, i, j, fl, fr, w, b, c))
  PROVE  Proper(Item(n, g, pos, i, j, fl, fr, w, b, c))
<1>1. PICK t : t = Item(n, g, pos, i, j, fl, fr, w, b, c)
  OBVIOUS
<1>2. t.type = "item" /\ t.n = n /\ t.fl = fl /\ t.fr = fr /\ t.g = g
  BY <1>1 DEF Item
<1>3. Proper(t)
  BY <1>1, <1>2 DEF Proper, Shapely, Footing, Higher
<1> QED  BY <1>1, <1>3

\* A prediction is proper where there is no gap, or a foot below it.
LEMMA PredictProper ==
  ASSUME NEW n, NEW i, NEW j, NEW fl, NEW fr, NEW b, NEW c,
         Footed(hand, n) \/ (fl = ef /\ fr = ef)
  PROVE  Proper(Predict(n, i, j, fl, fr, b, c))
BY DEF Predict, Proper, Shapely, Higher

\* A goal is proper.
LEMMA GoalProper ==
  ASSUME NEW n, NEW g, g # 0, states[g].n # n, NEW i, NEW j
  PROVE  Proper(Goal(n, g, i, j))
BY DEF Goal, Proper, Shapely, Higher

\* The calls of hparse_init_head are proper.
LEMMA HeadCallsProper ==
  ASSUME AllInv, NEW p \in Ids, states[p].type = "init"
  PROVE  AllProper(HeadCalls(p))
<1> DEFINE s == states[p]
           hc == hand.head[s.n]
<1>1. /\ hand \in Hands /\ p \in Nat /\ p # 0 /\ s.n \in hand.nodes
      /\ hc \in hand.nodes /\ hand.head[hc] = hc
  BY HeadFacts DEF AllInv
<1>2. hand.kind[hc] \in Kinds \ {"internal"}
  BY <1>1, NodeFacts
<1>3. ASSUME ~ Footed(hand, hc)
      PROVE  AllProper(InitAnchor(p, hc))
  <2> SUFFICES ASSUME NEW r \in InitAnchor(p, hc)
               PROVE  Proper(r.t)
    BY DEF AllProper
  <2>1. PICK k : r = Call(<<k, 0, 0, 0>>, Item(hc, p, "bot", k, k + 1, ef, ef, <<k>>, 0, 0))
    BY DEF InitAnchor
  <2>2. r.t = Item(hc, p, "bot", k, k + 1, ef, ef, <<k>>, 0, 0)
    BY <2>1, CallFields
  <2>3. Proper(Item(hc, p, "bot", k, k + 1, ef, ef, <<k>>, 0, 0))
    BY <1>1, <1>3, ItemProper
  <2> QED  BY <2>2, <2>3
<1>4. ASSUME NEW node, ~ Footed(hand, node)
      PROVE  AllProper(InitEpsilon(p, node))
  BY <1>1, <1>4, ItemProper, CallFields DEF AllProper, InitEpsilon
<1>5. ASSUME hand.kind[hc] = "subst"
      PROVE  AllProper(InitSubst(p, hc))
  <2> SUFFICES ASSUME NEW r \in InitSubst(p, hc)
               PROVE  Proper(r.t)
    BY DEF AllProper
  <2>1. ~ Footed(hand, hc)
    BY <1>1, <1>5 DEF Footed
  <2> DEFINE roots == hand.inits[hand.label[hc]]
             done(v) == StateExists(v[2], v[3], roots[v[1]], ef, ef)
             item(v) == Item(hc, p, "top", v[2], v[3], ef, ef, <<>>, done(v), 0)
             goal(v) == Goal(hc, p, v[2], v[3])
             init(v) == Predict(roots[v[1]], v[2], v[3], ef, ef, 0, 0)
             first(v) == Call(<<v[1], v[2], -v[3], 0>>, IF done(v) # 0 THEN item(v) ELSE goal(v))
             second(v) == Call(<<v[1], v[2], -v[3], 1>>, init(v))
  <2>2. PICK v : (r = first(v) /\ (done(v) # 0 \/ s.n # hc)) \/ r = second(v)
    BY ZenonT(60) DEF InitSubst
  <2>3. /\ first(v).t = IF done(v) # 0 THEN item(v) ELSE goal(v)
        /\ second(v).t = init(v)
    BY CallFields
  <2>4. Proper(item(v))
    BY <1>1, <2>1, ItemProper
  <2>5. s.n # hc => Proper(goal(v))
    BY <1>1, GoalProper
  <2>6. Proper(init(v))
    BY PredictProper
  <2> HIDE DEF roots, done, item, goal, init, first, second
  <2> QED  BY <2>2, <2>3, <2>4, <2>5, <2>6
<1>6. ASSUME hand.kind[hc] = "foot"
      PROVE  AllProper(InitFoot(p, hc))
  <2>1. PICK t : t = Item(hc, p, "bot", s.fl, s.fr, s.fl, s.fr, <<>>, 0, 0)
    OBVIOUS
  <2>2. /\ t.n = hc /\ t.pos = "bot" /\ t.i = s.fl /\ t.j = s.fr /\ t.fl = s.fl /\ t.fr = s.fr
        /\ t.type = "item"
    BY <2>1 DEF Item
  <2>3. Like(t, FootBelow(t))
    BY <1>1, <2>2 DEF Like, FootBelow, Spot, D!Fact
  <2>4. t.g = p
    BY <2>1 DEF Item
  <2>5. Proper(t)
    BY <1>1, <2>2, <2>3, <2>4 DEF Proper, Shapely, Footing, Higher
  <2> QED  BY <2>1, <2>5, CallFields DEF AllProper, InitFoot
<1>7. hand.kind[hc] # "foot" => ~ Footed(hand, hc) /\ ~ Footed(hand, s.n)
  BY <1>1 DEF Footed
<1>8. CASE hand.kind[hc] \in {"anchor", "terminal"}
  BY <1>3, <1>4, <1>7, <1>8 DEF HeadCalls
<1>9. CASE hand.kind[hc] = "eps"
  BY <1>4, <1>7, <1>9 DEF HeadCalls
<1>10. CASE hand.kind[hc] = "subst"
  BY <1>5, <1>10 DEF HeadCalls
<1>11. CASE hand.kind[hc] = "foot"
  BY <1>6, <1>11 DEF HeadCalls
<1> QED  BY <1>2, <1>8, <1>9, <1>10, <1>11 DEF Kinds

\* The calls of hparse_move_up are proper.
LEMMA MoveUpCallsProper ==
  ASSUME AllInv, NEW p \in Ids, MayMoveUp(states[p])
  PROVE  AllProper(MoveUpCalls(p))
<1>1. PICK s : s = states[p]
  OBVIOUS
<1>2. p \in Working /\ s.n \in hand.nodes /\ s.pos \in {"top", "bot"} /\ hand \in Hands
  <2>1. p \in Working
    BY DEF MayMoveUp, Working, ItemIds
  <2> QED  BY <1>1, <2>1, WorkingFacts
<1>3. p \in ItemIds /\ s.g # 0
  BY <1>1, <1>2 DEF Working
<1>4. ASSUME NEW n, hand.head[n] = hand.head[s.n],
             NEW pos, NEW i, NEW j, NEW w, NEW b, NEW c
      PROVE  Proper(Item(n, s.g, pos, i, j, s.fl, s.fr, w, b, c))
  BY <1>1, <1>3, <1>4, ItemProper
<1>5. CASE s.pos = "bot"
  <2>1. AllProper(AdjoinNothing(p))
    <3> SUFFICES ASSUME NEW r \in AdjoinNothing(p)
                 PROVE  Proper(r.t)
      BY DEF AllProper
    <3>1. r.t = Item(s.n, s.g, "top", s.i, s.j, s.fl, s.fr, s.w, p, 0)
      BY <1>1, CallFields DEF AdjoinNothing
    <3>2. Proper(Item(s.n, s.g, "top", s.i, s.j, s.fl, s.fr, s.w, p, 0))
      BY <1>4
    <3> QED  BY <3>1, <3>2
  <2>2. AllProper(AdjoinTrees(p))
    <3> SUFFICES ASSUME NEW r \in AdjoinTrees(p)
                 PROVE  Proper(r.t)
      BY DEF AllProper
    <3> DEFINE auxs == hand.auxs[hand.label[s.n]]
               done(v) == StateExists(v[2], v[3], auxs[v[1]], s.i, s.j)
               item(v) == Item(s.n, s.g, AdjoinedPos, v[2], v[3], s.fl, s.fr, s.w, done(v), p)
               init(v) == Predict(auxs[v[1]], v[2], v[3], s.i, s.j, 0, 0)
               call(v) == Call(<<v[1], v[2], -v[3], 0>>, IF done(v) # 0 THEN item(v) ELSE init(v))
    <3> DEFINE visits == {v \in (DOMAIN auxs) \X (0 .. hand.last) \X (0 .. hand.last) :
                            /\ ~WrapBarred(auxs[v[1]], s.n)
                            /\ <<v[2], v[3]>> \in AdjoinSpans(s, auxs[v[1]])}
    <3>1. ASSUME NEW v \in visits
          PROVE  v[1] \in DOMAIN auxs
      <4> HIDE DEF auxs
      <4> QED  BY SMTT(30)
    <3>2. AdjoinTrees(p) = {call(v) : v \in visits}
      BY <1>1 DEF AdjoinTrees
    <3> HIDE DEF visits
    <3>3. ASSUME NEW v
          PROVE  call(v).t = IF done(v) # 0 THEN item(v) ELSE init(v)
      BY CallFields
    <3>4. ASSUME NEW v
          PROVE  Proper(item(v))
      BY <1>4
    <3>5. ASSUME NEW v \in visits
          PROVE  Proper(init(v))
      <4>1. hand.label[s.n] \in DOMAIN hand.auxs
        BY <1>2, HandOK DEF ListsOK
      <4>2. v[1] \in DOMAIN auxs
        BY <3>1
      <4>3. \A k \in DOMAIN auxs : hand.kind[hand.head[auxs[k]]] = "foot"
        <5>1. PICK l : l = hand.label[s.n]
          OBVIOUS
        <5>2. l \in DOMAIN hand.auxs => \A k \in DOMAIN hand.auxs[l] :
                hand.kind[hand.head[hand.auxs[l][k]]] = "foot"
          BY <1>2, RootFacts
        <5> QED  BY <4>1, <5>1, <5>2
      <4>4. Footed(hand, auxs[v[1]])
        <5>1. PICK k : k = v[1]
          OBVIOUS
        <5> HIDE DEF auxs
        <5> QED  BY <4>2, <4>3, <5>1 DEF Footed
      <4> QED  BY <4>4, PredictProper
    <3> HIDE DEF auxs, done, item, init, call
    <3> QED  BY <3>2, <3>3, <3>4, <3>5
  <2>3. MoveUpCalls(p) \subseteq AdjoinNothing(p) \cup AdjoinTrees(p)
    BY <1>1, <1>5 DEF MoveUpCalls, Adjoin
  <2> QED  BY <2>1, <2>2, <2>3 DEF AllProper
<1>6. CASE s.pos = "top"
  <2>1. hand.head[hand.up[s.n]] = hand.head[s.n]
    BY <1>1, <1>3, <1>6, NotFinished DEF MayMoveUp, AllInv, DeductionInv
  <2>2. AllProper(UnaryHead(p))
    <3> SUFFICES ASSUME NEW r \in UnaryHead(p)
                 PROVE  Proper(r.t)
      BY DEF AllProper
    <3>1. r.t = Item(hand.up[s.n], s.g, "bot", s.i, s.j, s.fl, s.fr, s.w, p, 0)
      BY <1>1, CallFields DEF UnaryHead
    <3>2. Proper(Item(hand.up[s.n], s.g, "bot", s.i, s.j, s.fl, s.fr, s.w, p, 0))
      BY <1>4, <2>1
    <3> QED  BY <3>1, <3>2
  <2>3. AllProper(LeftHead(p))
    <3> SUFFICES ASSUME NEW r \in LeftHead(p)
                 PROVE  Proper(r.t)
      BY DEF AllProper
    <3> DEFINE r1 == hand.sibling[s.n]
               found(k) == StateExists(s.j, k, r1, ef, ef)
               item(k) == Item(hand.up[s.n], s.g, "bot", s.i, k, s.fl, s.fr,
                               s.w \o states[found(k)].w, p, found(k))
               init(k) == Predict(r1, s.j, k, ef, ef, 0, p)
               call(k) == Call(<<-k, 0, 0, 0>>, IF found(k) # 0 THEN item(k) ELSE init(k))
    <3>1. PICK k : r = call(k)
      BY <1>1 DEF LeftHead
    <3>2. call(k).t = IF found(k) # 0 THEN item(k) ELSE init(k)
      BY CallFields
    <3>3. Proper(item(k))
      BY <1>4, <2>1
    <3>4. Proper(init(k))
      BY PredictProper
    <3> HIDE DEF found, item, init, call
    <3> QED  BY <3>1, <3>2, <3>3, <3>4
  <2>4. AllProper(RightHead(p))
    <3> SUFFICES ASSUME NEW r \in RightHead(p)
                 PROVE  Proper(r.t)
      BY DEF AllProper
    <3> DEFINE r1 == hand.sibling[s.n]
               found(k) == StateExists(k, s.i, r1, ef, ef)
               item(k) == Item(hand.up[s.n], s.g, "bot", k, s.j, s.fl, s.fr,
                               states[found(k)].w \o s.w, found(k), p)
               init(k) == Predict(r1, k, s.i, ef, ef, p, 0)
               call(k) == Call(<<k, 0, 0, 0>>, IF found(k) # 0 THEN item(k) ELSE init(k))
    <3>1. PICK k : r = call(k)
      BY <1>1 DEF RightHead
    <3>2. call(k).t = IF found(k) # 0 THEN item(k) ELSE init(k)
      BY CallFields
    <3>3. Proper(item(k))
      BY <1>4, <2>1
    <3>4. Proper(init(k))
      BY PredictProper
    <3> HIDE DEF found, item, init, call
    <3> QED  BY <3>1, <3>2, <3>3, <3>4
  <2>5. hand.side[s.n] \in {"only", "left", "right"}
    BY <1>2, NodeFacts
  <2>6. MoveUpCalls(p) \in {UnaryHead(p), LeftHead(p), RightHead(p)}
    BY <1>1, <1>6, <2>5 DEF MoveUpCalls
  <2> QED  BY <2>2, <2>3, <2>4, <2>6
<1> QED  BY <1>2, <1>5, <1>6

\* The calls of hparse_completer are proper.
LEMMA CompleterCallsProper ==
  ASSUME AllInv, Shaped, Goalless, NEW p \in Ids, MayComplete(states[p])
  PROVE  AllProper(CompleterCalls(p))
<1>1. PICK s : s = states[p]
  OBVIOUS
<1>2. p \in Working /\ s.n \in hand.nodes /\ s.pos = "top" /\ hand \in Hands /\ p \in ItemIds
      /\ s.i \in 0 .. hand.last /\ s.j \in 0 .. hand.last /\ hand.last \in Nat
  <2>1. p \in Working /\ p \in ItemIds
    BY DEF MayComplete, Working, ItemIds
  <2> QED  BY <1>1, <2>1, WorkingFacts DEF MayComplete
<1>3. SpineTop(hand, s.n)
  <2>1. Aims(hand, states, s.g, s.n) /\ s.g # 0 /\ s.n = states[s.g].n
    BY <1>1, StatesOK DEF MayComplete, AllInv, DeductionInv
  <2> QED  BY <2>1 DEF Aims
<1>4. AllProper(CompleteInit(p))
  <2> SUFFICES ASSUME NEW r \in CompleteInit(p)
               PROVE  Proper(r.t)
    BY DEF AllProper
  <2>1. PICK q \in DOMAIN CellOf(s.i, s.j) :
          LET b == states[CellOf(s.i, s.j)[q]]
          IN /\ hand.kind[b.n] = "subst" /\ b.pos = "top" /\ b.type = "goal"
             /\ r = Call(<<q, 0, 0, 0>>, Item(b.n, b.g, "top", s.i, s.j, ef, ef, <<>>, p, 0))
    BY <1>1 DEF CompleteInit
  <2>2. PICK d, b : d = CellOf(s.i, s.j)[q] /\ b = states[d]
    OBVIOUS
  <2>3. b.n \in hand.nodes /\ d \in Ids /\ b.i = s.i /\ b.j = s.j
    <3>1. s.i \in 0 .. hand.last + 1 /\ s.j \in 0 .. hand.last + 1
      BY <1>2
    <3>2. d \in Ids /\ b.i = s.i /\ b.j = s.j
      BY <2>2, <3>1, CellIn DEF AllInv, DeductionInv
    <3> QED  BY <2>2, <3>2, StatesOK DEF AllInv, DeductionInv
  <2>4. ~ Footed(hand, b.n)
    BY <1>2, <2>1, <2>2, <2>3, NodeFacts DEF Footed
  <2>5. r.t = Item(b.n, b.g, "top", s.i, s.j, ef, ef, <<>>, p, 0)
    BY <2>1, <2>2, CallFields
  <2>6. b.type = "goal" /\ b.pos = "top" /\ b.fl = ef /\ b.fr = ef
    BY <2>1, <2>2, <2>3, <2>4 DEF Shaped, Shapely
  <2>7. Like(b, Item(b.n, b.g, "top", s.i, s.j, ef, ef, <<>>, p, 0))
    BY <2>3, <2>6 DEF Like, Item
  <2>8. b.g # 0 \/ Backed(Item(b.n, b.g, "top", s.i, s.j, ef, ef, <<>>, p, 0))
    BY <2>2, <2>3, <2>6, <2>7 DEF Backed
  <2> QED  BY <2>4, <2>5, <2>8, ItemProper
<1>5. ASSUME hand.up[s.n] = 0, hand.foot[s.n] # 0
      PROVE  AllProper(CompleteAux(p))
  <2> SUFFICES ASSUME NEW r \in CompleteAux(p)
               PROVE  Proper(r.t)
    BY DEF AllProper
  <2>1. PICK q \in DOMAIN CellOf(s.fl, s.fr) :
          LET b == states[CellOf(s.fl, s.fr)[q]]
          IN /\ b.type = "item" /\ b.pos = "bot"
             /\ r = Call(<<q, 0, 0, 0>>, Item(b.n, b.g, AdjoinedPos, s.i, s.j, b.fl, b.fr, b.w, p,
                                              CellOf(s.fl, s.fr)[q]))
    BY <1>1 DEF CompleteAux
  <2>2. PICK d : d = CellOf(s.fl, s.fr)[q]
    OBVIOUS
  <2>3. d \in ItemIds
    <3>1. s.fl \in 0 .. hand.last + 1 /\ s.fr \in 0 .. hand.last + 1
      <4>1. hand.kind[hand.head[s.n]] = "foot"
        BY <1>2, <1>5, NodeFacts
      <4>2. Bounded(hand, states, s)
        BY <1>1, <1>2 DEF AllInv, DeductionInv, Inv, Inductive, Sound
      <4> QED  BY <1>2, <4>1, <4>2 DEF Bounded
    <3>2. CellOf(s.fl, s.fr)[q] \in Ids
      BY <3>1, CellIn DEF AllInv, DeductionInv
    <3> QED  BY <2>1, <2>2, <3>2 DEF ItemIds
  <2>4. r.t = Item(states[d].n, states[d].g, AdjoinedPos, s.i, s.j, states[d].fl, states[d].fr,
                   states[d].w, p, d)
    BY <2>1, <2>2, CallFields
  <2>5. states[d].g # 0
    <3> SUFFICES ASSUME states[d].g = 0
                 PROVE  FALSE
      OBVIOUS
    <3>1. PICK e \in Ids : states[e].type = "goal" /\ Like(states[e], states[d])
      BY <2>3 DEF Goalless, Backed
    <3>2. states[e].pos = "top"
      BY <3>1 DEF Shaped, Shapely
    <3> QED  BY <2>1, <2>2, <3>1, <3>2 DEF Like
  <2> QED  BY <2>3, <2>4, <2>5, ItemProper
<1>6. ASSUME hand.up[s.n] # 0, NEW v \in Asked(s), AskerOf(p, v) # 0, NEW a, a = AskerOf(p, v),
             NEW i, NEW j, NEW w, NEW b, NEW c
      PROVE  Proper(Item(hand.up[s.n], states[a].g, "bot", i, j, states[a].fl, states[a].fr, w, b, c))
  <2>1. hand.side[s.n] \in {"left", "right"}
    BY <1>2, <1>3, <1>6, NodeFacts DEF SpineTop
  <2>2. Beside(p, a)
    BY <1>1, <1>2, <1>3, <1>6, <2>1, AskerFacts DEF AllInv
  <2>3. /\ a \in ItemIds /\ hand.head[states[a].n] = hand.head[hand.up[s.n]]
        /\ hand.up[states[a].n] = hand.up[s.n]
    BY <1>1, <2>2 DEF Beside
  <2>4. states[a].g # 0
    <3> SUFFICES ASSUME states[a].g = 0
                 PROVE  FALSE
      OBVIOUS
    <3>1. PICK e \in Ids : states[e].type = "goal" /\ states[e].g = 0 /\ Like(states[e], states[a])
      BY <2>3 DEF Goalless, Backed
    <3>2. SpineTop(hand, states[e].n)
      BY <3>1, StatesOK DEF AllInv, DeductionInv, Sound, Pursues
    <3> QED  BY <1>6, <2>3, <3>1, <3>2 DEF Like, SpineTop
  <2> QED  BY <1>6, <2>3, <2>4, ItemProper
<1>7. ASSUME hand.up[s.n] # 0, hand.side[s.n] = "left"
      PROVE  AllProper(CompleteLeft(p))
  <2> SUFFICES ASSUME NEW r \in CompleteLeft(p)
               PROVE  Proper(r.t)
    BY DEF AllProper
  <2> DEFINE head(v) == states[CellOf(s.i, s.j)[v[1]]].bp[v[2]].b
             item(a) == Item(hand.up[s.n], states[a].g, "bot", s.i, states[a].j, states[a].fl, states[a].fr, s.w \o states[a].w, p, a)
             call(v, a) == Call(<<v[1], v[2], 0, 0>>, item(a))
  <2>1. PICK v \in Asked(s) : head(v) # 0 /\ r = call(v, head(v))
    BY ZenonT(60), <1>1 DEF CompleteLeft
  <2>2. PICK a : a = head(v)
    OBVIOUS
  <2>3. a = AskerOf(p, v) /\ a # 0
    BY <1>1, <1>7, <2>1, <2>2 DEF AskerOf
  <2>4. Proper(item(a))
    BY <1>6, <1>7, <2>3
  <2>5. call(v, a).t = item(a)
    BY CallFields
  <2> HIDE DEF head, item, call
  <2> QED  BY <2>1, <2>2, <2>4, <2>5
<1>8. ASSUME hand.up[s.n] # 0, hand.side[s.n] = "right"
      PROVE  AllProper(CompleteRight(p))
  <2> SUFFICES ASSUME NEW r \in CompleteRight(p)
               PROVE  Proper(r.t)
    BY DEF AllProper
  <2> DEFINE head(v) == states[CellOf(s.i, s.j)[v[1]]].bp[v[2]].c
             item(a) == Item(hand.up[s.n], states[a].g, "bot", states[a].i, s.j, states[a].fl, states[a].fr, states[a].w \o s.w, a, p)
             call(v, a) == Call(<<v[1], v[2], 0, 0>>, item(a))
  <2>1. PICK v \in Asked(s) : head(v) # 0 /\ r = call(v, head(v))
    BY ZenonT(60), <1>1 DEF CompleteRight
  <2>2. PICK a : a = head(v)
    OBVIOUS
  <2>3. a = AskerOf(p, v) /\ a # 0
    BY <1>1, <1>8, <2>1, <2>2 DEF AskerOf
  <2>4. Proper(item(a))
    BY <1>6, <1>8, <2>3
  <2>5. call(v, a).t = item(a)
    BY CallFields
  <2> HIDE DEF head, item, call
  <2> QED  BY <2>1, <2>2, <2>4, <2>5
<1>9. hand.up[s.n] # 0 => hand.side[s.n] \in {"left", "right"}
  BY <1>2, <1>3, NodeFacts DEF SpineTop
<1> QED  BY <1>1, <1>4, <1>5, <1>7, <1>8, <1>9 DEF CompleterCalls

\* What a step adds to the calls.
LEMMA NewCalls ==
  ASSUME AllInv, Shaped, Goalless, [Next]_vars, NEW c \in todo'
  PROVE  c \in todo \/ Proper(c.t)
<1>1. CASE Add
  BY <1>1 DEF Add
<1>2. CASE InitHead
  <2>1. plist[idx] \in Ids
    BY <1>2, ListPlace DEF InitHead, AllInv, DeductionInv
  <2>2. todo' = todo \/ (states[plist[idx]].type = "init" /\ todo' = HeadCalls(plist[idx]))
    BY <1>2 DEF InitHead
  <2> QED  BY <2>1, <2>2, HeadCallsProper DEF AllProper
<1>3. CASE MoveUp
  <2>1. plist[idx] \in Ids
    BY <1>3, ListPlace DEF MoveUp, AllInv, DeductionInv
  <2>2. todo' = {} \/ (MayMoveUp(states[plist[idx]]) /\ todo' = MoveUpCalls(plist[idx]))
    BY <1>3 DEF MoveUp
  <2> QED  BY <2>1, <2>2, MoveUpCallsProper DEF AllProper
<1>4. CASE Completer
  <2>1. plist[idx] \in Ids
    BY <1>4, ListPlace DEF Completer, AllInv, DeductionInv
  <2>2. todo' = {} \/ (MayComplete(states[plist[idx]]) /\ todo' = CompleterCalls(plist[idx]))
    BY <1>4 DEF Completer
  <2> QED  BY <2>1, <2>2, CompleterCallsProper DEF AllProper
<1>5. CASE NextList \/ UNCHANGED vars
  BY <1>5 DEF NextList, vars
<1> QED  BY <1>1, <1>2, <1>3, <1>4, <1>5 DEF Next

\* What a step adds to the states.
LEMMA NewStates ==
  ASSUME AllInv, GoalsAim, [Next]_vars, NEW p \in Ids'
  PROVE  p \in Ids \/ \E r \in todo : states'[p] = r.t
<1>1. CASE Add
  BY <1>1, AllNext, AddGrows DEF Added
<1>2. CASE InitHead
  BY <1>2, InitHeadGrows
<1>3. CASE MoveUp \/ Completer \/ NextList \/ UNCHANGED vars
  BY <1>3, GrowsQuiet DEF MoveUp, Completer, NextList, vars
<1> QED  BY <1>1, <1>2, <1>3 DEF Next

\* Every goal that is added serves a state.
LEMMA GoalsAimNext ==
  ASSUME AllInv, GoalsAim, Shaped, Goalless, [Next]_vars
  PROVE  GoalsAim'
<1> SUFFICES ASSUME NEW c \in todo', c.t.type = "goal"
             PROVE  c.t.g # 0
  BY DEF GoalsAim
<1> QED  BY NewCalls DEF GoalsAim, Proper

\* Every state that is added is for a finished subtree or an item.
LEMMA ShapedNext ==
  ASSUME AllInv, GoalsAim, Shaped, Goalless, [Next]_vars
  PROVE  Shaped'
<1>1. Grows /\ hand' = hand
  BY NextGrows DEF Grows
<1>2. ASSUME NEW t
      PROVE  Shapely(t)' <=> Shapely(t)
  BY <1>1 DEF Shapely, Footed
<1>3. ASSUME NEW c \in todo'
      PROVE  Shapely(c.t)'
  <2>1. Shapely(c.t)
    BY NewCalls DEF Proper, Shaped
  <2>2. PICK t : t = c.t
    OBVIOUS
  <2> QED  BY <1>2, <2>1
<1>4. ASSUME NEW p \in Ids'
      PROVE  Shapely(states[p])'
  <2>1. CASE p \in Ids
    <3>1. Shapely(states[p])
      BY <2>1 DEF Shaped
    <3> QED  BY <1>1, <2>1, <3>1, GrowsFields DEF Shapely, Footed
  <2>2. CASE p \notin Ids
    <3>1. PICK r \in todo : states'[p] = r.t
      BY <2>2, NewStates
    <3>2. Shapely(r.t)
      BY <3>1 DEF Shaped
    <3> QED  BY <1>1, <3>1, <3>2 DEF Shapely, Footed
  <2> QED  BY <2>1, <2>2
<1> QED  BY <1>3, <1>4 DEF Shaped

\* What is in the chart stays there.
LEMMA FoundKept ==
  ASSUME Grows, NEW f, Found(f)
  PROVE  Found(f)'
<1>1. PICK x \in ItemIds : Like(states[x], f)
  BY DEF Found
<1>2. x \in Ids /\ states[x].type = "item"
  BY DEF ItemIds
<1>3. x \in ItemIds' /\ Like(states[x], f)'
  BY <1>1, <1>2, GrowsFields DEF ItemIds, Like
<1> QED  BY <1>3 DEF Found

\* Every item with a gap has been built on a foot.
LEMMA FeetFoundNext ==
  ASSUME AllInv, GoalsAim, Shaped, Goalless, FeetFound, [Next]_vars
  PROVE  FeetFound'
<1>1. Grows /\ hand' = hand
  BY NextGrows DEF Grows
<1>2. ASSUME NEW t, OnFoot(t)
      PROVE  OnFoot(t)'
  <2>1. PICK f : f = FootBelow(t)
    OBVIOUS
  <2>2. Footed(hand, t.n) => Found(f)'
    BY <1>1, <1>2, <2>1, FoundKept DEF OnFoot
  <2>3. FootBelow(t)' = f /\ Footed(hand, t.n)' = Footed(hand, t.n)
    BY <1>1, <2>1 DEF FootBelow, Footed
  <2> QED  BY <2>2, <2>3 DEF OnFoot
<1>3. ASSUME NEW p \in ItemIds'
      PROVE  OnFoot(states[p])'
  <2>1. CASE p \in Ids
    <3>1. states'[p].n = states[p].n /\ states'[p].fl = states[p].fl /\ states'[p].fr = states[p].fr
          /\ p \in ItemIds
      BY <1>1, <2>1, GrowsFields DEF ItemIds
    <3>2. PICK s : s = states[p]
      OBVIOUS
    <3>3. OnFoot(s)'
      BY <1>2, <3>1, <3>2 DEF FeetFound
    <3> QED  BY <3>1, <3>2, <3>3 DEF OnFoot, FootBelow, Footed
  <2>2. CASE p \notin Ids
    <3>1. p \in Ids' /\ states'[p].type = "item"
      BY DEF ItemIds
    <3>2. PICK r \in todo : states'[p] = r.t
      BY <2>2, <3>1, NewStates
    <3>3. PICK t : t = r.t
      OBVIOUS
    <3>4. OnFoot(t) \/ Like(t, FootBelow(t))
      BY <3>1, <3>2, <3>3 DEF FeetFound
    <3>5. CASE OnFoot(t)
      <4>1. OnFoot(t)'
        BY <1>2, <3>5
      <4> QED  BY <3>2, <3>3, <4>1 DEF OnFoot, FootBelow
    <3>6. CASE Like(t, FootBelow(t))
      <4>1. Like(states[p], FootBelow(states[p]))'
        BY <1>1, <3>2, <3>3, <3>6 DEF Like, FootBelow, Spot, D!Fact
      <4> QED  BY <4>1 DEF OnFoot, Found
    <3> QED  BY <3>4, <3>5, <3>6
  <2> QED  BY <2>1, <2>2
<1>4. ASSUME NEW c \in todo', c.t.type = "item"
      PROVE  OnFoot(c.t)' \/ Like(c.t, FootBelow(c.t))'
  <2>1. PICK t : t = c.t
    OBVIOUS
  <2>2. OnFoot(t) \/ Like(t, FootBelow(t))
    <3>1. CASE c \in todo
      BY <1>4, <2>1, <3>1 DEF FeetFound
    <3>2. CASE Footing(t)
      <4>1. CASE \E d \in ItemIds : /\ hand.head[states[d].n] = hand.head[t.n]
                                    /\ states[d].fl = t.fl /\ states[d].fr = t.fr
        <5>1. PICK d \in ItemIds : /\ hand.head[states[d].n] = hand.head[t.n]
                                   /\ states[d].fl = t.fl /\ states[d].fr = t.fr
          BY <4>1
        <5>2. OnFoot(states[d])
          BY <5>1 DEF FeetFound
        <5>3. FootBelow(states[d]) = FootBelow(t) /\ (Footed(hand, t.n) <=> Footed(hand, states[d].n))
          BY <5>1 DEF FootBelow, Footed
        <5> QED  BY <5>2, <5>3 DEF OnFoot
      <4>2. CASE ~ Footed(hand, t.n)
        BY <4>2 DEF OnFoot
      <4> QED  BY <3>2, <4>1, <4>2 DEF Footing
    <3> QED  BY <1>4, <2>1, <3>1, <3>2, NewCalls DEF Proper
  <2>3. Like(t, FootBelow(t)) => Like(t, FootBelow(t))'
    BY <1>1 DEF Like, FootBelow
  <2>4. OnFoot(t)' \/ Like(t, FootBelow(t))'
    BY <1>2, <2>2, <2>3
  <2> QED  BY <2>1, <2>4
<1> QED  BY <1>3, <1>4 DEF FeetFound

\* An item without a goal has been found for a prediction.
LEMMA GoallessNext ==
  ASSUME AllInv, GoalsAim, Shaped, Goalless, [Next]_vars
  PROVE  Goalless'
<1>1. Grows
  BY NextGrows
<1>2. ASSUME NEW t, Backed(t)
      PROVE  Backed(t)'
  <2>1. PICK d \in Ids : states[d].type = "goal" /\ states[d].g = 0 /\ Like(states[d], t)
    BY <1>2 DEF Backed
  <2>2. /\ d \in Ids' /\ states'[d].type = "goal" /\ states'[d].g = 0
        /\ Like(states'[d], states[d])
    BY <1>1, <2>1, GrowsFields
  <2> QED  BY <2>1, <2>2 DEF Backed, Like
<1>3. ASSUME NEW p \in ItemIds', states'[p].g = 0
      PROVE  Backed(states[p])'
  <2>1. p \in Ids' /\ states'[p].type = "item"
    BY DEF ItemIds
  <2>2. CASE p \in Ids
    <3>1. p \in ItemIds /\ states[p].g = 0 /\ Like(states'[p], states[p])
      BY <1>1, <1>3, <2>1, <2>2, GrowsFields DEF ItemIds
    <3>2. PICK s : s = states[p]
      OBVIOUS
    <3>3. Backed(s)'
      BY <1>2, <3>1, <3>2 DEF Goalless
    <3> QED  BY <3>1, <3>2, <3>3 DEF Backed, Like
  <2>3. CASE p \notin Ids
    <3>1. PICK r \in todo : states'[p] = r.t
      BY <2>1, <2>3, NewStates
    <3>2. PICK t : t = r.t
      OBVIOUS
    <3>3. Backed(t)'
      BY <1>2, <1>3, <2>1, <3>1, <3>2 DEF Goalless
    <3> QED  BY <3>1, <3>2, <3>3 DEF Backed
  <2> QED  BY <2>2, <2>3
<1>4. ASSUME NEW c \in todo', c.t.type = "item", c.t.g = 0
      PROVE  Backed(c.t)'
  <2>1. PICK t : t = c.t
    OBVIOUS
  <2>2. Backed(t)
    BY <1>4, <2>1, NewCalls DEF Goalless, Proper
  <2>3. Backed(t)'
    BY <1>2, <2>2
  <2> QED  BY <2>1, <2>3
<1> QED  BY <1>3, <1>4 DEF Goalless

\* The new calls are for goals that are there.
LEMMA NewGoals ==
  ASSUME AllInv, GoalsAim, [Next]_vars, NEW c \in todo'
  PROVE  c.t.g \in Ids \cup {0}
<1>1. CASE c \in todo
  BY <1>1, TypesAre
<1>2. CASE c \notin todo
  <2>1. InitHead \/ MoveUp \/ Completer
    BY <1>2 DEF Next, Add, NextList, vars
  <2>2. Ids' = Ids
    BY SMTT(30), <2>1, InitHeadGrows, GrowsQuiet DEF MoveUp, Completer
  <2>3. /\ states' \in Seq(State) /\ c.t.g \in 0 .. Len(states')
    BY AllNext DEF AllInv, DeductionInv, Inv, Inductive, TypeOK, Bounded
  <2>4. Ids' = 1 .. Len(states')
    BY <2>3 DEF Ids
  <2> QED  BY <2>2, <2>3, <2>4
<1> QED  BY <1>1, <1>2

\* The goal of a goal stays the same.
LEMMA HigherNext ==
  ASSUME AllInv, GoalsAim, Shaped, Goalless, HigherGoals, [Next]_vars
  PROVE  HigherGoals'
<1>1. Grows
  BY NextGrows
<1>2. ASSUME NEW t, t.g \in Ids \cup {0}, Higher(t)
      PROVE  Higher(t)'
  BY <1>1, <1>2, GrowsFields DEF Higher
<1>3. ASSUME NEW p \in Ids', states'[p].g # p
      PROVE  Higher(states[p])'
  <2>1. CASE p \in Ids
    <3>1. /\ states'[p].g = states[p].g /\ (states'[p].type = "item" <=> states[p].type = "item")
          /\ states'[p].n = states[p].n
      BY <1>1, <1>3, <2>1, GrowsFields
    <3>2. PICK s : s = states[p]
      OBVIOUS
    <3>3. Higher(s) /\ s.g \in Ids \cup {0}
      BY <1>3, <2>1, <3>1, <3>2, TypesAre DEF HigherGoals
    <3>4. Higher(s)'
      BY <1>2, <3>3
    <3> QED  BY <3>1, <3>2, <3>4 DEF Higher
  <2>2. CASE p \notin Ids
    <3>1. PICK r \in todo : states'[p] = r.t
      BY <2>2, NewStates
    <3>2. PICK t : t = r.t
      OBVIOUS
    <3>3. Higher(t) /\ t.g \in Ids \cup {0}
      BY <3>2, TypesAre DEF HigherGoals
    <3>4. Higher(t)'
      BY <1>2, <3>3
    <3> QED  BY <3>1, <3>2, <3>4 DEF Higher
  <2> QED  BY <2>1, <2>2
<1>4. ASSUME NEW c \in todo'
      PROVE  Higher(c.t)'
  <2>1. PICK t : t = c.t
    OBVIOUS
  <2>2. Higher(t)
    BY <2>1, NewCalls DEF HigherGoals, Proper
  <2>3. t.g \in Ids \cup {0}
    BY <2>1, NewGoals
  <2>4. Higher(t)'
    BY <1>2, <2>2, <2>3
  <2> QED  BY <2>1, <2>4
<1> QED  BY <1>3, <1>4 DEF HigherGoals

\* What hparse() starts with is not lost.
LEMMA SeedsNext ==
  ASSUME AllInv, GoalsAim, SeedsArrive, [Next]_vars
  PROVE  SeedsArrive'
<1>1. hand' = hand
  BY NextGrows DEF Grows
<1>2. ASSUME NEW r \in Seeds(hand)
      PROVE  Arrives(r.t)'
  <2>1. PICK f : f = r.t
    OBVIOUS
  <2>2. Arrives(f)'
    BY <2>1, ArrivesKept DEF SeedsArrive
  <2> QED  BY <2>1, <2>2
<1>3. Seeds(hand)' = Seeds(hand)
  BY SMTT(30), <1>1 DEF Seeds
<1> QED  BY <1>2, <1>3 DEF SeedsArrive

\* A merge lets the parser go on or stops it.
LEMMA MergeStages ==
  ASSUME NEW t, NEW d, Merge(d, t)
  PROVE  stage' = "abort" \/ stage' = stage
BY DEF Merge

\* Nothing is to do when hparse() is over.
LEMMA OverNext ==
  ASSUME AllInv, OverIsOver, [Next]_vars
  PROVE  OverIsOver'
<1> SUFFICES ASSUME stage' = "done"
             PROVE  (todo = {} /\ plist = <<>> /\ nlist = <<>> /\ idx = 1)'
  BY DEF OverIsOver
<1>1. stage' # "abort"
  OBVIOUS
<1>2. CASE Add
  <2>1. PICK r \in todo : hparse_add(r.t) /\ stage # "done"
    BY <1>2 DEF Add
  <2>2. CASE Drop(r.t) \/ Store(r.t)
    BY <2>1, <2>2 DEF Drop, Store
  <2>3. CASE Merge(CheckHeap(r.t), r.t)
    <3>1. stage' = "abort" \/ stage' = stage
      BY <2>3, MergeStages
    <3> QED  BY <2>1, <3>1
  <2> QED  BY <2>1, <2>2, <2>3 DEF hparse_add
<1>3. CASE InitHead \/ MoveUp \/ Completer
  BY <1>3 DEF InitHead, MoveUp, Completer
<1>4. CASE NextList
  BY <1>4 DEF NextList
<1>5. CASE UNCHANGED vars
  BY <1>5 DEF vars, OverIsOver
<1> QED  BY <1>2, <1>3, <1>4, <1>5 DEF Next

ClosingInv ==
  /\ AllInv /\ GoalsAim /\ Shaped /\ Goalless /\ HigherGoals /\ FeetFound /\ SeedsArrive
  /\ BegunArrive /\ MovedArrive /\ OverIsOver

\* The invariant, step by step.
LEMMA ClosingNext ==
  ASSUME ClosingInv, [Next]_vars
  PROVE  ClosingInv'
<1>1. AllInv' /\ GoalsAim' /\ Shaped'
  BY AllNext, GoalsAimNext, ShapedNext DEF ClosingInv
<1>2. FeetFound' /\ SeedsArrive' /\ OverIsOver'
  BY FeetFoundNext, SeedsNext, OverNext DEF ClosingInv
<1>20. Goalless' /\ HigherGoals'
  BY GoallessNext, HigherNext DEF ClosingInv
<1>3. BegunArrive' /\ MovedArrive'
  BY BegunNext, MovedNext DEF ClosingInv
<1> QED  BY <1>1, <1>2, <1>20, <1>3 DEF ClosingInv

\* hparse() starts with predictions for the whole sentence.
LEMMA SeedIs ==
  ASSUME hand \in Hands, NEW r \in Seeds(hand)
  PROVE  \E n : SpineTop(hand, n) /\ r.t = Predict(n, 0, hand.last, ef, ef, 0, 0)
<1> DEFINE init(a, k) == Predict(hand.inits[hand.tops[a]][k], 0, hand.last, ef, ef, 0, 0)
           call(a, k) == Call(<<a, k, 0, 0>>, init(a, k))
<1>1. PICK a \in DOMAIN hand.tops : \E k \in DOMAIN hand.inits[hand.tops[a]] : r = call(a, k)
  BY DEF Seeds
<1>4. PICK k \in DOMAIN hand.inits[hand.tops[a]] : r = call(a, k)
  BY <1>1
<1>2. call(a, k).t = init(a, k)
  BY CallFields
<1>3. r.t = init(a, k)
  <2> HIDE DEF call, init
  <2> QED  BY <1>2, <1>4
<1>5. PICK l : l = hand.tops[a] /\ l \in DOMAIN hand.inits
  BY <1>4, HandOK DEF ListsOK
<1>6. SpineTop(hand, hand.inits[l][k])
  BY <1>4, <1>5, RootIsTop
<1>7. r.t = Predict(hand.inits[l][k], 0, hand.last, ef, ef, 0, 0)
  BY <1>3, <1>4, <1>5
<1> QED  BY <1>6, <1>7

\* The invariant holds when hparse() starts.
LEMMA ClosingInit ==
  ASSUME AuxLexical, Init
  PROVE  ClosingInv
<1>1. AllInv
  BY InitDed, InitChart, AgendaInit DEF AllInv
<1>2. Ids = {} /\ todo = Seeds(hand) /\ stage = "head"
  BY DEF Init, Ids
<1>3. ASSUME NEW r \in Seeds(hand)
      PROVE  \E n : r.t = Predict(n, 0, hand.last, ef, ef, 0, 0)
  BY SeedIs DEF Init
<1>4. ASSUME NEW r \in todo
      PROVE  r.t.type = "init" /\ r.t.g = 0 /\ Shapely(r.t) /\ Like(r.t, r.t)
  <2>1. PICK n : r.t = Predict(n, 0, hand.last, ef, ef, 0, 0)
    BY <1>2, <1>3
  <2>2. PICK t : t = r.t
    OBVIOUS
  <2>3. t.type = "init" /\ t.g = 0 /\ t.pos = "top" /\ t.fl = ef /\ t.fr = ef
    BY <2>1, <2>2 DEF Predict
  <2> QED  BY <2>2, <2>3 DEF Shapely, Like
<1>5. GoalsAim /\ Shaped /\ FeetFound /\ Goalless /\ HigherGoals
  BY <1>2, <1>4 DEF GoalsAim, Shaped, FeetFound, ItemIds, Goalless, HigherGoals, Higher
<1>6. SeedsArrive
  BY <1>2, <1>4 DEF SeedsArrive, Arrives, OutOfGoal
<1>7. BegunArrive /\ MovedArrive /\ OverIsOver
  BY <1>2 DEF BegunArrive, MovedArrive, OverIsOver, Begun, Moved
<1> QED  BY <1>1, <1>5, <1>6, <1>7 DEF ClosingInv

-----------------------------------------------------------------------------
(* The chart when hparse() is done.                                        *)

Over0 == ClosingInv /\ stage = "done"

\* At the end every state has been through all handlers, and what arrives is there.
LEMMA AllIsDone ==
  ASSUME Over0
  PROVE  /\ AllInv /\ hand \in Hands /\ Moved = Ids /\ Finished = Ids /\ Predictions \subseteq Begun
         /\ \A f : \A g : Comes({"item"}, f, g) => FoundFor(f, g)
         /\ \A f : Arrives(f) => \E d \in Ids : Like(states[d], f)
<1>1. AllInv /\ hand \in Hands /\ todo = {} /\ plist = <<>> /\ nlist = <<>> /\ idx = 1
  BY DEF Over0, ClosingInv, OverIsOver, AllInv, DeductionInv, Inv
<1>2. First = Len(states) + 1 /\ MoveMark = First /\ DoneMark = First /\ Expanded = 0
  BY <1>1, MarksAre DEF Over0, MoveMark, DoneMark, Expanded
<1>3. Moved = Ids /\ Finished = Ids
  <2>1. \A p \in Ids : p < First
    <3>1. Ids = 1 .. Len(states) /\ Len(states) \in Nat
      BY <1>1, MarksAre
    <3> QED  BY <1>2, <3>1
  <2>2. Moved = {p \in Ids : p < MoveMark} /\ Finished = {p \in Ids : p < DoneMark}
    BY <1>1, MarksAre
  <2> QED  BY <1>2, <2>1, <2>2
<1>4. ASSUME NEW p \in Predictions
      PROVE  p \in Begun
  <2>1. p \in Ids /\ states[p].type # "item" /\ states[p].g \in {0, p}
    BY DEF Predictions, ItemIds
  <2>2. states[p].type # "init"
    <3>1. states[p].type = "init" => p >= First + Expanded
      BY <1>1, <2>1 DEF AllInv, AgendaInv, OnLists
    <3>2. p \in 1 .. Len(states) /\ Len(states) \in Nat
      BY <1>1, <2>1, MarksAre
    <3> QED  BY <1>2, <3>1, <3>2
  <2>3. states[p].type \in AnyType
    BY <1>1, <2>1, TypesAre
  <2> QED  BY <2>1, <2>2, <2>3 DEF Begun, AnyType
<1>5. ASSUME NEW f, NEW g, Comes({"item"}, f, g)
      PROVE  FoundFor(f, g)
  BY <1>1, <1>5 DEF Comes, FoundFor, Working, ItemIds, Wide, AsWide
<1>6. ASSUME NEW f, Arrives(f)
      PROVE  \E d \in Ids : Like(states[d], f)
  BY <1>1, <1>6 DEF Arrives
<1> QED  BY <1>1, <1>3, <1>4, <1>5, <1>6

\* A subtree that has been asked for is predicted, or found and at work.
LEMMA AwaitedIs ==
  ASSUME Over0, NEW f, Arrives(f), f.pos = "top", SpineTop(hand, f.n)
  PROVE  \E d \in Predictions \cup Working : Like(states[d], f)
<1>1. /\ AllInv /\ hand \in Hands /\ Goalless /\ HigherGoals
  BY AllIsDone DEF Over0, ClosingInv
<1>2. PICK d \in Ids : Like(states[d], f)
  BY AllIsDone
<1>3. CASE states[d].type = "item" /\ states[d].g # 0
  BY <1>2, <1>3 DEF Working, ItemIds
<1>4. CASE states[d].type = "item" /\ states[d].g = 0
  <2>1. PICK e \in Ids : states[e].type = "goal" /\ states[e].g = 0 /\ Like(states[e], states[d])
    BY <1>1, <1>4 DEF Goalless, Backed, ItemIds
  <2>2. e \in Predictions /\ Like(states[e], f)
    BY <1>2, <2>1 DEF Predictions, ItemIds, Like
  <2> QED  BY <2>2
<1>5. CASE states[d].type # "item" /\ states[d].g \in {0, d}
  BY <1>2, <1>5 DEF Predictions, ItemIds
<1>6. CASE states[d].type # "item" /\ states[d].g \notin {0, d}
  <2>1. PICK s : s = states[d]
    OBVIOUS
  <2>2. PICK e : e = states[s.g]
    OBVIOUS
  <2>3. e.n # s.n
    BY <1>1, <1>6, <2>1, <2>2 DEF HigherGoals, Higher
  <2>4. s.g \in Ids /\ s.n \in hand.nodes /\ s.n = f.n
    BY <1>1, <1>2, <1>6, <2>1, TypesAre, StatesOK DEF AllInv, DeductionInv, Like
  <2>5. e.n \in hand.nodes /\ SpineTop(hand, e.n) /\ hand.head[e.n] = hand.head[s.n]
    <3>1. Aims(hand, states, s.g, s.n) /\ states[s.g].n \in hand.nodes
      BY <1>1, <2>1, <2>4, StatesOK DEF AllInv, DeductionInv
    <3> QED  BY <2>2, <2>4, <3>1, TypesAre, <1>1 DEF Aims
  <2>6. e.n = s.n
    BY <1>1, <2>4, <2>5, HandOK DEF HeadsOK
  <2> QED  BY <2>3, <2>6
<1> QED  BY <1>3, <1>4, <1>5, <1>6

\* FoundFor does not look at the words.
LEMMA FoundLike ==
  ASSUME NEW f, NEW x, NEW g, FoundFor(x, g), Like(x, f)
  PROVE  FoundFor(f, g)
BY DEF FoundFor, Like

\* A subtree that has been asked for is there, and once it is found what follows.
LEMMA ServedIs ==
  ASSUME Over0, NEW n, SpineTop(hand, n), NEW i, NEW j, NEW fl, NEW fr,
         NEW w, w = Spot(n, "top", i, j, fl, fr), NEW f, NEW g, Served(w, f, g)
  PROVE  /\ Sought(n, i, j, fl, fr)
         /\ \A q \in Working : Like(states[q], w) => FoundFor(f, g)
<1>1. Arrives(w) /\ \A q \in Working \cap Finished : Like(states[q], w) => Comes({"item"}, f, g)
  BY DEF Served
<1>2. Working \subseteq Finished
  BY AllIsDone DEF Working, ItemIds
<1>3. \A q \in Working : Like(states[q], w) => FoundFor(f, g)
  BY <1>1, <1>2, AllIsDone
<1>4. Sought(n, i, j, fl, fr)
  <2>1. w.n = n /\ w.pos = "top" /\ w = D!Fact(n, "top", i, j, fl, fr, <<>>)
    BY DEF Spot, D!Fact
  <2> QED  BY <1>1, <2>1, AwaitedIs DEF Sought
<1> QED  BY <1>3, <1>4

\* The trees for the whole sentence are sought.
LEMMA SeedsSought ==
  ASSUME Over0, NEW r \in Seeds(hand)
  PROVE  Sought(r.t.n, 0, hand.last, ef, ef)
<1>1. PICK t : t = r.t
  OBVIOUS
<1>2. Arrives(t) /\ hand \in Hands
  BY <1>1, AllIsDone DEF Over0, ClosingInv, SeedsArrive
<1>3. PICK n : SpineTop(hand, n) /\ t = Predict(n, 0, hand.last, ef, ef, 0, 0)
  BY <1>1, <1>2, SeedIs
<1>4. t.n = n /\ t.pos = "top" /\ t.i = 0 /\ t.j = hand.last /\ t.fl = ef /\ t.fr = ef
  BY <1>3 DEF Predict
<1>5. PICK d \in Predictions \cup Working : Like(states[d], t)
  BY <1>2, <1>3, <1>4, AwaitedIs
<1>6. Like(states[d], D!Fact(t.n, "top", 0, hand.last, ef, ef, <<>>))
  BY <1>4, <1>5 DEF Like, D!Fact
<1> QED  BY <1>1, <1>5, <1>6 DEF Sought

\* The leaves of every prediction are found.
LEMMA LeavesAreFound ==
  ASSUME Over0, NEW p \in Predictions
  PROVE  LeavesFound(p)
<1>1. LeavesArrive(p)
  BY AllIsDone DEF Over0, ClosingInv, BegunArrive
<1> QED  BY <1>1, AllIsDone DEF LeavesArrive, LeavesFound

\* What D!Substitution concludes.
LEMMA SubstitutionIs ==
  ASSUME NEW x, NEW f \in D!Substitution(hand, Content(x))
  PROVE  /\ x.pos = "top" /\ hand.up[x.n] = 0 /\ hand.foot[x.n] = 0
         /\ f.pos = "top" /\ f.i = x.i /\ f.j = x.j /\ f.fl = ef /\ f.fr = ef
<1>1. PICK y : y = Content(x)
  OBVIOUS
<1>2. y.n = x.n /\ y.pos = x.pos /\ y.i = x.i /\ y.j = x.j
  BY <1>1 DEF Content
<1>3. /\ D!IsRoot(hand, y.n) /\ hand.foot[y.n] = 0 /\ y.pos = "top"
      /\ \E n : f = D!Fact(n, "top", y.i, y.j, D!noFoot, D!noFoot, <<>>)
  BY <1>1 DEF D!Substitution
<1>4. f.pos = "top" /\ f.i = y.i /\ f.j = y.j /\ f.fl = ef /\ f.fr = ef
  BY <1>3 DEF D!Fact, D!noFoot, ef
<1> QED  BY <1>2, <1>3, <1>4 DEF D!IsRoot

\* An item for a node without a foot below its headcorner.
LEMMA NoGap ==
  ASSUME AllInv, NEW q \in Working, ~ Footed(hand, states[q].n)
  PROVE  states[q].fl = ef /\ states[q].fr = ef
BY WorkingFacts DEF Covers

\* One tree and one span of those that SubstsArrive is about.
LEMMA SubstAsked ==
  ASSUME NEW p, SubstsArrive(p), NEW s, NEW n, NEW k, NEW v,
         s = states[p] /\ n = hand.head[s.n] /\ hand.kind[n] = "subst",
         k \in DOMAIN hand.inits[hand.label[n]] /\ v \in SubstSpans(s, n)
  PROVE  SubstArrives(p, hand.inits[hand.label[n]][k], v)
BY DEF SubstsArrive

Substituted(p, s, n, r, a, b) ==
  /\ Sought(r, a, b, ef, ef)
  /\ \A q \in Working : \A f \in D!Substitution(hand, Content(states[q])) :
       /\ states[q].n = r /\ f.n = n /\ f.i = a /\ f.j = b
       /\ s.n = n => a = s.i /\ b = s.j
       => FoundFor(f, p)

\* Every tree that fits is substituted.
LEMMA TreesAreSubstituted ==
  ASSUME Over0, NEW p \in Predictions
  PROVE  TreesSubstituted(p)
<1>1. AllInv /\ hand \in Hands /\ p \in Begun /\ p \in Ids
  BY AllIsDone DEF Predictions
<1>2. PICK s : s = states[p]
  OBVIOUS
<1>3. PICK n : n = hand.head[s.n]
  OBVIOUS
<1>4. n \in hand.nodes /\ SubstsArrive(p)
  <2>1. s.n \in hand.nodes
    BY <1>1, <1>2, StatesOK DEF AllInv, DeductionInv
  <2> QED  BY <1>1, <1>3, <2>1, NodeFacts DEF Over0, ClosingInv, BegunArrive
<1>5. ASSUME hand.kind[n] = "subst", NEW k \in DOMAIN hand.inits[hand.label[n]],
             NEW v \in SubstSpans(s, n)
      PROVE  Substituted(p, s, n, hand.inits[hand.label[n]][k], v[1], v[2])
  <2>0. PICK r : r = hand.inits[hand.label[n]][k]
    OBVIOUS
  <2>1. PICK a, b : v = <<a, b>>
    BY DEF SubstSpans
  <2>2. PICK w : w = Spot(r, "top", a, b, ef, ef)
    OBVIOUS
  <2>3. PICK f0 : f0 = Spot(n, "top", a, b, ef, ef)
    OBVIOUS
  <2>4. /\ Arrives(w)
        /\ (s.n = n => <<a, b>> = <<s.i, s.j>>) => Served(w, f0, p)
    <3>1. /\ s = states[p] /\ n = hand.head[s.n] /\ hand.kind[n] = "subst"
          /\ k \in DOMAIN hand.inits[hand.label[n]] /\ v \in SubstSpans(s, n)
      BY SMTT(30), <1>2, <1>3, <1>5
    <3>2. SubstArrives(p, hand.inits[hand.label[n]][k], v)
      BY <1>4, <3>1, SubstAsked
    <3>3. SubstArrives(p, r, <<a, b>>)
      BY <2>0, <2>1, <3>2
    <3> QED  BY <1>2, <1>3, <2>2, <2>3, <3>3 DEF SubstArrives
  <2>6. ~ Footed(hand, r) /\ SpineTop(hand, r)
    <3>1. PICK l : l = hand.label[n]
      OBVIOUS
    <3>2. l \in DOMAIN hand.inits /\ k \in DOMAIN hand.inits[l] /\ r = hand.inits[l][k]
      BY <1>1, <1>4, <1>5, <2>0, <3>1, HandOK DEF ListsOK
    <3> QED  BY <1>1, <3>2, RootIsTop DEF Footed
  <2>5. Sought(r, a, b, ef, ef)
    <3>1. w.n = r /\ w.pos = "top" /\ w = D!Fact(r, "top", a, b, ef, ef, <<>>)
      BY <2>2 DEF Spot, D!Fact
    <3> QED  BY <2>4, <2>6, <3>1, AwaitedIs DEF Sought
  <2>7. ASSUME NEW q \in Working, NEW f \in D!Substitution(hand, Content(states[q])),
               states[q].n = r, f.n = n, f.i = a, f.j = b, s.n = n => a = s.i /\ b = s.j
        PROVE  FoundFor(f, p)
    <3>1. /\ states[q].pos = "top" /\ states[q].i = a /\ states[q].j = b
          /\ f.pos = "top" /\ f.fl = ef /\ f.fr = ef
      BY <2>7, SubstitutionIs
    <3>2. states[q].fl = ef /\ states[q].fr = ef
      BY <1>1, <2>6, <2>7, NoGap
    <3>3. Like(states[q], w)
      BY <2>2, <2>7, <3>1, <3>2 DEF Like, Spot, D!Fact
    <3>4. FoundFor(f0, p)
      BY <2>2, <2>4, <2>6, <2>7, <3>3, ServedIs
    <3>5. Like(f0, f)
      BY <2>3, <2>7, <3>1 DEF Like, Spot, D!Fact
    <3> QED  BY <3>4, <3>5, FoundLike
  <2>8. Substituted(p, s, n, r, a, b)
    BY <2>5, <2>7 DEF Substituted
  <2>9. v[1] = a /\ v[2] = b
    BY <2>1
  <2> QED  BY <2>0, <2>8, <2>9
<1>6. ASSUME hand.kind[n] = "subst", NEW k \in DOMAIN hand.inits[hand.label[n]],
             NEW v \in SubstSpans(s, n)
      PROVE  LET r == hand.inits[hand.label[n]][k]
             IN /\ Sought(r, v[1], v[2], ef, ef)
                /\ \A q \in Working : \A f \in D!Substitution(hand, Content(states[q])) :
                     /\ states[q].n = r /\ f.n = n /\ <<f.i, f.j>> = v
                     /\ s.n = n => v = <<s.i, s.j>>
                     => FoundFor(f, p)
  <2>1. Substituted(p, s, n, hand.inits[hand.label[n]][k], v[1], v[2])
    BY <1>5, <1>6
  <2>2. PICK r : r = hand.inits[hand.label[n]][k]
    OBVIOUS
  <2>3. PICK a, b : v = <<a, b>>
    BY DEF SubstSpans
  <2>4. Substituted(p, s, n, r, a, b)
    BY <2>1, <2>2, <2>3
  <2>5. Sought(r, a, b, ef, ef)
    BY <2>4 DEF Substituted
  <2>6. ASSUME NEW q \in Working, NEW f \in D!Substitution(hand, Content(states[q])),
               states[q].n = r, f.n = n, <<f.i, f.j>> = v, s.n = n => v = <<s.i, s.j>>
        PROVE  FoundFor(f, p)
    <3>1. f.i = a /\ f.j = b /\ (s.n = n => a = s.i /\ b = s.j)
      BY <2>3, <2>6
    <3> QED  BY <2>4, <2>6, <3>1 DEF Substituted
  <2>7. v[1] = a /\ v[2] = b
    BY <2>3
  <2> QED  BY <2>2, <2>5, <2>6, <2>7
<1> QED  BY <1>2, <1>3, <1>6, Zenon DEF TreesSubstituted

\* Every item is moved up.
LEMMA ItemsMovedUp ==
  ASSUME Over0, NEW p \in Working
  PROVE  MovedUp(p)
<1>1. AllInv /\ UpArrives(p)
  BY AllIsDone DEF Over0, ClosingInv, MovedArrive, Working, ItemIds
<1>2. PICK s : s = states[p]
  OBVIOUS
<1>3. PICK x : x = Content(s)
  OBVIOUS
<1>4. /\ x.n = s.n /\ x.pos = s.pos /\ x.i = s.i /\ x.j = s.j /\ x.fl = s.fl /\ x.fr = s.fr
  BY <1>3 DEF Content
<1>5. /\ s.pos = "bot" => Comes({"item"}, Over(s), s.g)
      /\ s.pos = "top" /\ hand.up[s.n] # 0 /\ hand.side[s.n] = "only" => Comes({"item"}, Under(s), s.g)
  BY <1>1, <1>2 DEF UpArrives
<1>6. ASSUME NEW f \in D!NullAdjunction(hand, x)
      PROVE  FoundFor(f, s.g)
  <2>1. x.pos = "bot" /\ f = [x EXCEPT !.pos = "top"]
    BY DEF D!NullAdjunction
  <2>2. f.n = x.n /\ f.pos = "top" /\ f.i = x.i /\ f.j = x.j /\ f.fl = x.fl /\ f.fr = x.fr
    BY <1>3, <2>1 DEF Content
  <2>3. Like(Over(s), f)
    BY <1>4, <2>2 DEF Like, Over, Spot, D!Fact
  <2> QED  BY <1>4, <1>5, <2>1, <2>3, AllIsDone, FoundLike
<1>7. ASSUME NEW f \in D!Unary(hand, x)
      PROVE  FoundFor(f, s.g)
  <2>1. /\ x.pos = "top" /\ ~D!IsRoot(hand, x.n) /\ hand.side[x.n] = "only"
        /\ f = [x EXCEPT !.n = hand.up[x.n], !.pos = "bot"]
    BY DEF D!Unary
  <2>2. f.n = hand.up[x.n] /\ f.pos = "bot" /\ f.i = x.i /\ f.j = x.j /\ f.fl = x.fl /\ f.fr = x.fr
    BY <1>3, <2>1 DEF Content
  <2>3. Like(Under(s), f)
    BY <1>4, <2>2 DEF Like, Under, Spot, D!Fact
  <2>4. hand.up[s.n] # 0
    BY <1>4, <2>1 DEF D!IsRoot
  <2> QED  BY <1>4, <1>5, <2>1, <2>3, <2>4, AllIsDone, FoundLike
<1> QED  BY <1>2, <1>3, <1>6, <1>7 DEF MovedUp

\* What D!Binary concludes.
LEMMA BinaryIs ==
  ASSUME NEW x, NEW y, NEW f \in D!Binary(hand, Content(x), Content(y))
  PROVE  /\ x.pos = "top" /\ y.pos = "top" /\ x.j = y.i
         /\ hand.side[x.n] = "left" /\ hand.sibling[x.n] = y.n
         /\ f.n = hand.up[x.n] /\ f.pos = "bot" /\ f.i = x.i /\ f.j = y.j
         /\ f.fl = IF x.fl # ef THEN x.fl ELSE y.fl
         /\ f.fr = IF x.fr # ef THEN x.fr ELSE y.fr
<1>1. PICK u : u = Content(x)
  OBVIOUS
<1>2. PICK v : v = Content(y)
  OBVIOUS
<1>3. /\ u.n = x.n /\ u.pos = x.pos /\ u.i = x.i /\ u.j = x.j /\ u.fl = x.fl /\ u.fr = x.fr
      /\ v.n = y.n /\ v.pos = y.pos /\ v.i = y.i /\ v.j = y.j /\ v.fl = y.fl /\ v.fr = y.fr
  BY <1>1, <1>2 DEF Content
<1>4. /\ u.pos = "top" /\ v.pos = "top" /\ u.j = v.i
      /\ hand.side[u.n] = "left" /\ hand.sibling[u.n] = v.n
      /\ f = D!Fact(hand.up[u.n], "bot", u.i, v.j,
                    IF u.fl # D!noFoot THEN u.fl ELSE v.fl,
                    IF u.fr # D!noFoot THEN u.fr ELSE v.fr, u.w \o v.w)
  BY <1>1, <1>2 DEF D!Binary
<1>5. /\ f.n = hand.up[u.n] /\ f.pos = "bot" /\ f.i = u.i /\ f.j = v.j
      /\ f.fl = IF u.fl # ef THEN u.fl ELSE v.fl
      /\ f.fr = IF u.fr # ef THEN u.fr ELSE v.fr
  BY <1>4 DEF D!Fact, D!noFoot, ef
<1> QED  BY <1>3, <1>4, <1>5

\* What D!Adjunction concludes.
LEMMA AdjunctionIs ==
  ASSUME NEW x, NEW y, NEW f \in D!Adjunction(hand, Content(x), Content(y))
  PROVE  /\ x.pos = "top" /\ x.fl = y.i /\ x.fr = y.j
         /\ f.n = y.n /\ f.pos = AdjoinedPos /\ f.i = x.i /\ f.j = x.j
         /\ f.fl = y.fl /\ f.fr = y.fr
<1>1. PICK u : u = Content(x)
  OBVIOUS
<1>2. PICK v : v = Content(y)
  OBVIOUS
<1>3. /\ u.n = x.n /\ u.pos = x.pos /\ u.i = x.i /\ u.j = x.j /\ u.fl = x.fl /\ u.fr = x.fr
      /\ v.n = y.n /\ v.pos = y.pos /\ v.i = y.i /\ v.j = y.j /\ v.fl = y.fl /\ v.fr = y.fr
  BY <1>1, <1>2 DEF Content
<1>4. /\ u.pos = "top" /\ u.fl = v.i /\ u.fr = v.j
      /\ f = [v EXCEPT !.i = u.i, !.j = u.j,
                       !.pos = IF hand.pref.multiple THEN "bot" ELSE "top"]
  BY <1>1, <1>2 DEF D!Adjunction
<1>5. /\ f.n = v.n /\ f.pos = AdjoinedPos /\ f.i = u.i /\ f.j = u.j
      /\ f.fl = v.fl /\ f.fr = v.fr
  BY <1>2, <1>4 DEF Content, AdjoinedPos
<1> QED  BY <1>3, <1>4, <1>5

\* One span of those that SiblingsArrive is about.
LEMMA SiblingsAsked ==
  ASSUME NEW p, SiblingsArrive(p), NEW s, NEW v,
         /\ s = states[p] /\ s.pos = "top" /\ hand.side[s.n] # "only"
         /\ hand.head[hand.up[s.n]] = hand.head[s.n] /\ v \in SpansBeside(s, states[s.g])
  PROVE  SiblingArrives(p, v)
BY DEF SiblingsArrive

\* The sibling is served.
LEMMA SiblingServed ==
  ASSUME NEW p, NEW s, NEW a, NEW b, SiblingArrives(p, <<a, b>>), s = states[p]
  PROVE  Served(Spot(hand.sibling[s.n], "top", a, b, ef, ef), Joined(s, a, b), s.g)
BY DEF SiblingArrives

SiblingJoined(s, a, b) ==
  /\ Sought(hand.sibling[s.n], a, b, ef, ef)
  /\ \A q \in Working :
       \A f \in D!Binary(hand, Content(s), Content(states[q]))
                  \cup D!Binary(hand, Content(states[q]), Content(s)) :
         states[q].i = a /\ states[q].j = b => FoundFor(f, s.g)

\* An item and its sibling over one span are joined, whichever was first.
LEMMA SiblingIsJoined ==
  ASSUME Over0, NEW p \in Working, NEW s, s = states[p], NEW a, NEW b,
         SibVisit(s, a, b), SiblingArrives(p, <<a, b>>)
  PROVE  SiblingJoined(s, a, b)
<1>1. AllInv /\ hand \in Hands /\ s.n \in hand.nodes
  BY AllIsDone, WorkingFacts
<1>2. PICK m : m = hand.sibling[s.n]
  OBVIOUS
<1>3. /\ m \in hand.nodes /\ hand.up[m] = hand.up[s.n] /\ ~ Footed(hand, m) /\ SpineTop(hand, m)
      /\ hand.side[s.n] = "left" => hand.side[m] = "right"
      /\ hand.side[s.n] # "left" => hand.side[s.n] = "right" /\ hand.side[m] = "left"
  BY <1>1, <1>2, SibFacts
<1>4. PICK w : w = Spot(m, "top", a, b, ef, ef)
  OBVIOUS
<1>5. PICK f0 : f0 = Joined(s, a, b)
  OBVIOUS
<1>6. Served(w, f0, s.g)
  BY <1>2, <1>4, <1>5, SiblingServed
<1>7. Sought(m, a, b, ef, ef)
  BY <1>3, <1>4, <1>6, ServedIs
<1>8. ASSUME NEW q \in Working, states[q].n = m, states[q].pos = "top",
             states[q].i = a, states[q].j = b
      PROVE  FoundFor(f0, s.g) /\ states[q].fl = ef /\ states[q].fr = ef
  <2>1. states[q].fl = ef /\ states[q].fr = ef
    BY <1>1, <1>3, <1>8, NoGap
  <2>2. Like(states[q], w)
    BY <1>4, <1>8, <2>1 DEF Like, Spot, D!Fact
  <2> QED  BY <1>3, <1>4, <1>6, <2>1, <2>2, ServedIs
<1>9. ASSUME NEW q \in Working, NEW f \in D!Binary(hand, Content(s), Content(states[q])),
             states[q].i = a, states[q].j = b
      PROVE  FoundFor(f, s.g)
  <2>1. /\ states[q].pos = "top" /\ states[q].n = m /\ hand.side[s.n] = "left"
        /\ f.n = hand.up[s.n] /\ f.pos = "bot" /\ f.i = s.i /\ f.j = states[q].j
        /\ f.fl = IF s.fl # ef THEN s.fl ELSE states[q].fl
        /\ f.fr = IF s.fr # ef THEN s.fr ELSE states[q].fr
    BY <1>2, <1>9, BinaryIs
  <2>2. FoundFor(f0, s.g) /\ states[q].fl = ef /\ states[q].fr = ef
    BY <1>8, <1>9, <2>1
  <2>3. f.fl = s.fl /\ f.fr = s.fr
    BY <2>1, <2>2
  <2>4. Like(f0, f)
    BY <1>5, <1>9, <2>1, <2>3 DEF Like, Joined, Spot, D!Fact
  <2> QED  BY <2>2, <2>4, FoundLike
<1>10. ASSUME NEW q \in Working, NEW f \in D!Binary(hand, Content(states[q]), Content(s)),
              states[q].i = a, states[q].j = b
       PROVE  FoundFor(f, s.g)
  <2>1. /\ states[q].pos = "top" /\ hand.side[states[q].n] = "left" /\ hand.sibling[states[q].n] = s.n
        /\ f.n = hand.up[states[q].n] /\ f.pos = "bot" /\ f.i = states[q].i /\ f.j = s.j
        /\ f.fl = IF states[q].fl # ef THEN states[q].fl ELSE s.fl
        /\ f.fr = IF states[q].fr # ef THEN states[q].fr ELSE s.fr
    BY <1>10, BinaryIs
  <2>2. states[q].n = m /\ hand.side[s.n] # "left"
    <3>1. PICK n : n = states[q].n
      OBVIOUS
    <3>2. n \in hand.nodes /\ hand.side[n] = "left"
      BY <1>1, <2>1, <3>1, WorkingFacts
    <3>3. hand.sibling[hand.sibling[n]] = n /\ hand.side[hand.sibling[n]] = "right"
      BY <1>1, <3>2, SiblingFacts
    <3> QED  BY <1>2, <2>1, <3>1, <3>3
  <2>3. FoundFor(f0, s.g) /\ states[q].fl = ef /\ states[q].fr = ef
    BY <1>8, <1>10, <2>1, <2>2
  <2>4. f.fl = s.fl /\ f.fr = s.fr /\ f.n = hand.up[s.n]
    BY <1>3, <2>1, <2>2, <2>3
  <2>5. Like(f0, f)
    BY <1>5, <1>10, <2>1, <2>2, <2>4 DEF Like, Joined, Spot, D!Fact
  <2> QED  BY <2>3, <2>5, FoundLike
<1> QED  BY <1>2, <1>7, <1>9, <1>10 DEF SiblingJoined

\* Every item and its siblings are joined.
LEMMA SiblingsAreJoined ==
  ASSUME Over0, NEW p \in Working
  PROVE  SiblingsJoined(p)
<1>1. PICK s : s = states[p]
  OBVIOUS
<1>2. SiblingsArrive(p)
  BY AllIsDone DEF Over0, ClosingInv, MovedArrive, Working, ItemIds
<1>3. ASSUME s.pos = "top" /\ hand.side[s.n] # "only" /\ hand.head[hand.up[s.n]] = hand.head[s.n],
             NEW v \in SpansBeside(s, states[s.g])
      PROVE  /\ Sought(hand.sibling[s.n], v[1], v[2], ef, ef)
             /\ \A q \in Working :
                  \A f \in D!Binary(hand, Content(s), Content(states[q]))
                             \cup D!Binary(hand, Content(states[q]), Content(s)) :
                    <<states[q].i, states[q].j>> = v => FoundFor(f, s.g)
  <2>1. PICK a, b : v = <<a, b>>
    BY DEF SpansBeside
  <2>2. SiblingArrives(p, v)
    <3>1. /\ s = states[p] /\ s.pos = "top" /\ hand.side[s.n] # "only"
          /\ hand.head[hand.up[s.n]] = hand.head[s.n] /\ v \in SpansBeside(s, states[s.g])
      BY <1>1, <1>3
    <3> QED  BY <1>2, <3>1, SiblingsAsked
  <2>3. SibVisit(s, a, b)
    BY <1>3, <2>1 DEF SibVisit
  <2>4. SiblingArrives(p, <<a, b>>)
    BY <2>1, <2>2
  <2>5. SiblingJoined(s, a, b)
    BY <1>1, <2>3, <2>4, SiblingIsJoined
  <2>6. v[1] = a /\ v[2] = b
    BY <2>1
  <2>7. ASSUME NEW q \in Working,
               NEW f \in D!Binary(hand, Content(s), Content(states[q]))
                           \cup D!Binary(hand, Content(states[q]), Content(s)),
               <<states[q].i, states[q].j>> = v
        PROVE  FoundFor(f, s.g)
    <3>1. states[q].i = a /\ states[q].j = b
      BY <2>1, <2>7
    <3> QED  BY <2>5, <2>7, <3>1 DEF SiblingJoined
  <2>8. Sought(hand.sibling[s.n], a, b, ef, ef)
    BY <2>5 DEF SiblingJoined
  <2> QED  BY <2>6, <2>7, <2>8
<1> QED  BY <1>1, <1>3 DEF SiblingsJoined

\* The tree is served.
LEMMA AuxServed ==
  ASSUME NEW p, NEW s, NEW aux, NEW a, NEW b, AuxArrives(p, aux, <<a, b>>), s = states[p]
  PROVE  Served(Spot(aux, "top", a, b, s.i, s.j), Spot(s.n, AdjoinedPos, a, b, s.fl, s.fr), s.g)
BY DEF AuxArrives

TreeAdjoined(s, aux, a, b) ==
  /\ Sought(aux, a, b, s.i, s.j)
  /\ \A q \in Working : \A f \in D!Adjunction(hand, Content(states[q]), Content(s)) :
       states[q].n = aux /\ f.i = a /\ f.j = b => FoundFor(f, s.g)

\* One tree is adjoined to one item, whichever was first.
LEMMA TreeIsAdjoined ==
  ASSUME Over0, NEW p \in Working, NEW s, s = states[p], NEW aux, SpineTop(hand, aux),
         NEW a, NEW b, AuxArrives(p, aux, <<a, b>>)
  PROVE  TreeAdjoined(s, aux, a, b)
<1>1. PICK w : w = Spot(aux, "top", a, b, s.i, s.j)
  OBVIOUS
<1>2. PICK f0 : f0 = Spot(s.n, AdjoinedPos, a, b, s.fl, s.fr)
  OBVIOUS
<1>3. Served(w, f0, s.g)
  BY <1>1, <1>2, AuxServed
<1>4. Sought(aux, a, b, s.i, s.j)
  BY <1>1, <1>3, ServedIs
<1>5. ASSUME NEW q \in Working, NEW f \in D!Adjunction(hand, Content(states[q]), Content(s)),
             states[q].n = aux, f.i = a, f.j = b
      PROVE  FoundFor(f, s.g)
  <2>1. /\ states[q].pos = "top" /\ states[q].fl = s.i /\ states[q].fr = s.j
        /\ f.n = s.n /\ f.pos = AdjoinedPos /\ f.i = states[q].i /\ f.j = states[q].j
        /\ f.fl = s.fl /\ f.fr = s.fr
    BY <1>5, AdjunctionIs
  <2>2. Like(states[q], w)
    BY <1>1, <1>5, <2>1 DEF Like, Spot, D!Fact
  <2>3. FoundFor(f0, s.g)
    BY <1>1, <1>3, <2>2, ServedIs
  <2>4. Like(f0, f)
    BY <1>2, <1>5, <2>1 DEF Like, Spot, D!Fact
  <2> QED  BY <2>3, <2>4, FoundLike
<1> QED  BY <1>4, <1>5 DEF TreeAdjoined

\* Every auxiliary tree is adjoined.
LEMMA TreesAreAdjoined ==
  ASSUME Over0, NEW p \in Working
  PROVE  TreesAdjoined(p)
<1>1. PICK s : s = states[p]
  OBVIOUS
<1>2. AuxsArrive(p)
  BY AllIsDone DEF Over0, ClosingInv, MovedArrive, Working, ItemIds
<1>3. ASSUME s.pos = "bot", s.n \in hand.adjoin, NEW aux \in AuxTrees(s), ~ WrapBarred(aux, s.n),
             NEW v \in AdjoinSpans(s, aux)
      PROVE  /\ Sought(aux, v[1], v[2], s.i, s.j)
             /\ \A q \in Working : \A f \in D!Adjunction(hand, Content(states[q]), Content(s)) :
                  states[q].n = aux /\ <<f.i, f.j>> = v => FoundFor(f, s.g)
  <2>1. PICK a, b : v = <<a, b>>
    BY DEF AdjoinSpans
  <2>2. AuxArrives(p, aux, v)
    BY <1>1, <1>2, <1>3 DEF AuxsArrive
  <2>3. AuxArrives(p, aux, <<a, b>>)
    BY <2>1, <2>2
  <2>7. SpineTop(hand, aux)
    <3>1. PICK l : l = hand.label[s.n]
      OBVIOUS
    <3>2. PICK k \in DOMAIN hand.auxs[l] : aux = hand.auxs[l][k]
      BY <1>3, <3>1 DEF AuxTrees
    <3>3. l \in DOMAIN hand.auxs /\ hand \in Hands
      BY <1>1, <3>1, AllIsDone, WorkingFacts, HandOK DEF ListsOK
    <3> QED  BY <3>2, <3>3, AuxIsTop
  <2>4. TreeAdjoined(s, aux, a, b)
    BY <1>1, <2>3, <2>7, TreeIsAdjoined
  <2>5. Sought(aux, v[1], v[2], s.i, s.j)
    BY <2>1, <2>4 DEF TreeAdjoined
  <2>6. ASSUME NEW q \in Working, NEW f \in D!Adjunction(hand, Content(states[q]), Content(s)),
               states[q].n = aux, <<f.i, f.j>> = v
        PROVE  FoundFor(f, s.g)
    <3>1. f.i = a /\ f.j = b
      BY <2>1, <2>6
    <3> QED  BY <2>4, <2>6, <3>1 DEF TreeAdjoined
  <2> QED  BY <2>5, <2>6
<1> QED  BY <1>1, <1>3 DEF TreesAdjoined

\* The invariant makes the chart closed.
LEMMA ChartIsClosed ==
  ASSUME ClosingInv
  PROVE  ChartClosed
<1> SUFFICES ASSUME stage = "done"
             PROVE  /\ \A r \in Seeds(hand) : Sought(r.t.n, 0, hand.last, ef, ef)
                    /\ \A p \in Predictions : LeavesFound(p) /\ TreesSubstituted(p)
                    /\ \A p \in Working : MovedUp(p) /\ SiblingsJoined(p) /\ TreesAdjoined(p)
  BY DEF ChartClosed
<1>1. Over0
  BY DEF Over0
<1>2. \A r \in Seeds(hand) : Sought(r.t.n, 0, hand.last, ef, ef)
  BY <1>1, SeedsSought
<1>3. \A p \in Predictions : LeavesFound(p) /\ TreesSubstituted(p)
  BY <1>1, LeavesAreFound, TreesAreSubstituted
<1>4. \A p \in Working : MovedUp(p) /\ SiblingsJoined(p) /\ TreesAdjoined(p)
  BY <1>1, ItemsMovedUp, SiblingsAreJoined, TreesAreAdjoined
<1> QED  BY <1>2, <1>3, <1>4

\* When hparse() is done its chart is closed: whatever the order in which the
\* handlers found the states, no conclusion that a goal asks for is missing.
THEOREM ClosureReached == AuxLexical /\ Spec => []ChartClosed
<1>1. AuxLexical /\ Init => ClosingInv
  BY ClosingInit
<1>2. ClosingInv /\ [Next]_vars => ClosingInv'
  BY ClosingNext
<1>3. ClosingInv => ChartClosed
  BY ChartIsClosed
<1> QED  BY <1>1, <1>2, <1>3, PTL DEF Spec

-----------------------------------------------------------------------------
(* No sentence is rejected that has an analysis.                           *)

\* The preference under which nothing is missed: no anchor may be empty.
Plain(h) == ~h.pref.epsTrees

\* The tree with the root r is on the list for its label.
Listed(r) ==
  LET trees == IF hand.foot[r] = 0 THEN hand.inits[hand.label[r]] ELSE hand.auxs[hand.label[r]]
  IN \E k \in DOMAIN trees : trees[k] = r

\* No word is adjoined over the empty one (allow_eps_adjoin would permit it).
Untraced(f) == hand.pref.epsAdjoin /\ hand.kind[hand.head[f.n]] = "eps" => f.i = f.j

\* The wrapping preferences let the tree x be adjoined at y: not one of the other
\* side's trees, and with words on its own side only.
Unbarred(x, y) ==
  /\ ~WrapBarred(x.n, y.n)
  /\ hand.pref.noLeftWrap /\ x.n \in hand.leftaux => x.j = y.j
  /\ hand.pref.noRightWrap /\ x.n \in hand.rightaux => x.i = y.i

\* The fact f follows from those of F.
Follows(f, F) ==
  \/ f \in D!Axioms(hand)
  \/ \E x \in F : f \in D!FromOne(hand, x)
  \/ \E x, y \in F : \/ f \in D!Binary(hand, x, y)
                     \/ f \in D!Adjunction(hand, x, y) /\ Unbarred(x, y)

\* The facts d[1] .. d[m] are derived one after another, from listed trees, with
\* adjunctions that the preferences permit and no words over empty ones.
Derivation(d, m) ==
  \A k \in 1 .. m :
    /\ Follows(d[k], {d[l] : l \in 1 .. k - 1}) /\ Untraced(d[k])
    /\ hand.up[d[k].n] = 0 => Listed(d[k].n)

LEMMA FollowsDerivable ==
  ASSUME NEW f, NEW F, Follows(f, F)
  PROVE  D!Derivable(hand, f, F)
BY DEF Follows, D!Derivable, D!FromTwo

IsFact(f) == f = Content(f)

\* What a derived fact looks like.
Regular(f) ==
  /\ IsFact(f) /\ f.n \in hand.nodes /\ f.pos \in {"top", "bot"}
  /\ f.i \in 0 .. hand.last /\ f.j \in 0 .. hand.last /\ f.i <= f.j
  /\ IF Footed(hand, f.n)
     THEN f.fl \in Nat /\ f.fr \in Nat /\ f.i <= f.fl /\ f.fl <= f.fr /\ f.fr <= f.j
     ELSE f.fl = ef /\ f.fr = ef
  /\ hand.kind[hand.head[f.n]] = "eps"
       => f.i = f.j /\ (hand.pref.epsAdjoin \/ (f.pos = "top" /\ D!EmptyAt(hand, f.n)))
  /\ hand.kind[hand.head[f.n]] = "subst" => f.i < f.j
  /\ hand.kind[f.n] = "subst" => f.pos = "top"

\* The rules, for the facts of items.
LEMMA NullIs ==
  ASSUME NEW x
  PROVE  D!NullAdjunction(hand, Content(x)) =
           IF x.pos = "bot" THEN {D!Fact(x.n, "top", x.i, x.j, x.fl, x.fr, x.w)} ELSE {}
BY DEF Content, D!Fact, D!NullAdjunction

LEMMA UnaryIs ==
  ASSUME NEW x
  PROVE  D!Unary(hand, Content(x)) =
           IF x.pos = "top" /\ hand.up[x.n] # 0 /\ hand.side[x.n] = "only"
           THEN {D!Fact(hand.up[x.n], "bot", x.i, x.j, x.fl, x.fr, x.w)} ELSE {}
<1>1. PICK u : u = Content(x)
  OBVIOUS
<1>2. u.n = x.n /\ u.pos = x.pos
  BY <1>1 DEF Content
<1>3. PICK n : n = hand.up[x.n]
  OBVIOUS
<1>4. [u EXCEPT !.n = n, !.pos = "bot"] = D!Fact(n, "bot", x.i, x.j, x.fl, x.fr, x.w)
  <2>1. [u EXCEPT !.n = n] = D!Fact(n, x.pos, x.i, x.j, x.fl, x.fr, x.w)
    BY <1>1 DEF Content, D!Fact
  <2>2. [D!Fact(n, x.pos, x.i, x.j, x.fl, x.fr, x.w) EXCEPT !.pos = "bot"]
          = D!Fact(n, "bot", x.i, x.j, x.fl, x.fr, x.w)
    BY DEF D!Fact
  <2>3. [u EXCEPT !.n = n, !.pos = "bot"] = [[u EXCEPT !.n = n] EXCEPT !.pos = "bot"]
    OBVIOUS
  <2> QED  BY <2>1, <2>2, <2>3
<1>5. D!Unary(hand, u) =
        IF u.pos = "top" /\ n # 0 /\ hand.side[u.n] = "only"
        THEN {[u EXCEPT !.n = n, !.pos = "bot"]} ELSE {}
  BY <1>2, <1>3 DEF D!Unary, D!IsRoot
<1> QED  BY <1>1, <1>2, <1>3, <1>4, <1>5

LEMMA AdjoinIs ==
  ASSUME NEW x, NEW y
  PROVE  D!Adjunction(hand, Content(x), Content(y)) =
           IF /\ hand.up[x.n] = 0 /\ hand.foot[x.n] # 0 /\ x.pos = "top"
              /\ y.pos = "bot" /\ D!MayAdjoinAt(hand, y.n) /\ hand.label[y.n] = hand.label[x.n]
              /\ x.fl = y.i /\ x.fr = y.j /\ <<x.i, x.j>> # <<y.i, y.j>>
           THEN {D!Fact(y.n, AdjoinedPos, x.i, x.j, y.fl, y.fr, y.w)} ELSE {}
<1>1. PICK u : u = Content(x)
  OBVIOUS
<1>2. PICK v : v = Content(y)
  OBVIOUS
<1>3. /\ u.n = x.n /\ u.pos = x.pos /\ u.i = x.i /\ u.j = x.j /\ u.fl = x.fl /\ u.fr = x.fr
      /\ v.n = y.n /\ v.pos = y.pos /\ v.i = y.i /\ v.j = y.j
  BY <1>1, <1>2 DEF Content
<1>4. [v EXCEPT !.i = x.i, !.j = x.j, !.pos = AdjoinedPos]
        = D!Fact(y.n, AdjoinedPos, x.i, x.j, y.fl, y.fr, y.w)
  <2>1. [v EXCEPT !.i = x.i] = D!Fact(y.n, y.pos, x.i, y.j, y.fl, y.fr, y.w)
    BY <1>2 DEF Content, D!Fact
  <2>2. [D!Fact(y.n, y.pos, x.i, y.j, y.fl, y.fr, y.w) EXCEPT !.j = x.j]
          = D!Fact(y.n, y.pos, x.i, x.j, y.fl, y.fr, y.w)
    BY DEF D!Fact
  <2>3. [D!Fact(y.n, y.pos, x.i, x.j, y.fl, y.fr, y.w) EXCEPT !.pos = AdjoinedPos]
          = D!Fact(y.n, AdjoinedPos, x.i, x.j, y.fl, y.fr, y.w)
    BY DEF D!Fact
  <2>4. [v EXCEPT !.i = x.i, !.j = x.j, !.pos = AdjoinedPos]
          = [[[v EXCEPT !.i = x.i] EXCEPT !.j = x.j] EXCEPT !.pos = AdjoinedPos]
    OBVIOUS
  <2> QED  BY <2>1, <2>2, <2>3, <2>4
<1>5. D!Adjunction(hand, u, v) =
        IF /\ hand.up[u.n] = 0 /\ hand.foot[u.n] # 0 /\ u.pos = "top"
           /\ v.pos = "bot" /\ D!MayAdjoinAt(hand, v.n) /\ hand.label[v.n] = hand.label[u.n]
           /\ u.fl = v.i /\ u.fr = v.j /\ <<u.i, u.j>> # <<v.i, v.j>>
        THEN {[v EXCEPT !.i = x.i, !.j = x.j, !.pos = AdjoinedPos]} ELSE {}
  BY <1>3 DEF D!Adjunction, D!IsRoot, AdjoinedPos
<1>6. D!Adjunction(hand, u, v) =
        IF /\ hand.up[u.n] = 0 /\ hand.foot[u.n] # 0 /\ u.pos = "top"
           /\ v.pos = "bot" /\ D!MayAdjoinAt(hand, v.n) /\ hand.label[v.n] = hand.label[u.n]
           /\ u.fl = v.i /\ u.fr = v.j /\ <<u.i, u.j>> # <<v.i, v.j>>
        THEN {D!Fact(y.n, AdjoinedPos, x.i, x.j, y.fl, y.fr, y.w)} ELSE {}
  BY <1>4, <1>5
<1> QED  BY <1>1, <1>2, <1>3, <1>6

\* The fields of a fact.
LEMMA FactFields ==
  ASSUME NEW n, NEW pos, NEW i, NEW j, NEW fl, NEW fr, NEW w,
         NEW f, f = D!Fact(n, pos, i, j, fl, fr, w)
  PROVE  /\ IsFact(f) /\ f.n = n /\ f.pos = pos /\ f.i = i /\ f.j = j /\ f.fl = fl /\ f.fr = fr
         /\ f.w = w
BY DEF IsFact, Content, D!Fact

\* Axioms are regular.
LEMMA AxiomRegular ==
  ASSUME hand \in Hands, Plain(hand), NEW f \in D!Axioms(hand)
  PROVE  Regular(f)
<1>1. TablesOK(hand) /\ hand.last \in Nat
  BY HandOK
<1>2. CASE \E x \in hand.lexed :
             f = D!Fact(x[2], "bot", x[1], x[1] + 1, D!noFoot, D!noFoot, <<x[1]>>)
  <2>1. PICK x \in hand.lexed :
             f = D!Fact(x[2], "bot", x[1], x[1] + 1, D!noFoot, D!noFoot, <<x[1]>>)
    BY <1>2
  <2>2. /\ x[1] \in 0 .. hand.last - 1 /\ x[2] \in hand.nodes
        /\ hand.kind[x[2]] \in {"anchor", "terminal"}
    BY <1>1 DEF TablesOK
  <2>3. /\ IsFact(f) /\ f.n = x[2] /\ f.pos = "bot" /\ f.i = x[1] /\ f.j = x[1] + 1
        /\ f.fl = ef /\ f.fr = ef
    BY <2>1, FactFields DEF D!noFoot, ef
  <2>4. hand.head[f.n] = f.n
    BY <2>2, <2>3, NodeFacts
  <2> QED  BY <1>1, <2>2, <2>3, <2>4 DEF Regular, Footed
<1>3. CASE \E n \in {m \in hand.nodes : D!EmptyAt(hand, m)} : \E i \in D!Places(hand) :
             f = D!Fact(n, "top", i, i, D!noFoot, D!noFoot, <<>>)
  <2>1. PICK n \in hand.nodes, i \in 0 .. hand.last :
          D!EmptyAt(hand, n) /\ f = D!Fact(n, "top", i, i, D!noFoot, D!noFoot, <<>>)
    BY <1>3 DEF D!Places
  <2>2. IsFact(f) /\ f.n = n /\ f.pos = "top" /\ f.i = i /\ f.j = i /\ f.fl = ef /\ f.fr = ef
    BY <2>1, FactFields DEF D!noFoot, ef
  <2>3. hand.kind[hand.head[n]] = "eps"
    <3>1. CASE ~ hand.pref.epsAdjoin
      <4>1. D!AllEps(hand, n)
        BY <2>1, <3>1 DEF D!EmptyAt, Plain
      <4> QED  BY <4>1, EpsilonAssumption
    <3>2. CASE hand.pref.epsAdjoin
      <4>1. hand.kind[n] = "eps"
        BY <2>1, <3>2 DEF D!EmptyAt, Plain
      <4> QED  BY <4>1, NodeFacts
    <3> QED  BY <3>1, <3>2
  <2>4. hand.kind[n] # "subst"
    BY <2>3, NodeFacts
  <2> QED  BY <1>1, <2>1, <2>2, <2>3, <2>4 DEF Regular, Footed
<1>4. CASE \E n \in {m \in hand.nodes : hand.kind[m] = "foot"} :
             \E v \in {u \in D!Places(hand) \X D!Places(hand) : u[1] <= u[2]} :
               f = D!Fact(n, "bot", v[1], v[2], v[1], v[2], <<>>)
  <2>1. PICK n \in hand.nodes : hand.kind[n] = "foot" /\
             \E v \in {u \in D!Places(hand) \X D!Places(hand) : u[1] <= u[2]} :
               f = D!Fact(n, "bot", v[1], v[2], v[1], v[2], <<>>)
    BY <1>4
  <2>2. PICK v \in D!Places(hand) \X D!Places(hand) :
               v[1] <= v[2] /\ f = D!Fact(n, "bot", v[1], v[2], v[1], v[2], <<>>)
    BY <2>1
  <2>3. v[1] \in 0 .. hand.last /\ v[2] \in 0 .. hand.last
    BY <2>2 DEF D!Places
  <2>4. /\ IsFact(f) /\ f.n = n /\ f.pos = "bot" /\ f.i = v[1] /\ f.j = v[2]
        /\ f.fl = v[1] /\ f.fr = v[2]
    BY <2>2, FactFields
  <2>5. hand.head[n] = n
    BY <2>1, NodeFacts
  <2> QED  BY <1>1, <2>1, <2>2, <2>3, <2>4, <2>5 DEF Regular, Footed
<1> QED  BY <1>2, <1>3, <1>4 DEF D!Axioms

\* A node below another with the same headcorner has an empty one, when it is
\* concluded of, only with allow_eps_adjoin.
LEMMA NotTraced ==
  ASSUME hand \in Hands, Plain(hand), NEW x, Regular(x), hand.up[x.n] # 0,
         hand.head[hand.up[x.n]] = hand.head[x.n]
  PROVE  hand.pref.epsAdjoin \/ hand.kind[hand.head[x.n]] # "eps"
<1> SUFFICES ASSUME hand.kind[hand.head[x.n]] = "eps", ~ hand.pref.epsAdjoin
             PROVE  FALSE
  OBVIOUS
<1>1. x.n \in hand.nodes /\ hand.up[x.n] \in hand.nodes
  BY NodeFacts DEF Regular
<1>2. ~ D!AllEps(hand, hand.up[x.n])
  BY DEF Regular, D!EmptyAt, Plain
<1> QED  BY <1>1, <1>2, EpsilonAssumption

\* What is next to a node, and above it.
LEMMA NextTo ==
  ASSUME hand \in Hands, NEW n \in hand.nodes, hand.side[n] # "only",
         NEW m, m = hand.sibling[n], NEW u, u = hand.up[n]
  PROVE  /\ m \in hand.nodes /\ u \in hand.nodes /\ u # 0 /\ hand.kind[u] = "internal"
         /\ hand.up[m] = u /\ hand.sibling[m] = n /\ hand.side[m] # "only"
         /\ hand.head[u] \in {hand.head[n], hand.head[m]}
         /\ hand.head[u] = hand.head[n] => SpineTop(hand, m) /\ ~ Footed(hand, m)
         /\ hand.head[u] = hand.head[m] => SpineTop(hand, n) /\ ~ Footed(hand, n)
<1>1. /\ m \in hand.nodes /\ hand.sibling[m] = n /\ hand.up[m] = u /\ hand.side[m] # "only"
  BY NodeFacts, SiblingFacts
<1>2. u # 0 /\ u \in hand.nodes /\ hand.kind[u] = "internal"
  BY NodeFacts
<1>3. hand.head[n] # hand.head[m] /\ hand.head[u] \in {hand.head[n], hand.head[m]}
  BY <1>2, HandOK DEF HeadsOK
<1>4. /\ hand.head[u] = hand.head[n] => SpineTop(hand, m)
      /\ hand.head[u] = hand.head[m] => SpineTop(hand, n)
  BY <1>1, <1>3 DEF SpineTop
<1>5. /\ SpineTop(hand, m) => ~ Footed(hand, m)
      /\ SpineTop(hand, n) => ~ Footed(hand, n)
  BY <1>1, <1>2, NodeFacts DEF Footed
<1> QED  BY <1>1, <1>2, <1>3, <1>4, <1>5

\* Regular facts have regular conclusions.
LEMMA NullRegular ==
  ASSUME hand \in Hands, Plain(hand), NEW x, Regular(x), NEW f \in D!NullAdjunction(hand, x)
  PROVE  Regular(f)
<1>1. x = Content(x)
  BY DEF Regular, IsFact
<1>2. x.pos = "bot" /\ f = D!Fact(x.n, "top", x.i, x.j, x.fl, x.fr, x.w)
  BY <1>1, NullIs
<1>3. /\ IsFact(f) /\ f.n = x.n /\ f.pos = "top" /\ f.i = x.i /\ f.j = x.j
      /\ f.fl = x.fl /\ f.fr = x.fr
  BY <1>2, FactFields
<1> QED  BY <1>2, <1>3 DEF Regular

LEMMA UnaryRegular ==
  ASSUME hand \in Hands, Plain(hand), NEW x, Regular(x), NEW f \in D!Unary(hand, x)
  PROVE  Regular(f)
<1>1. x = Content(x)
  BY DEF Regular, IsFact
<1>2. /\ x.pos = "top" /\ hand.up[x.n] # 0 /\ hand.side[x.n] = "only"
      /\ f = D!Fact(hand.up[x.n], "bot", x.i, x.j, x.fl, x.fr, x.w)
  BY <1>1, UnaryIs
<1>3. /\ IsFact(f) /\ f.n = hand.up[x.n] /\ f.pos = "bot" /\ f.i = x.i /\ f.j = x.j
      /\ f.fl = x.fl /\ f.fr = x.fr
  BY <1>2, FactFields
<1>4. /\ f.n \in hand.nodes /\ hand.kind[f.n] = "internal" /\ hand.head[f.n] = hand.head[x.n]
  BY SMTT(30), <1>2, <1>3, NodeFacts DEF Regular
<1>5. hand.pref.epsAdjoin \/ hand.kind[hand.head[x.n]] # "eps"
  BY <1>2, <1>3, <1>4, NotTraced
<1> QED  BY <1>3, <1>4, <1>5 DEF Regular, Footed

LEMMA SubstIs ==
  ASSUME NEW x
  PROVE  D!Substitution(hand, Content(x)) =
           IF /\ hand.up[x.n] = 0 /\ hand.foot[x.n] = 0 /\ x.pos = "top"
              /\ x.i < x.j \/ hand.pref.epsTrees
           THEN {D!Fact(n, "top", x.i, x.j, ef, ef, <<>>) :
                   n \in {m \in hand.nodes :
                            hand.kind[m] = "subst" /\ hand.label[m] = hand.label[x.n]}}
           ELSE {}
<1>1. PICK u : u = Content(x)
  OBVIOUS
<1>2. u.n = x.n /\ u.pos = x.pos /\ u.i = x.i /\ u.j = x.j
  BY <1>1 DEF Content
<1> QED  BY <1>1, <1>2 DEF D!Substitution, D!IsRoot, D!noFoot, ef

LEMMA SubstRegular ==
  ASSUME hand \in Hands, Plain(hand), NEW x, Regular(x), NEW f \in D!Substitution(hand, x)
  PROVE  Regular(f)
<1>1. x = Content(x)
  BY DEF Regular, IsFact
<1>2. /\ x.i < x.j
      /\ \E n \in hand.nodes : hand.kind[n] = "subst"
                               /\ f = D!Fact(n, "top", x.i, x.j, ef, ef, <<>>)
  BY <1>1, SubstIs DEF Plain
<1>3. PICK n \in hand.nodes : /\ hand.kind[n] = "subst"
                              /\ f = D!Fact(n, "top", x.i, x.j, ef, ef, <<>>)
  BY <1>2
<1>4. /\ IsFact(f) /\ f.n = n /\ f.pos = "top" /\ f.i = x.i /\ f.j = x.j
      /\ f.fl = ef /\ f.fr = ef
  BY <1>3, FactFields
<1>5. hand.head[n] = n
  BY <1>3, NodeFacts
<1> QED  BY <1>2, <1>3, <1>4, <1>5 DEF Regular, Footed

LEMMA BinIs ==
  ASSUME NEW x, NEW y
  PROVE  D!Binary(hand, Content(x), Content(y)) =
           IF /\ x.pos = "top" /\ y.pos = "top" /\ x.j = y.i
              /\ hand.side[x.n] = "left" /\ hand.sibling[x.n] = y.n
           THEN {D!Fact(hand.up[x.n], "bot", x.i, y.j, IF x.fl # ef THEN x.fl ELSE y.fl,
                        IF x.fr # ef THEN x.fr ELSE y.fr, x.w \o y.w)}
           ELSE {}
<1>1. PICK u : u = Content(x)
  OBVIOUS
<1>2. PICK v : v = Content(y)
  OBVIOUS
<1>3. /\ u.n = x.n /\ u.pos = x.pos /\ u.i = x.i /\ u.j = x.j /\ u.fl = x.fl /\ u.fr = x.fr
      /\ u.w = x.w
      /\ v.n = y.n /\ v.pos = y.pos /\ v.i = y.i /\ v.j = y.j /\ v.fl = y.fl /\ v.fr = y.fr
      /\ v.w = y.w
  BY <1>1, <1>2 DEF Content
<1> QED  BY <1>1, <1>2, <1>3 DEF D!Binary, D!noFoot, ef

LEMMA BinaryRegular ==
  ASSUME hand \in Hands, Plain(hand), NEW x, Regular(x), NEW y, Regular(y),
         NEW f \in D!Binary(hand, x, y), Untraced(f)
  PROVE  Regular(f)
<1>1. x = Content(x) /\ y = Content(y)
  BY DEF Regular, IsFact
<1>2. /\ x.pos = "top" /\ y.pos = "top" /\ x.j = y.i
      /\ hand.side[x.n] = "left" /\ hand.sibling[x.n] = y.n
      /\ f = D!Fact(hand.up[x.n], "bot", x.i, y.j, IF x.fl # ef THEN x.fl ELSE y.fl,
                    IF x.fr # ef THEN x.fr ELSE y.fr, x.w \o y.w)
  BY <1>1, BinIs
<1>3. /\ IsFact(f) /\ f.n = hand.up[x.n] /\ f.pos = "bot" /\ f.i = x.i /\ f.j = y.j
      /\ f.fl = (IF x.fl # ef THEN x.fl ELSE y.fl) /\ f.fr = (IF x.fr # ef THEN x.fr ELSE y.fr)
  BY <1>2, FactFields
<1>4. PICK u : u = hand.up[x.n]
  OBVIOUS
<1>5. /\ u \in hand.nodes /\ u # 0 /\ hand.kind[u] = "internal" /\ hand.up[y.n] = u
      /\ hand.head[u] \in {hand.head[x.n], hand.head[y.n]}
      /\ hand.head[u] = hand.head[x.n] => ~ Footed(hand, y.n)
      /\ hand.head[u] = hand.head[y.n] => ~ Footed(hand, x.n)
  <2>1. x.n \in hand.nodes /\ hand.side[x.n] # "only" /\ y.n = hand.sibling[x.n]
    BY <1>2 DEF Regular
  <2> QED  BY <1>4, <2>1, NextTo
<1>6. hand.kind[hand.head[u]] = "eps" => hand.pref.epsAdjoin /\ f.i = f.j
  <2>1. hand.pref.epsAdjoin \/ hand.kind[hand.head[u]] # "eps"
    BY <1>4, <1>5, NotTraced
  <2> QED  BY <1>3, <1>4, <2>1 DEF Untraced
<1>7. /\ f.i \in 0 .. hand.last /\ f.j \in 0 .. hand.last /\ f.i <= f.j
      /\ hand.kind[hand.head[u]] = "subst" => f.i < f.j
  BY <1>2, <1>3, <1>5, HandOK DEF Regular
<1>8. IF Footed(hand, u)
      THEN f.fl \in Nat /\ f.fr \in Nat /\ f.i <= f.fl /\ f.fl <= f.fr /\ f.fr <= f.j
      ELSE f.fl = ef /\ f.fr = ef
  <2>1. CASE hand.head[u] = hand.head[x.n]
    <3>1. /\ y.fl = ef /\ y.fr = ef /\ (Footed(hand, u) <=> Footed(hand, x.n))
      BY <1>5, <2>1 DEF Regular, Footed
    <3>2. CASE Footed(hand, x.n)
      <4>1. /\ x.fl \in Nat /\ x.fr \in Nat /\ x.i <= x.fl /\ x.fl <= x.fr /\ x.fr <= x.j
        BY <3>2 DEF Regular
      <4>2. f.fl = x.fl /\ f.fr = x.fr
        BY <1>3, <4>1 DEF ef
      <4>3. x.j \in Int /\ y.j \in Int /\ x.j <= y.j
        BY <1>2, HandOK DEF Regular
      <4> QED  BY <1>3, <3>1, <3>2, <4>1, <4>2, <4>3
    <3>3. CASE ~ Footed(hand, x.n)
      BY <1>3, <3>1, <3>3 DEF Regular
    <3> QED  BY <3>2, <3>3
  <2>2. CASE hand.head[u] = hand.head[y.n]
    <3>1. /\ x.fl = ef /\ x.fr = ef /\ (Footed(hand, u) <=> Footed(hand, y.n))
      BY <1>5, <2>2 DEF Regular, Footed
    <3>2. CASE Footed(hand, y.n)
      <4>1. /\ y.fl \in Nat /\ y.fr \in Nat /\ y.i <= y.fl /\ y.fl <= y.fr /\ y.fr <= y.j
        BY <3>2 DEF Regular
      <4>2. f.fl = y.fl /\ f.fr = y.fr
        BY <1>3, <3>1
      <4>3. x.i \in Int /\ y.i \in Int /\ x.i <= y.i
        BY <1>2, HandOK DEF Regular
      <4> QED  BY <1>3, <3>1, <3>2, <4>1, <4>2, <4>3
    <3>3. CASE ~ Footed(hand, y.n)
      BY <1>3, <3>1, <3>3 DEF Regular
    <3> QED  BY <3>2, <3>3
  <2> QED  BY <1>5, <2>1, <2>2
<1> QED  BY <1>3, <1>4, <1>5, <1>6, <1>7, <1>8 DEF Regular

LEMMA AdjunctionRegular ==
  ASSUME hand \in Hands, Plain(hand), NEW x, Regular(x), NEW y, Regular(y),
         NEW f \in D!Adjunction(hand, x, y), Untraced(f)
  PROVE  Regular(f) /\ Footed(hand, x.n) /\ hand.kind[hand.head[y.n]] # "eps"
<1>1. x = Content(x) /\ y = Content(y)
  BY DEF Regular, IsFact
<1>2. /\ hand.up[x.n] = 0 /\ hand.foot[x.n] # 0 /\ y.pos = "bot" /\ D!MayAdjoinAt(hand, y.n)
      /\ x.fl = y.i /\ x.fr = y.j /\ <<x.i, x.j>> # <<y.i, y.j>>
      /\ f = D!Fact(y.n, AdjoinedPos, x.i, x.j, y.fl, y.fr, y.w)
  BY <1>1, AdjoinIs
<1>3. /\ IsFact(f) /\ f.n = y.n /\ f.pos = AdjoinedPos /\ f.i = x.i /\ f.j = x.j
      /\ f.fl = y.fl /\ f.fr = y.fr
  BY <1>2, FactFields
<1>4. Footed(hand, x.n)
  BY <1>2, NodeFacts DEF Regular, Footed
<1>5. /\ x.i <= y.i /\ y.j <= x.j /\ x.i \in 0 .. hand.last /\ x.j \in 0 .. hand.last
      /\ y.i \in 0 .. hand.last /\ y.j \in 0 .. hand.last /\ y.i <= y.j
      /\ x.i <= x.j
  BY <1>2, <1>4 DEF Regular
<1>6. hand.kind[hand.head[y.n]] # "eps"
  <2>1. CASE ~ hand.pref.epsAdjoin
    BY <1>2, <2>1 DEF D!MayAdjoinAt, D!EpsLeaf, Plain
  <2>2. f.i # f.j
    BY <1>2, <1>3, <1>5, HandOK
  <2> QED  BY <1>3, <2>1, <2>2 DEF Untraced
<1>7. /\ IF Footed(hand, y.n)
         THEN f.fl \in Nat /\ f.fr \in Nat /\ f.i <= f.fl /\ f.fl <= f.fr /\ f.fr <= f.j
         ELSE f.fl = ef /\ f.fr = ef
      /\ hand.kind[hand.head[y.n]] = "subst" => f.i < f.j
  BY <1>3, <1>5, HandOK DEF Regular
<1>8. hand.kind[y.n] # "subst" /\ y.n \in hand.nodes /\ AdjoinedPos \in {"top", "bot"}
  BY <1>2 DEF Regular, AdjoinedPos
<1> QED  BY <1>3, <1>4, <1>5, <1>6, <1>7, <1>8 DEF Regular

\* A set of natural numbers has a least one.
Descending == {p \in Nat \X Nat : p[1] < p[2]}

LEMMA LeastOne ==
  ASSUME NEW S, S \subseteq Nat, S # {}
  PROVE  \E k \in S : \A l \in S : k <= l
<1>1. IsWellFoundedOn(Descending, Nat)
  BY NatLessThanWellFounded DEF OpToRel, Descending
<1>2. PICK k \in S : \A l \in S : <<l, k>> \notin Descending
  BY <1>1, WFMin
<1>3. ASSUME NEW l \in S
      PROVE  k <= l
  <2>1. k \in Nat /\ l \in Nat /\ <<l, k>> \in Nat \X Nat /\ <<l, k>> \notin Descending
    BY <1>2, <1>3
  <2>2. ~(l < k)
    BY <2>1 DEF Descending
  <2> QED  BY <2>1, <2>2
<1> QED  BY <1>3

\* What is derived is regular.
LEMMA StepRegular ==
  ASSUME hand \in Hands, Plain(hand), NEW F, \A x \in F : Regular(x),
         NEW f, D!Derivable(hand, f, F), Untraced(f)
  PROVE  Regular(f)
<1>1. CASE f \in D!Axioms(hand)
  BY <1>1, AxiomRegular
<1>2. ASSUME NEW x \in F, f \in D!FromOne(hand, x)
      PROVE  Regular(f)
  BY <1>2, NullRegular, UnaryRegular, SubstRegular DEF D!FromOne
<1>3. ASSUME NEW x \in F, NEW y \in F, f \in D!FromTwo(hand, x, y)
      PROVE  Regular(f)
  BY <1>3, BinaryRegular, AdjunctionRegular DEF D!FromTwo
<1> QED  BY <1>1, <1>2, <1>3 DEF D!Derivable

LEMMA DerivationRegular ==
  ASSUME hand \in Hands, Plain(hand), NEW m \in Nat, NEW d, Derivation(d, m)
  PROVE  \A k \in 1 .. m : Regular(d[k])
<1> DEFINE Bad == {k \in 1 .. m : ~ Regular(d[k])}
<1> SUFFICES ASSUME Bad # {} PROVE FALSE
  OBVIOUS
<1>1. PICK k \in Bad : \A l \in Bad : k <= l
  <2>1. Bad \subseteq Nat
    OBVIOUS
  <2> HIDE DEF Bad
  <2> QED  BY <2>1, LeastOne
<1>2. k \in 1 .. m /\ ~ Regular(d[k]) /\ \A l \in 1 .. k - 1 : Regular(d[l])
  BY <1>1
<1>3. D!Derivable(hand, d[k], {d[l] : l \in 1 .. k - 1}) /\ Untraced(d[k])
  BY <1>2, FollowsDerivable DEF Derivation
<1>4. PICK F : F = {d[l] : l \in 1 .. k - 1}
  OBVIOUS
<1>5. \A x \in F : Regular(x)
  BY <1>2, <1>4
<1>6. Regular(d[k])
  BY <1>3, <1>4, <1>5, StepRegular
<1> QED  BY <1>2, <1>6

-----------------------------------------------------------------------------
(* Whatever is derived is found where it is wanted.                        *)

\* The prediction e asks for the fact f or for what has f as its headcorner's
\* part.
WantedBy(f, e) ==
  LET s == states[e]
  IN /\ hand.head[s.n] = hand.head[f.n] /\ s.i <= f.i /\ f.j <= s.j
     /\ Footed(hand, f.n) => f.fl = s.fl /\ f.fr = s.fr
     /\ hand.kind[hand.head[f.n]] = "eps" \/ (f.n = s.n /\ hand.kind[f.n] = "subst")
          => s.i = f.i /\ s.j = f.j

FoundWhereWanted(f) == \A e \in Predictions : WantedBy(f, e) => FoundFor(f, e)

\* A fact of the derivation, to which the lemmas have been applied.
Known(f) ==
  Regular(f) /\ FoundWhereWanted(f) /\ (hand.up[f.n] = 0 => Listed(f.n))

LEMMA PredictionFacts ==
  ASSUME Over0, NEW e \in Predictions, NEW s, s = states[e]
  PROVE  /\ e \in Ids /\ s.n \in hand.nodes /\ SpineTop(hand, s.n)
         /\ s.i \in Int /\ s.j \in Int /\ hand \in Hands /\ AllInv
<1>1. AllInv /\ hand \in Hands
  BY AllIsDone
<1>2. e \in Ids /\ s.type # "item" /\ s.g \in {0, e}
  BY DEF Predictions, ItemIds
<1>3. Sound(hand, states, s) /\ s.n \in hand.nodes /\ e # 0
  BY <1>1, <1>2, StatesOK, TypesAre DEF AllInv, DeductionInv
<1>4. SpineTop(hand, s.n)
  BY <1>2, <1>3 DEF Sound, Pursues, Aims
<1> QED  BY <1>1, <1>2, <1>3, <1>4, SpansAre

\* What is found for a goal is found for every narrower one.
LEMMA FoundForWider ==
  ASSUME Over0, NEW f, NEW p \in Working, NEW e \in Predictions,
         FoundFor(f, states[p].g), AsWide(states, states[p].g, e)
  PROVE  FoundFor(f, e)
<1>1. AllInv
  BY AllIsDone
<1>2. PICK x \in Working : Like(states[x], f) /\ AsWide(states, states[x].g, states[p].g)
  BY DEF FoundFor
<1>3. PICK a, b : a = states[x].g /\ b = states[p].g
  OBVIOUS
<1>4. a \in Ids /\ b \in Ids /\ e \in Ids
  BY <1>1, <1>3, WorkingFacts DEF Predictions
<1>5. \A y \in {a, b, e} : states[y].i \in Int /\ states[y].j \in Int
  BY <1>1, <1>4, SpansAre
<1>6. AsWide(states, a, b) /\ AsWide(states, b, e)
  BY <1>2, <1>3
<1>7. AsWide(states, a, e)
  BY <1>5, <1>6, AsWideTrans
<1> QED  BY <1>2, <1>3, <1>7 DEF FoundFor

\* A finished subtree that is sought is found.
LEMMA SoughtIsFound ==
  ASSUME Over0, NEW x, Regular(x), FoundWhereWanted(x), x.pos = "top",
         Sought(x.n, x.i, x.j, x.fl, x.fr)
  PROVE  \E q \in Working : Like(states[q], x)
<1>1. PICK d \in Predictions \cup Working :
          Like(states[d], D!Fact(x.n, "top", x.i, x.j, x.fl, x.fr, <<>>))
  BY DEF Sought
<1>2. /\ states[d].n = x.n /\ states[d].i = x.i /\ states[d].j = x.j
      /\ states[d].fl = x.fl /\ states[d].fr = x.fr /\ Like(states[d], x)
  BY <1>1 DEF Like, D!Fact
<1>3. CASE d \in Predictions
  <2>1. x.i \in Int /\ x.j \in Int
    BY AllIsDone, HandOK DEF Regular
  <2>2. WantedBy(x, d)
    BY <1>2, <2>1 DEF WantedBy
  <2>3. FoundFor(x, d)
    BY <1>3, <2>2 DEF FoundWhereWanted
  <2> QED  BY <2>3 DEF FoundFor
<1> QED  BY <1>1, <1>2, <1>3

\* The leaves.
LEMMA AxiomWanted ==
  ASSUME Over0, Plain(hand), NEW f \in D!Axioms(hand), NEW e \in Predictions, WantedBy(f, e)
  PROVE  FoundFor(f, e)
<1>1. PICK s : s = states[e]
  OBVIOUS
<1>2. /\ e \in Ids /\ s.n \in hand.nodes /\ SpineTop(hand, s.n) /\ hand \in Hands
      /\ s.i \in Int /\ s.j \in Int
  BY <1>1, PredictionFacts
<1>3. /\ hand.head[s.n] = hand.head[f.n] /\ s.i <= f.i /\ f.j <= s.j
      /\ Footed(hand, f.n) => f.fl = s.fl /\ f.fr = s.fr
      /\ hand.kind[hand.head[f.n]] = "eps" => s.i = f.i /\ s.j = f.j
  BY <1>1 DEF WantedBy
<1>4. f.n \in hand.nodes
  BY <1>2, AxiomsAre
<1>5. CASE hand.kind[f.n] \in {"anchor", "terminal"} /\ f.pos = "bot" /\ f.fl = ef /\ f.fr = ef
  <2>1. hand.head[f.n] = f.n
    BY <1>2, <1>4, <1>5, NodeFacts
  <2>2. f.n = Start(s.n)
    BY <1>3, <1>5, <2>1 DEF Start
  <2> QED  BY <1>1, <1>3, <1>5, <2>2, LeavesAreFound DEF LeavesFound, Leaf, Plain
<1>6. CASE D!EmptyAt(hand, f.n) /\ f.pos = "top" /\ f.i = f.j /\ f.fl = ef /\ f.fr = ef
  <2>1. hand.kind[hand.head[f.n]] = "eps" /\ f.n = Start(s.n)
    <3>1. CASE hand.pref.epsAdjoin
      <4>1. hand.kind[f.n] = "eps"
        BY <1>6, <3>1 DEF D!EmptyAt, Plain
      <4>2. hand.head[f.n] = f.n
        BY <1>2, <1>4, <4>1, NodeFacts
      <4> QED  BY <1>3, <3>1, <4>1, <4>2 DEF Start
    <3>2. CASE ~ hand.pref.epsAdjoin
      <4>1. D!AllEps(hand, f.n) /\ (hand.up[f.n] = 0 \/ ~ D!AllEps(hand, hand.up[f.n]))
        BY <1>6, <3>2 DEF D!EmptyAt, Plain
      <4>2. hand.kind[hand.head[f.n]] = "eps"
        BY <1>2, <1>4, <4>1, EpsilonAssumption
      <4>3. SpineTop(hand, f.n)
        <5>1. ASSUME hand.up[f.n] # 0
              PROVE  hand.head[hand.up[f.n]] # hand.head[f.n]
          <6>1. hand.up[f.n] \in hand.nodes
            BY <1>2, <1>4, <5>1, NodeFacts
          <6>2. hand.kind[hand.head[hand.up[f.n]]] # "eps"
            BY <1>2, <4>1, <5>1, <6>1, EpsilonAssumption
          <6> QED  BY <4>2, <6>2
        <5> QED  BY <5>1 DEF SpineTop
      <4>4. f.n = s.n
        BY <1>2, <1>3, <1>4, <4>3, HandOK DEF HeadsOK
      <4> QED  BY <3>2, <4>2, <4>4 DEF Start
    <3> QED  BY <3>1, <3>2
  <2> QED  BY <1>1, <1>3, <1>6, <2>1, LeavesAreFound DEF LeavesFound, Leaf
<1>7. CASE hand.kind[f.n] = "foot" /\ f.pos = "bot" /\ f.i = f.fl /\ f.j = f.fr /\ f.fl # ef
  <2>1. hand.head[f.n] = f.n
    BY <1>2, <1>4, <1>7, NodeFacts
  <2>2. f.n = Start(s.n)
    BY <1>3, <1>7, <2>1 DEF Start
  <2>3. f.fl = s.fl /\ f.fr = s.fr
    BY <1>3, <1>7, <2>1 DEF Footed
  <2> QED  BY <1>1, <1>3, <1>7, <2>2, <2>3, LeavesAreFound DEF LeavesFound, Leaf
<1> QED  BY <1>2, <1>5, <1>6, <1>7, AxiomsAre

\* The ways up from one item.
LEMMA UpWanted ==
  ASSUME Over0, Plain(hand), NEW x, Known(x),
         NEW f \in D!NullAdjunction(hand, x) \cup D!Unary(hand, x),
         NEW e \in Predictions, WantedBy(f, e)
  PROVE  FoundFor(f, e)
<1>1. PICK s : s = states[e]
  OBVIOUS
<1>2. /\ e \in Ids /\ s.n \in hand.nodes /\ SpineTop(hand, s.n) /\ hand \in Hands
  BY <1>1, PredictionFacts
<1>3. Regular(x) /\ x = Content(x) /\ x.n \in hand.nodes
  BY DEF Known, Regular, IsFact
<1>4. /\ hand.head[s.n] = hand.head[f.n] /\ s.i <= f.i /\ f.j <= s.j
      /\ Footed(hand, f.n) => f.fl = s.fl /\ f.fr = s.fr
      /\ hand.kind[hand.head[f.n]] = "eps" => s.i = f.i /\ s.j = f.j
  BY <1>1 DEF WantedBy
<1>5. CASE f \in D!NullAdjunction(hand, x)
  <2>1. x.pos = "bot" /\ f = D!Fact(x.n, "top", x.i, x.j, x.fl, x.fr, x.w)
    BY <1>3, <1>5, NullIs
  <2>2. f.n = x.n /\ f.pos = "top" /\ f.i = x.i /\ f.j = x.j /\ f.fl = x.fl /\ f.fr = x.fr
    BY <2>1 DEF D!Fact
  <2>3. hand.kind[x.n] # "subst"
    BY <1>3, <2>1 DEF Regular
  <2>4. WantedBy(x, e)
    BY <1>1, <1>4, <2>2, <2>3 DEF WantedBy
  <2>5. PICK p \in Working : Like(states[p], x) /\ AsWide(states, states[p].g, e)
    BY <2>4 DEF Known, FoundWhereWanted, FoundFor
  <2>6. PICK t : t = states[p]
    OBVIOUS
  <2>7. PICK y : y = D!Fact(t.n, "top", t.i, t.j, t.fl, t.fr, t.w)
    OBVIOUS
  <2>8. y \in D!NullAdjunction(hand, Content(t)) /\ Like(y, f)
    BY <2>1, <2>2, <2>5, <2>6, <2>7, NullIs DEF Like, D!Fact
  <2>9. FoundFor(y, t.g)
    BY <2>6, <2>8, ItemsMovedUp DEF MovedUp
  <2>10. FoundFor(f, t.g)
    BY <2>8, <2>9, FoundLike
  <2> QED  BY <2>5, <2>6, <2>10, FoundForWider
<1>6. CASE f \in D!Unary(hand, x)
  <2>1. /\ x.pos = "top" /\ hand.up[x.n] # 0 /\ hand.side[x.n] = "only"
        /\ f = D!Fact(hand.up[x.n], "bot", x.i, x.j, x.fl, x.fr, x.w)
    BY <1>3, <1>6, UnaryIs
  <2>2. f.n = hand.up[x.n] /\ f.pos = "bot" /\ f.i = x.i /\ f.j = x.j /\ f.fl = x.fl /\ f.fr = x.fr
    BY <2>1 DEF D!Fact
  <2>3. hand.head[f.n] = hand.head[x.n]
    BY <1>2, <1>3, <2>1, <2>2, NodeFacts
  <2>4. x.n # s.n
    <3>1. ~ SpineTop(hand, x.n)
      BY <2>1, <2>2, <2>3 DEF SpineTop
    <3> QED  BY <1>2, <3>1
  <2>5. WantedBy(x, e)
    BY <1>1, <1>4, <2>2, <2>3, <2>4 DEF WantedBy, Footed
  <2>6. PICK p \in Working : Like(states[p], x) /\ AsWide(states, states[p].g, e)
    BY <2>5 DEF Known, FoundWhereWanted, FoundFor
  <2>7. PICK t : t = states[p]
    OBVIOUS
  <2>8. PICK y : y = D!Fact(hand.up[t.n], "bot", t.i, t.j, t.fl, t.fr, t.w)
    OBVIOUS
  <2>9. y \in D!Unary(hand, Content(t)) /\ Like(y, f)
    BY <2>1, <2>2, <2>6, <2>7, <2>8, UnaryIs DEF Like, D!Fact
  <2>10. FoundFor(y, t.g)
    BY <2>7, <2>9, ItemsMovedUp DEF MovedUp
  <2>11. FoundFor(f, t.g)
    BY <2>9, <2>10, FoundLike
  <2> QED  BY <2>6, <2>7, <2>11, FoundForWider
<1> QED  BY <1>5, <1>6

\* Substitution.
HasTree(n, r) == \E k \in DOMAIN hand.inits[hand.label[n]] : r = hand.inits[hand.label[n]][k]

LEMMA SubstitutedAt ==
  ASSUME NEW e, NEW s, NEW n, NEW r, NEW a, NEW b,
         /\ TreesSubstituted(e) /\ s = states[e] /\ n = hand.head[s.n] /\ hand.kind[n] = "subst"
         /\ HasTree(n, r) /\ <<a, b>> \in SubstSpans(s, n)
  PROVE  Substituted(e, s, n, r, a, b)
<1>1. PICK v : v = <<a, b>>
  OBVIOUS
<1>2. v \in SubstSpans(s, n) /\ v[1] = a /\ v[2] = b
  BY <1>1
<1>3. /\ Sought(r, v[1], v[2], ef, ef)
      /\ \A q \in Working : \A y \in D!Substitution(hand, Content(states[q])) :
           /\ states[q].n = r /\ y.n = n /\ <<y.i, y.j>> = v
           /\ s.n = n => v = <<s.i, s.j>>
           => FoundFor(y, e)
  BY <1>2, Zenon DEF TreesSubstituted, HasTree
<1>4. ASSUME NEW q \in Working, NEW y \in D!Substitution(hand, Content(states[q])),
             states[q].n = r, y.n = n, y.i = a, y.j = b, s.n = n => a = s.i /\ b = s.j
      PROVE  FoundFor(y, e)
  BY <1>1, <1>3, <1>4
<1>5. Sought(r, a, b, ef, ef)
  BY <1>2, <1>3
<1> QED  BY <1>4, <1>5 DEF Substituted

LEMMA SubstWanted ==
  ASSUME Over0, Plain(hand), NEW x, Known(x), NEW f \in D!Substitution(hand, x),
         NEW e \in Predictions, WantedBy(f, e)
  PROVE  FoundFor(f, e)
<1>1. PICK s : s = states[e]
  OBVIOUS
<1>2. /\ e \in Ids /\ s.n \in hand.nodes /\ SpineTop(hand, s.n) /\ hand \in Hands
      /\ s.i \in Int /\ s.j \in Int
  BY <1>1, PredictionFacts
<1>3. Regular(x) /\ x = Content(x) /\ x.n \in hand.nodes
  BY DEF Known, Regular, IsFact
<1>4. /\ hand.up[x.n] = 0 /\ hand.foot[x.n] = 0 /\ x.pos = "top" /\ x.i < x.j
      /\ \E n \in hand.nodes : /\ hand.kind[n] = "subst" /\ hand.label[n] = hand.label[x.n]
                               /\ f = D!Fact(n, "top", x.i, x.j, ef, ef, <<>>)
  BY <1>3, SubstIs DEF Plain
<1>5. PICK n \in hand.nodes : /\ hand.kind[n] = "subst" /\ hand.label[n] = hand.label[x.n]
                              /\ f = D!Fact(n, "top", x.i, x.j, ef, ef, <<>>)
  BY <1>4
<1>6. f.n = n /\ f.pos = "top" /\ f.i = x.i /\ f.j = x.j /\ f.fl = ef /\ f.fr = ef
  BY <1>5 DEF D!Fact
<1>7. hand.head[n] = n
  BY <1>2, <1>5, NodeFacts
<1>8. /\ hand.head[s.n] = n /\ s.i <= x.i /\ x.j <= s.j
      /\ s.n = n => s.i = x.i /\ s.j = x.j
  BY <1>1, <1>5, <1>6, <1>7 DEF WantedBy
<1>9. x.i \in Int /\ x.j \in Int
  BY <1>2, <1>3, HandOK DEF Regular
<1>10. <<x.i, x.j>> \in SubstSpans(s, n)
  <2>1. PICK v : v = <<x.i, x.j>>
    OBVIOUS
  <2>2. v \in (s.i .. s.j) \X (s.i .. s.j)
    BY <1>2, <1>4, <1>8, <1>9, <2>1
  <2>3. v \in SubstSpans(s, n)
    BY <1>4, <1>8, <1>9, <2>1, <2>2 DEF SubstSpans
  <2> QED  BY <2>1, <2>3
<1>11. PICK l : l = hand.label[n]
  OBVIOUS
<1>12. PICK k \in DOMAIN hand.inits[l] : hand.inits[l][k] = x.n
  BY <1>4, <1>5, <1>11 DEF Known, Listed
<1>13. Substituted(e, s, n, x.n, x.i, x.j)
  <2>1. /\ TreesSubstituted(e) /\ s = states[e] /\ n = hand.head[s.n] /\ hand.kind[n] = "subst"
        /\ HasTree(n, x.n) /\ <<x.i, x.j>> \in SubstSpans(s, n)
    BY <1>1, <1>5, <1>8, <1>10, <1>11, <1>12, TreesAreSubstituted DEF HasTree
  <2> QED  BY <2>1, SubstitutedAt
<1>14. x.fl = ef /\ x.fr = ef
  <2>1. ~ Footed(hand, x.n)
    BY <1>2, <1>3, <1>4, NodeFacts DEF Footed
  <2> QED  BY <1>3, <2>1 DEF Regular
<1>15. PICK q \in Working : Like(states[q], x)
  <2>1. Sought(x.n, x.i, x.j, x.fl, x.fr)
    BY <1>13, <1>14 DEF Substituted
  <2> QED  BY <1>3, <1>4, <2>1, SoughtIsFound DEF Known
<1>16. PICK t : t = states[q]
  OBVIOUS
<1>17. t.n = x.n /\ t.pos = x.pos /\ t.i = x.i /\ t.j = x.j
  BY <1>15, <1>16 DEF Like
<1>18. PICK y : y = D!Fact(n, "top", t.i, t.j, ef, ef, <<>>)
  OBVIOUS
<1>19. y \in D!Substitution(hand, Content(t))
  BY <1>4, <1>5, <1>17, <1>18, SubstIs
<1>20. /\ y.n = n /\ y.i = x.i /\ y.j = x.j /\ Like(y, f)
  BY <1>6, <1>17, <1>18 DEF Like, D!Fact
<1>21. FoundFor(y, e)
  <2>1. states[q].n = x.n /\ (s.n = n => x.i = s.i /\ x.j = s.j)
    BY <1>8, <1>16, <1>17
  <2> QED  BY <1>13, <1>16, <1>19, <1>20, <2>1 DEF Substituted
<1> QED  BY <1>20, <1>21, FoundLike

\* What the joined siblings have found each other for.
LEMMA HeadWanted ==
  ASSUME Over0, Plain(hand), NEW x, Known(x), x.pos = "top", NEW u, u = hand.up[x.n], u # 0,
         hand.head[u] = hand.head[x.n],
         NEW f, f.n = u, f.i <= x.i, x.j <= f.j, Footed(hand, x.n) => f.fl = x.fl /\ f.fr = x.fr,
         f.i \in Int, f.j \in Int, hand.kind[hand.head[u]] = "eps" => f.i = f.j,
         NEW e \in Predictions, WantedBy(f, e)
  PROVE  \E p \in Working : /\ Like(states[p], x) /\ AsWide(states, states[p].g, e)
                            /\ states[states[p].g].i <= f.i /\ f.j <= states[states[p].g].j
<1>1. PICK s : s = states[e]
  OBVIOUS
<1>2. /\ e \in Ids /\ SpineTop(hand, s.n) /\ hand \in Hands /\ AllInv
      /\ s.i \in Int /\ s.j \in Int
  BY <1>1, PredictionFacts
<1>3. Regular(x) /\ x.i \in Int /\ x.j \in Int /\ x.i <= x.j
  BY <1>2, HandOK DEF Known, Regular
<1>4. hand.kind[hand.head[x.n]] = "eps" => f.i = x.i /\ f.j = x.j
  BY <1>3
<1>5. x.n # s.n
  BY <1>2 DEF SpineTop
<1>6. WantedBy(x, e) /\ s.i <= f.i /\ f.j <= s.j
  <2>1. /\ hand.head[s.n] = hand.head[f.n] /\ s.i <= f.i /\ f.j <= s.j
        /\ Footed(hand, f.n) => f.fl = s.fl /\ f.fr = s.fr
        /\ hand.kind[hand.head[f.n]] = "eps" => s.i = f.i /\ s.j = f.j
    BY <1>1 DEF WantedBy
  <2> QED  BY <1>1, <1>2, <1>3, <1>4, <1>5, <2>1 DEF WantedBy, Footed
<1>7. PICK p \in Working : Like(states[p], x) /\ AsWide(states, states[p].g, e)
  BY <1>6 DEF Known, FoundWhereWanted, FoundFor
<1>8. PICK g : g = states[p].g
  OBVIOUS
<1>9. states[g].i \in Int /\ states[g].j \in Int
  BY <1>2, <1>8, WorkingFacts, SpansAre
<1>10. states[g].i <= s.i /\ s.j <= states[g].j
  BY <1>1, <1>7, <1>8 DEF AsWide
<1>11. states[g].i <= f.i /\ f.j <= states[g].j
  BY <1>2, <1>6, <1>9, <1>10
<1> QED  BY <1>7, <1>8, <1>11

\* Two children.
LEMMA SiblingsAt ==
  ASSUME NEW p, NEW s, NEW a, NEW b, SiblingsJoined(p), s = states[p], s.pos = "top",
         hand.side[s.n] # "only", hand.head[hand.up[s.n]] = hand.head[s.n],
         <<a, b>> \in SpansBeside(s, states[s.g])
  PROVE  SiblingJoined(s, a, b)
<1>1. PICK v : v = <<a, b>>
  OBVIOUS
<1>2. v \in SpansBeside(s, states[s.g]) /\ v[1] = a /\ v[2] = b
  BY <1>1
<1>3. /\ Sought(hand.sibling[s.n], v[1], v[2], ef, ef)
      /\ \A q \in Working :
           \A f \in D!Binary(hand, Content(s), Content(states[q]))
                      \cup D!Binary(hand, Content(states[q]), Content(s)) :
             <<states[q].i, states[q].j>> = v => FoundFor(f, s.g)
  BY <1>2, Zenon DEF SiblingsJoined
<1>4. Sought(hand.sibling[s.n], a, b, ef, ef)
  BY <1>2, <1>3
<1>5. ASSUME NEW q \in Working,
             NEW f \in D!Binary(hand, Content(s), Content(states[q]))
                         \cup D!Binary(hand, Content(states[q]), Content(s)),
             states[q].i = a, states[q].j = b
      PROVE  FoundFor(f, s.g)
  BY <1>1, <1>3, <1>5
<1> QED  BY <1>4, <1>5 DEF SiblingJoined

LEMMA BinaryWanted ==
  ASSUME Over0, Plain(hand), NEW x, Known(x), NEW y, Known(y), NEW f \in D!Binary(hand, x, y),
         Regular(f), NEW e \in Predictions, WantedBy(f, e)
  PROVE  FoundFor(f, e)
<1>1. hand \in Hands /\ AllInv
  BY AllIsDone
<1>2. Regular(x) /\ Regular(y) /\ x = Content(x) /\ y = Content(y)
  BY DEF Known, Regular, IsFact
<1>3. /\ x.pos = "top" /\ y.pos = "top" /\ x.j = y.i
      /\ hand.side[x.n] = "left" /\ hand.sibling[x.n] = y.n
      /\ f = D!Fact(hand.up[x.n], "bot", x.i, y.j, IF x.fl # ef THEN x.fl ELSE y.fl,
                    IF x.fr # ef THEN x.fr ELSE y.fr, x.w \o y.w)
  BY <1>2, BinIs
<1>4. /\ f.n = hand.up[x.n] /\ f.pos = "bot" /\ f.i = x.i /\ f.j = y.j
      /\ f.fl = (IF x.fl # ef THEN x.fl ELSE y.fl) /\ f.fr = (IF x.fr # ef THEN x.fr ELSE y.fr)
  BY <1>3, FactFields
<1>5. PICK u : u = hand.up[x.n]
  OBVIOUS
<1>6. /\ u \in hand.nodes /\ u # 0 /\ hand.up[y.n] = u
      /\ hand.sibling[y.n] = x.n /\ hand.side[y.n] # "only" /\ hand.side[y.n] # "left"
      /\ hand.head[u] \in {hand.head[x.n], hand.head[y.n]}
      /\ hand.head[u] = hand.head[x.n] => ~ Footed(hand, y.n)
      /\ hand.head[u] = hand.head[y.n] => ~ Footed(hand, x.n)
  <2>1. x.n \in hand.nodes /\ hand.side[x.n] # "only" /\ y.n = hand.sibling[x.n]
    <3>1. x.n \in hand.nodes
      BY <1>2 DEF Regular
    <3> QED  BY <1>3, <3>1
  <2>2. hand.side[y.n] = "right"
    BY <1>1, <1>3, <2>1, SiblingFacts
  <2> QED  BY <1>1, <1>5, <2>1, <2>2, NextTo
<1>7. /\ x.i \in Int /\ x.j \in Int /\ y.i \in Int /\ y.j \in Int /\ x.i <= x.j /\ y.i <= y.j
      /\ hand.last \in Nat
  BY <1>1, <1>2, HandOK DEF Regular
<1>8. /\ hand.kind[hand.head[x.n]] = "eps" => x.i = x.j
      /\ hand.kind[hand.head[x.n]] = "subst" => x.i # x.j
      /\ hand.kind[hand.head[y.n]] = "eps" => y.i = y.j
      /\ hand.kind[hand.head[y.n]] = "subst" => y.i # y.j
  BY <1>2, <1>7 DEF Regular
<1>9. CASE hand.head[u] = hand.head[x.n]
  <2>1. y.fl = ef /\ y.fr = ef
    BY <1>2, <1>6, <1>9 DEF Regular
  <2>2. Footed(hand, x.n) => f.fl = x.fl /\ f.fr = x.fr
    <3>1. Footed(hand, x.n) => x.fl \in Nat /\ x.fr \in Nat
      BY SMTT(30), <1>2 DEF Regular
    <3> QED  BY <1>4, <3>1 DEF ef
  <2>3. PICK p \in Working : /\ Like(states[p], x) /\ AsWide(states, states[p].g, e)
                             /\ states[states[p].g].i <= f.i /\ f.j <= states[states[p].g].j
    <3>1. /\ u = hand.up[x.n] /\ u # 0 /\ hand.head[u] = hand.head[x.n]
          /\ f.n = u /\ f.i <= x.i /\ x.j <= f.j /\ f.i \in Int /\ f.j \in Int
      BY <1>3, <1>4, <1>5, <1>6, <1>7, <1>9
    <3>2. hand.kind[hand.head[u]] = "eps" => f.i = f.j
      BY <3>1 DEF Regular
    <3> QED  BY <1>3, <2>2, <3>1, <3>2, HeadWanted
  <2>4. PICK s : s = states[p]
    OBVIOUS
  <2>5. PICK g : g = states[s.g]
    OBVIOUS
  <2>6. /\ s.n = x.n /\ s.pos = "top" /\ s.i = x.i /\ s.j = x.j /\ s.fl = x.fl /\ s.fr = x.fr
        /\ f.j <= g.j /\ g.j \in Int
    <3>1. g.j \in Int
      BY <1>1, <1>7, <2>4, <2>5, WorkingFacts
    <3> QED  BY <1>3, <2>3, <2>4, <2>5, <3>1 DEF Like
  <2>7. <<y.i, y.j>> \in SpansBeside(s, g)
    <3>1. <<y.i, y.j>> \in {s.j} \X (s.j .. g.j)
      BY <1>3, <1>4, <1>7, <2>6
    <3> QED  BY <1>3, <1>8, <2>6, <3>1 DEF SpansBeside, EmptySubst
  <2>8. SiblingJoined(s, y.i, y.j)
    BY <1>3, <1>5, <1>9, <2>4, <2>5, <2>6, <2>7, SiblingsAreJoined, SiblingsAt
  <2>9. PICK q \in Working : Like(states[q], y)
    <3>1. Sought(y.n, y.i, y.j, y.fl, y.fr)
      BY <1>3, <2>1, <2>6, <2>8 DEF SiblingJoined
    <3> QED  BY <1>2, <1>3, <3>1, SoughtIsFound DEF Known
  <2>10. PICK t : t = states[q]
    OBVIOUS
  <2>11. /\ t.n = y.n /\ t.pos = "top" /\ t.i = y.i /\ t.j = y.j /\ t.fl = y.fl /\ t.fr = y.fr
    BY <1>3, <2>9, <2>10 DEF Like
  <2>12. PICK z : z = D!Fact(hand.up[s.n], "bot", s.i, t.j, IF s.fl # ef THEN s.fl ELSE t.fl,
                             IF s.fr # ef THEN s.fr ELSE t.fr, s.w \o t.w)
    OBVIOUS
  <2>13. z \in D!Binary(hand, Content(s), Content(t))
    BY <1>3, <2>6, <2>11, <2>12, BinIs
  <2>14. Like(z, f)
    BY <1>4, <2>6, <2>11, <2>12 DEF Like, D!Fact
  <2>15. FoundFor(z, s.g)
    BY <2>8, <2>10, <2>11, <2>13 DEF SiblingJoined
  <2>16. FoundFor(f, states[p].g)
    BY <2>4, <2>14, <2>15, FoundLike
  <2> QED  BY <2>3, <2>16, FoundForWider
<1>10. CASE hand.head[u] = hand.head[y.n]
  <2>1. x.fl = ef /\ x.fr = ef
    BY <1>2, <1>6, <1>10 DEF Regular
  <2>2. Footed(hand, y.n) => f.fl = y.fl /\ f.fr = y.fr
    BY <1>4, <2>1
  <2>3. PICK p \in Working : /\ Like(states[p], y) /\ AsWide(states, states[p].g, e)
                             /\ states[states[p].g].i <= f.i /\ f.j <= states[states[p].g].j
    <3>1. /\ y.pos = "top" /\ u = hand.up[y.n] /\ u # 0 /\ hand.head[u] = hand.head[y.n]
          /\ f.n = u /\ f.i <= y.i /\ y.j <= f.j /\ f.i \in Int /\ f.j \in Int
      BY <1>3, <1>4, <1>5, <1>6, <1>7, <1>10
    <3>2. hand.kind[hand.head[u]] = "eps" => f.i = f.j
      BY <3>1 DEF Regular
    <3> QED  BY <2>2, <3>1, <3>2, HeadWanted
  <2>4. PICK s : s = states[p]
    OBVIOUS
  <2>5. PICK g : g = states[s.g]
    OBVIOUS
  <2>6. /\ s.n = y.n /\ s.pos = "top" /\ s.i = y.i /\ s.j = y.j /\ s.fl = y.fl /\ s.fr = y.fr
        /\ g.i <= f.i /\ g.i \in Int
    <3>1. g.i \in Int
      BY <1>1, <1>7, <2>4, <2>5, WorkingFacts
    <3> QED  BY <1>3, <2>3, <2>4, <2>5, <3>1 DEF Like
  <2>7. <<x.i, x.j>> \in SpansBeside(s, g)
    <3>1. <<x.i, x.j>> \in (g.i .. s.i) \X {s.i}
      BY <1>3, <1>4, <1>7, <2>6
    <3> QED  BY <1>6, <1>8, <2>6, <3>1 DEF SpansBeside, EmptySubst
  <2>8. SiblingJoined(s, x.i, x.j)
    BY <1>6, <1>10, <2>4, <2>5, <2>6, <2>7, SiblingsAreJoined, SiblingsAt
  <2>9. PICK q \in Working : Like(states[q], x)
    <3>1. Sought(x.n, x.i, x.j, x.fl, x.fr)
      BY <1>6, <2>1, <2>6, <2>8 DEF SiblingJoined
    <3> QED  BY <1>2, <1>3, <3>1, SoughtIsFound DEF Known
  <2>10. PICK t : t = states[q]
    OBVIOUS
  <2>11. /\ t.n = x.n /\ t.pos = "top" /\ t.i = x.i /\ t.j = x.j /\ t.fl = x.fl /\ t.fr = x.fr
    BY <1>3, <2>9, <2>10 DEF Like
  <2>12. PICK z : z = D!Fact(hand.up[t.n], "bot", t.i, s.j, IF t.fl # ef THEN t.fl ELSE s.fl,
                             IF t.fr # ef THEN t.fr ELSE s.fr, t.w \o s.w)
    OBVIOUS
  <2>13. z \in D!Binary(hand, Content(t), Content(s))
    BY <1>3, <2>6, <2>11, <2>12, BinIs
  <2>14. Like(z, f)
    BY <1>4, <2>6, <2>11, <2>12 DEF Like, D!Fact
  <2>15. FoundFor(z, s.g)
    BY <2>8, <2>10, <2>11, <2>13 DEF SiblingJoined
  <2>16. FoundFor(f, states[p].g)
    BY <2>4, <2>14, <2>15, FoundLike
  <2> QED  BY <2>3, <2>16, FoundForWider
<1> QED  BY <1>6, <1>9, <1>10

\* Adjunction.
LEMMA AdjoinedAt ==
  ASSUME NEW p, NEW s, NEW aux, NEW a, NEW b, TreesAdjoined(p), s = states[p], s.pos = "bot",
         s.n \in hand.adjoin, aux \in AuxTrees(s), ~ WrapBarred(aux, s.n),
         <<a, b>> \in AdjoinSpans(s, aux)
  PROVE  TreeAdjoined(s, aux, a, b)
<1>1. PICK v : v = <<a, b>>
  OBVIOUS
<1>2. v \in AdjoinSpans(s, aux) /\ v[1] = a /\ v[2] = b
  BY <1>1
<1>3. /\ Sought(aux, v[1], v[2], s.i, s.j)
      /\ \A q \in Working : \A f \in D!Adjunction(hand, Content(states[q]), Content(s)) :
           states[q].n = aux /\ <<f.i, f.j>> = v => FoundFor(f, s.g)
  BY <1>2, Zenon DEF TreesAdjoined
<1>4. Sought(aux, a, b, s.i, s.j)
  BY <1>2, <1>3
<1>5. ASSUME NEW q \in Working, NEW f \in D!Adjunction(hand, Content(states[q]), Content(s)),
             states[q].n = aux, f.i = a, f.j = b
      PROVE  FoundFor(f, s.g)
  BY <1>1, <1>3, <1>5
<1> QED  BY <1>4, <1>5 DEF TreeAdjoined

LEMMA AdjunctionWanted ==
  ASSUME Over0, Plain(hand), NEW x, Known(x), NEW y, Known(y), NEW f \in D!Adjunction(hand, x, y),
         Unbarred(x, y), Regular(f), NEW e \in Predictions, WantedBy(f, e)
  PROVE  FoundFor(f, e)
<1>1. hand \in Hands /\ AllInv
  BY AllIsDone
<1>2. Regular(x) /\ Regular(y) /\ x = Content(x) /\ y = Content(y)
  BY DEF Known, Regular, IsFact
<1>3. /\ hand.up[x.n] = 0 /\ hand.foot[x.n] # 0 /\ x.pos = "top"
      /\ y.pos = "bot" /\ D!MayAdjoinAt(hand, y.n) /\ hand.label[y.n] = hand.label[x.n]
      /\ x.fl = y.i /\ x.fr = y.j /\ <<x.i, x.j>> # <<y.i, y.j>>
      /\ f = D!Fact(y.n, AdjoinedPos, x.i, x.j, y.fl, y.fr, y.w)
  BY <1>2, AdjoinIs
<1>4. /\ f.n = y.n /\ f.pos = AdjoinedPos /\ f.i = x.i /\ f.j = x.j
      /\ f.fl = y.fl /\ f.fr = y.fr
  BY <1>3, FactFields
<1>5. Footed(hand, x.n) /\ hand.kind[hand.head[y.n]] # "eps"
  <2>1. Untraced(f)
    BY DEF Regular, Untraced
  <2> QED  BY SMTT(30), <1>1, <1>2, <2>1, AdjunctionRegular
<1>6. /\ x.i \in Int /\ x.j \in Int /\ y.i \in Int /\ y.j \in Int
      /\ x.i <= y.i /\ y.j <= x.j /\ x.i \in 0 .. hand.last /\ x.j \in 0 .. hand.last
      /\ hand.kind[y.n] # "subst"
  BY <1>1, <1>2, <1>3, <1>5, HandOK DEF Regular
<1>7. PICK s0 : s0 = states[e]
  OBVIOUS
<1>8. /\ s0.i \in Int /\ s0.j \in Int /\ s0.i <= x.i /\ x.j <= s0.j /\ WantedBy(y, e)
  <2>1. s0.i \in Int /\ s0.j \in Int
    BY <1>7, PredictionFacts
  <2>2. /\ hand.head[s0.n] = hand.head[y.n] /\ s0.i <= x.i /\ x.j <= s0.j
        /\ Footed(hand, y.n) => y.fl = s0.fl /\ y.fr = s0.fr
    BY <1>4, <1>7 DEF WantedBy
  <2>3. s0.i <= y.i /\ y.j <= s0.j
    BY <1>6, <2>1, <2>2
  <2> QED  BY <1>5, <1>6, <1>7, <2>1, <2>2, <2>3 DEF WantedBy
<1>9. PICK p \in Working : Like(states[p], y) /\ AsWide(states, states[p].g, e)
  BY <1>8 DEF Known, FoundWhereWanted, FoundFor
<1>10. PICK s : s = states[p]
  OBVIOUS
<1>11. PICK g : g = states[s.g]
  OBVIOUS
<1>12. /\ s.n = y.n /\ s.pos = "bot" /\ s.i = y.i /\ s.j = y.j /\ s.fl = y.fl /\ s.fr = y.fr
       /\ g.i \in Int /\ g.j \in Int /\ g.i <= x.i /\ x.j <= g.j
  <2>1. s.n = y.n /\ s.pos = "bot" /\ s.i = y.i /\ s.j = y.j /\ s.fl = y.fl /\ s.fr = y.fr
    BY <1>3, <1>9, <1>10 DEF Like
  <2>2. g.i \in Int /\ g.j \in Int
    <3>1. s.g \in Ids
      BY <1>1, <1>10, WorkingFacts
    <3> QED  BY <1>1, <1>11, <3>1, SpansAre
  <2>3. g.i <= s0.i /\ s0.j <= g.j
    BY <1>7, <1>9, <1>10, <1>11 DEF AsWide
  <2>4. g.i <= x.i /\ x.j <= g.j
    BY <1>6, <1>8, <2>2, <2>3
  <2> QED  BY <2>1, <2>2, <2>4
<1>13. /\ s.n \in hand.adjoin /\ x.n \in AuxTrees(s) /\ ~ WrapBarred(x.n, s.n)
  <2>1. s.n \in hand.adjoin
    BY <1>3, <1>12 DEF D!MayAdjoinAt
  <2>2. ~ WrapBarred(x.n, s.n)
    BY <1>12 DEF Unbarred
  <2>3. PICK l : l = hand.label[x.n]
    OBVIOUS
  <2>4. \E k \in DOMAIN hand.auxs[l] : hand.auxs[l][k] = x.n
    BY <1>3, <2>3 DEF Known, Listed
  <2>5. l = hand.label[s.n]
    BY SMTT(30), <1>3, <1>12, <2>3
  <2>6. x.n \in AuxTrees(s)
    BY <2>4, <2>5 DEF AuxTrees
  <2> QED  BY <2>1, <2>2, <2>6
<1>14. <<x.i, x.j>> \in AdjoinSpans(s, x.n)
  <2>1. /\ x.i \in g.i .. s.i /\ x.j \in s.j .. g.j
        /\ x.i = s.i => x.i \in s.i .. s.i
        /\ x.j = s.j => x.j \in s.j .. s.j
    BY <1>6, <1>12
  <2>2. <<x.i, x.j>> # <<s.i, s.j>>
    BY <1>3, <1>12
  <2>3. PICK a, b : /\ a = (IF hand.pref.noRightWrap /\ x.n \in hand.rightaux THEN s.i ELSE g.i)
                    /\ b = (IF hand.pref.noLeftWrap /\ x.n \in hand.leftaux THEN s.j ELSE g.j)
    OBVIOUS
  <2>4. x.i \in a .. s.i /\ x.j \in s.j .. b
    BY <1>12, <2>1, <2>3 DEF Unbarred
  <2>5. <<x.i, x.j>> \in ((a .. s.i) \X (s.j .. b)) \ {<<s.i, s.j>>}
    BY <2>2, <2>4
  <2> QED  BY <1>11, <2>3, <2>5 DEF AdjoinSpans
<1>15. TreeAdjoined(s, x.n, x.i, x.j)
  BY <1>10, <1>12, <1>13, <1>14, TreesAreAdjoined, AdjoinedAt
<1>16. PICK q \in Working : Like(states[q], x)
  <2>1. Sought(x.n, x.i, x.j, x.fl, x.fr)
    BY <1>3, <1>12, <1>15 DEF TreeAdjoined
  <2> QED  BY <1>2, <1>3, <2>1, SoughtIsFound DEF Known
<1>17. PICK t : t = states[q]
  OBVIOUS
<1>18. /\ t.n = x.n /\ t.pos = "top" /\ t.i = x.i /\ t.j = x.j /\ t.fl = x.fl /\ t.fr = x.fr
  BY <1>3, <1>16, <1>17 DEF Like
<1>19. PICK z : z = D!Fact(s.n, AdjoinedPos, t.i, t.j, s.fl, s.fr, s.w)
  OBVIOUS
<1>20. z \in D!Adjunction(hand, Content(t), Content(s))
  BY <1>3, <1>12, <1>18, <1>19, AdjoinIs
<1>21. Like(z, f) /\ z.i = x.i /\ z.j = x.j
  BY <1>4, <1>12, <1>18, <1>19 DEF Like, D!Fact
<1>22. FoundFor(z, s.g)
  BY <1>15, <1>17, <1>18, <1>20, <1>21 DEF TreeAdjoined
<1>23. FoundFor(f, states[p].g)
  BY <1>10, <1>21, <1>22, FoundLike
<1> QED  BY <1>9, <1>23, FoundForWider

\* Every rule.
LEMMA StepWanted ==
  ASSUME Over0, Plain(hand), NEW F, \A x \in F : Known(x),
         NEW f, Follows(f, F), Regular(f)
  PROVE  FoundWhereWanted(f)
<1> SUFFICES ASSUME NEW e \in Predictions, WantedBy(f, e)
             PROVE  FoundFor(f, e)
  BY DEF FoundWhereWanted
<1>1. CASE f \in D!Axioms(hand)
  BY <1>1, AxiomWanted
<1>2. ASSUME NEW x \in F, f \in D!FromOne(hand, x)
      PROVE  FoundFor(f, e)
  BY <1>2, UpWanted, SubstWanted DEF D!FromOne
<1>3. ASSUME NEW x \in F, NEW y \in F, f \in D!Binary(hand, x, y)
      PROVE  FoundFor(f, e)
  BY <1>3, BinaryWanted
<1>4. ASSUME NEW x \in F, NEW y \in F, f \in D!Adjunction(hand, x, y), Unbarred(x, y)
      PROVE  FoundFor(f, e)
  BY <1>4, AdjunctionWanted
<1> QED  BY <1>1, <1>2, <1>3, <1>4 DEF Follows

\* A derivation is followed.
LEMMA DerivedIsFound ==
  ASSUME Over0, Plain(hand), NEW m \in Nat, NEW d, Derivation(d, m)
  PROVE  \A k \in 1 .. m : Known(d[k])
<1>1. \A k \in 1 .. m : Regular(d[k])
  BY AllIsDone, DerivationRegular
<1> DEFINE Bad == {k \in 1 .. m : ~ Known(d[k])}
<1> SUFFICES ASSUME Bad # {} PROVE FALSE
  OBVIOUS
<1>2. PICK k \in Bad : \A l \in Bad : k <= l
  <2>1. Bad \subseteq Nat
    OBVIOUS
  <2> HIDE DEF Bad
  <2> QED  BY <2>1, LeastOne
<1>3. k \in 1 .. m /\ ~ Known(d[k]) /\ \A l \in 1 .. k - 1 : Known(d[l])
  BY <1>2
<1>4. /\ Follows(d[k], {d[l] : l \in 1 .. k - 1})
      /\ hand.up[d[k].n] = 0 => Listed(d[k].n)
  BY <1>3 DEF Derivation
<1>5. PICK F : F = {d[l] : l \in 1 .. k - 1}
  OBVIOUS
<1>6. \A x \in F : Known(x)
  BY <1>3, <1>5
<1>7. FoundWhereWanted(d[k])
  BY <1>1, <1>3, <1>4, <1>5, <1>6, StepWanted
<1> QED  BY <1>1, <1>3, <1>4, <1>7 DEF Known

-----------------------------------------------------------------------------
(* An item has words where a fact of the derivation has some.              *)

\* Below a node of L is an anchor or a terminal.
WordedAt(h, L, n) ==
  IF h.kind[n] = "internal"
  THEN /\ h.pref.epsAdjoin \/ h.kind[h.head[n]] # "eps"
       /\ \A c \in h.nodes : h.up[c] = n => c \in L \/ (h.side[c] # "only" /\ h.sibling[c] \in L)
  ELSE h.kind[n] \in {"anchor", "terminal"}

Worded(h, L) == \A n \in L : WordedAt(h, L, n)

WordsKept ==
  Plain(hand) =>
    \A L \in SUBSET hand.nodes : Worded(hand, L) => \A x \in Proven : x.n \in L => x.w # <<>>

\* A derived fact at a node of L has words when the earlier ones have.
LEMMA AxiomWorded ==
  ASSUME hand \in Hands, Plain(hand), NEW L, Worded(hand, L), NEW f \in D!Axioms(hand), f.n \in L
  PROVE  f.w # <<>>
<1>1. WordedAt(hand, L, f.n)
  BY DEF Worded
<1>2. CASE \E x \in hand.lexed :
             f = D!Fact(x[2], "bot", x[1], x[1] + 1, D!noFoot, D!noFoot, <<x[1]>>)
  <2>1. PICK x : f = D!Fact(x[2], "bot", x[1], x[1] + 1, D!noFoot, D!noFoot, <<x[1]>>)
    BY <1>2
  <2>2. f.w = <<x[1]>>
    BY <2>1, FactFields
  <2> QED  BY <2>2
<1>3. CASE \E n \in {m \in hand.nodes : D!EmptyAt(hand, m)} : \E i \in D!Places(hand) :
             f = D!Fact(n, "top", i, i, D!noFoot, D!noFoot, <<>>)
  <2>1. PICK n \in hand.nodes, i \in D!Places(hand) :
          D!EmptyAt(hand, n) /\ f = D!Fact(n, "top", i, i, D!noFoot, D!noFoot, <<>>)
    BY <1>3
  <2>2. f.n = n
    BY <2>1, FactFields
  <2>3. CASE hand.pref.epsAdjoin
    <3>1. hand.kind[n] = "eps"
      BY <2>1, <2>3 DEF D!EmptyAt, Plain
    <3> QED  BY <1>1, <2>2, <3>1 DEF WordedAt
  <2>4. CASE ~ hand.pref.epsAdjoin
    <3>1. D!AllEps(hand, n)
      BY <2>1, <2>4 DEF D!EmptyAt, Plain
    <3>2. hand.kind[hand.head[n]] = "eps"
      BY <3>1, EpsilonAssumption
    <3> QED  BY <1>1, <2>2, <2>4, <3>2, NodeFacts DEF WordedAt
  <2> QED  BY <2>3, <2>4
<1>4. CASE \E n \in {m \in hand.nodes : hand.kind[m] = "foot"} :
             \E v \in {u \in D!Places(hand) \X D!Places(hand) : u[1] <= u[2]} :
               f = D!Fact(n, "bot", v[1], v[2], v[1], v[2], <<>>)
  <2>1. PICK n \in hand.nodes, v \in D!Places(hand) \X D!Places(hand) :
          hand.kind[n] = "foot" /\ f = D!Fact(n, "bot", v[1], v[2], v[1], v[2], <<>>)
    BY <1>4
  <2>2. f.n = n
    BY <2>1, FactFields
  <2> QED  BY <1>1, <2>1, <2>2 DEF WordedAt
<1> QED  BY <1>2, <1>3, <1>4 DEF D!Axioms

HasWords(L, x) ==
  x = Content(x) /\ x.n \in hand.nodes /\ x.w \in Seq(Nat) /\ (x.n \in L => x.w # <<>>)

LEMMA OneWorded ==
  ASSUME hand \in Hands, Plain(hand), NEW L, Worded(hand, L), NEW x, HasWords(L, x),
         NEW f \in D!FromOne(hand, x), f.n \in L
  PROVE  f.w # <<>>
<1>1. x = Content(x) /\ x.n \in hand.nodes /\ (x.n \in L => x.w # <<>>)
  BY DEF HasWords
<1>2. WordedAt(hand, L, f.n)
  BY DEF Worded
<1>3. CASE f \in D!NullAdjunction(hand, x)
  <2>1. f = D!Fact(x.n, "top", x.i, x.j, x.fl, x.fr, x.w)
    BY <1>1, <1>3, NullIs
  <2> QED  BY <1>1, <2>1, FactFields
<1>4. CASE f \in D!Unary(hand, x)
  <2>1. /\ hand.up[x.n] # 0 /\ hand.side[x.n] = "only"
        /\ f = D!Fact(hand.up[x.n], "bot", x.i, x.j, x.fl, x.fr, x.w)
    BY <1>1, <1>4, UnaryIs
  <2>2. f.n = hand.up[x.n] /\ f.w = x.w
    BY <2>1, FactFields
  <2>3. hand.kind[f.n] = "internal"
    BY SMTT(30), <1>1, <2>1, <2>2, NodeFacts
  <2>4. x.n \in L
    BY <1>1, <1>2, <2>1, <2>2, <2>3 DEF WordedAt
  <2> QED  BY <1>1, <2>2, <2>4
<1>5. CASE f \in D!Substitution(hand, x)
  <2>1. \E n \in hand.nodes : hand.kind[n] = "subst" /\ f = D!Fact(n, "top", x.i, x.j, ef, ef, <<>>)
    BY <1>1, <1>5, SubstIs
  <2>2. hand.kind[f.n] = "subst"
    BY <2>1, FactFields
  <2> QED  BY <1>2, <2>2 DEF WordedAt
<1> QED  BY <1>3, <1>4, <1>5 DEF D!FromOne

LEMMA TwoWorded ==
  ASSUME hand \in Hands, Plain(hand), NEW L, Worded(hand, L), NEW x, HasWords(L, x),
         NEW y, HasWords(L, y), NEW f \in D!FromTwo(hand, x, y), f.n \in L
  PROVE  f.w # <<>>
<1>1. /\ x = Content(x) /\ x.n \in hand.nodes /\ (x.n \in L => x.w # <<>>) /\ x.w \in Seq(Nat)
      /\ y = Content(y) /\ y.n \in hand.nodes /\ (y.n \in L => y.w # <<>>) /\ y.w \in Seq(Nat)
  BY DEF HasWords
<1>2. WordedAt(hand, L, f.n)
  BY DEF Worded
<1>3. CASE f \in D!Binary(hand, x, y)
  <2>1. /\ hand.side[x.n] = "left" /\ hand.sibling[x.n] = y.n
        /\ f = D!Fact(hand.up[x.n], "bot", x.i, y.j, IF x.fl # ef THEN x.fl ELSE y.fl,
                      IF x.fr # ef THEN x.fr ELSE y.fr, x.w \o y.w)
    BY <1>1, <1>3, BinIs
  <2>2. f.n = hand.up[x.n] /\ f.w = x.w \o y.w
    BY <2>1 DEF D!Fact
  <2>3. hand.kind[f.n] = "internal"
    <3>1. hand.up[x.n] # 0
      BY SMTT(30), <1>1, <2>1, NodeFacts
    <3> QED  BY <1>1, <2>2, <3>1, NodeFacts
  <2>4. x.n \in L \/ y.n \in L
    <3>1. \A c \in hand.nodes :
            hand.up[c] = f.n => c \in L \/ (hand.side[c] # "only" /\ hand.sibling[c] \in L)
      BY <1>2, <2>3 DEF WordedAt
    <3> QED  BY <1>1, <2>1, <2>2, <3>1
  <2>5. PICK a, b : a = x.w /\ b = y.w
    OBVIOUS
  <2>6. a \in Seq(Nat) /\ b \in Seq(Nat) /\ (a # <<>> \/ b # <<>>)
    BY <1>1, <2>4, <2>5
  <2>7. a \o b # <<>>
    BY <2>6, ConcatProperties, EmptySeq
  <2> QED  BY <2>2, <2>5, <2>7
<1>4. CASE f \in D!Adjunction(hand, x, y)
  <2>1. f = D!Fact(y.n, AdjoinedPos, x.i, x.j, y.fl, y.fr, y.w)
    BY <1>1, <1>4, AdjoinIs
  <2> QED  BY <1>1, <2>1, FactFields
<1> QED  BY <1>3, <1>4 DEF D!FromTwo

\* The invariant.
LEMMA ProvenWords ==
  ASSUME DeductionInv, NEW L, \A x \in Proven : x.n \in L => x.w # <<>>
  PROVE  \A x \in Proven : HasWords(L, x)
<1> SUFFICES ASSUME NEW p \in ItemIds
             PROVE  HasWords(L, Content(states[p]))
  BY DEF Proven
<1>1. PICK s : s = states[p]
  OBVIOUS
<1>2. PICK x : x = Content(s)
  OBVIOUS
<1>3. x.n = s.n /\ x.w = s.w /\ x = Content(x)
  BY <1>2 DEF Content
<1>4. x.n \in hand.nodes /\ x.w \in Seq(Nat)
  BY <1>1, <1>3, StatesOK DEF DeductionInv, ItemIds
<1>5. x \in Proven
  BY <1>1, <1>2 DEF Proven
<1> QED  BY <1>1, <1>2, <1>3, <1>4, <1>5 DEF HasWords

LEMMA WordsNext ==
  ASSUME DeductionInv, WordsKept, [Next]_vars
  PROVE  WordsKept'
<1>1. hand \in Hands
  BY DEF DeductionInv, Inv
<1>2. CASE D!Derive
  <2>1. PICK f : D!Derivable(hand, f, Proven) /\ Proven' = Proven \cup {f}
    BY <1>2 DEF D!Derive
  <2>2. hand' = hand
    BY <1>2 DEF D!Derive
  <2>3. ASSUME Plain(hand), NEW L \in SUBSET hand.nodes, Worded(hand, L), f.n \in L
        PROVE  f.w # <<>>
    <3>1. \A x \in Proven : x.n \in L => x.w # <<>>
      BY <2>3 DEF WordsKept
    <3>2. \A x \in Proven : HasWords(L, x)
      BY <3>1, ProvenWords
    <3> QED  BY <1>1, <2>1, <2>3, <3>2, AxiomWorded, OneWorded, TwoWorded DEF D!Derivable
  <2> QED  BY <2>1, <2>2, <2>3 DEF WordsKept
<1>3. CASE UNCHANGED <<hand, Proven>>
  BY <1>3 DEF WordsKept
<1> QED  BY <1>2, <1>3, StepDerives

\* Above a child that is in L.
LEMMA ChildWorded ==
  ASSUME hand \in Hands, NEW L, NEW x \in hand.nodes, NEW u, u = hand.up[x], u # 0,
         hand.pref.epsAdjoin \/ hand.kind[hand.head[u]] # "eps",
         x \in L \/ (hand.side[x] # "only" /\ hand.sibling[x] \in L)
  PROVE  WordedAt(hand, L, u)
<1>1. hand.kind[u] = "internal"
  BY NodeFacts
<1>2. ASSUME NEW c \in hand.nodes, hand.up[c] = u
      PROVE  c \in L \/ (hand.side[c] # "only" /\ hand.sibling[c] \in L)
  <2>1. c = x \/ (hand.side[x] # "only" /\ c = hand.sibling[x])
    BY <1>2, ChildrenAssumption
  <2>2. CASE c = x
    BY <2>2
  <2>3. CASE hand.side[x] # "only" /\ c = hand.sibling[x]
    BY <2>3, NextTo
  <2> QED  BY <2>1, <2>2, <2>3
<1> QED  BY <1>1, <1>2 DEF WordedAt

\* The first fact with words at a node has them from below.
LEMMA StepWords ==
  ASSUME hand \in Hands, Plain(hand), NEW L, NEW f, f.w # <<>>, Regular(f),
         NEW F, \A x \in F : Regular(x) /\ (x.n = f.n => x.w = <<>>) /\ (x.w # <<>> => x.n \in L),
         D!Derivable(hand, f, F)
  PROVE  WordedAt(hand, L, f.n)
<1>1. CASE f \in D!Axioms(hand)
  <2>1. CASE \E x \in hand.lexed :
               f = D!Fact(x[2], "bot", x[1], x[1] + 1, D!noFoot, D!noFoot, <<x[1]>>)
    <3>1. PICK x \in hand.lexed :
             f = D!Fact(x[2], "bot", x[1], x[1] + 1, D!noFoot, D!noFoot, <<x[1]>>)
      BY <2>1
    <3>2. f.n = x[2]
      BY <3>1, FactFields
    <3>3. hand.kind[f.n] \in {"anchor", "terminal"}
      BY <3>2, HandOK DEF TablesOK
    <3> QED  BY <3>3 DEF WordedAt
  <2>2. CASE \E n \in {m \in hand.nodes : D!EmptyAt(hand, m)} : \E i \in D!Places(hand) :
               f = D!Fact(n, "top", i, i, D!noFoot, D!noFoot, <<>>)
    BY <2>2, FactFields
  <2>3. CASE \E n \in {m \in hand.nodes : hand.kind[m] = "foot"} :
               \E v \in {u \in D!Places(hand) \X D!Places(hand) : u[1] <= u[2]} :
                 f = D!Fact(n, "bot", v[1], v[2], v[1], v[2], <<>>)
    BY <2>3, FactFields
  <2> QED  BY <1>1, <2>1, <2>2, <2>3 DEF D!Axioms
<1>2. ASSUME NEW x \in F, f \in D!FromOne(hand, x)
      PROVE  WordedAt(hand, L, f.n)
  <2>1. /\ Regular(x) /\ x = Content(x) /\ x.n \in hand.nodes
        /\ x.n = f.n => x.w = <<>>
        /\ x.w # <<>> => x.n \in L
    BY DEF Regular, IsFact
  <2>2. CASE f \in D!NullAdjunction(hand, x)
    <3>1. f = D!Fact(x.n, "top", x.i, x.j, x.fl, x.fr, x.w)
      BY SMTT(30), <2>1, <2>2, NullIs
    <3> QED  BY <2>1, <3>1, FactFields
  <2>3. CASE f \in D!Unary(hand, x)
    <3>1. /\ hand.up[x.n] # 0
          /\ f = D!Fact(hand.up[x.n], "bot", x.i, x.j, x.fl, x.fr, x.w)
      BY <2>1, <2>3, UnaryIs
    <3>2. f.n = hand.up[x.n] /\ f.w = x.w /\ f.pos = "bot"
      BY <3>1, FactFields
    <3>3. hand.pref.epsAdjoin \/ hand.kind[hand.head[f.n]] # "eps"
      BY <3>2 DEF Regular
    <3>4. x.n \in L
      BY <2>1, <3>2
    <3>5. PICK n, u : n = x.n /\ u = f.n
      BY Zenon
    <3>6. /\ n \in hand.nodes /\ u = hand.up[n] /\ u # 0 /\ n \in L
          /\ hand.pref.epsAdjoin \/ hand.kind[hand.head[u]] # "eps"
      BY <2>1, <3>1, <3>2, <3>3, <3>4, <3>5
    <3>7. WordedAt(hand, L, u)
      BY <3>6, ChildWorded
    <3> QED  BY <3>5, <3>7
  <2>4. CASE f \in D!Substitution(hand, x)
    <3>1. \E n : f = D!Fact(n, "top", x.i, x.j, ef, ef, <<>>)
      BY <2>1, <2>4, SubstIs
    <3> QED  BY <3>1, FactFields
  <2> QED  BY <1>2, <2>2, <2>3, <2>4 DEF D!FromOne
<1>3. ASSUME NEW x \in F, NEW y \in F, f \in D!FromTwo(hand, x, y)
      PROVE  WordedAt(hand, L, f.n)
  <2>1. /\ x = Content(x) /\ x.n \in hand.nodes /\ (x.w # <<>> => x.n \in L)
        /\ y.w # <<>> => y.n \in L
    BY DEF Regular, IsFact
  <2>2. y = Content(y) /\ (y.n = f.n => y.w = <<>>)
    BY DEF Regular, IsFact
  <2>3. CASE f \in D!Binary(hand, x, y)
    <3>1. /\ hand.side[x.n] = "left" /\ hand.sibling[x.n] = y.n
          /\ f = D!Fact(hand.up[x.n], "bot", x.i, y.j, IF x.fl # ef THEN x.fl ELSE y.fl,
                        IF x.fr # ef THEN x.fr ELSE y.fr, x.w \o y.w)
      BY <2>1, <2>2, <2>3, BinIs
    <3>2. f.n = hand.up[x.n] /\ f.w = x.w \o y.w /\ f.pos = "bot"
      BY <3>1 DEF D!Fact
    <3>3. x.w # <<>> \/ y.w # <<>>
      <4>1. <<>> \o <<>> = <<>>
        OBVIOUS
      <4> QED  BY <3>2, <4>1
    <3>4. hand.up[x.n] # 0 /\ (hand.pref.epsAdjoin \/ hand.kind[hand.head[f.n]] # "eps")
      <4>1. hand.pref.epsAdjoin \/ hand.kind[hand.head[f.n]] # "eps"
        BY <3>2 DEF Regular
      <4>2. hand.up[x.n] # 0
        BY <2>1, <3>1, NodeFacts
      <4> QED  BY <4>1, <4>2
    <3>5. x.n \in L \/ (hand.side[x.n] # "only" /\ hand.sibling[x.n] \in L)
      BY <2>1, <3>1, <3>3
    <3> QED  BY <2>1, <3>2, <3>4, <3>5, ChildWorded
  <2>4. CASE f \in D!Adjunction(hand, x, y)
    <3>1. f = D!Fact(y.n, AdjoinedPos, x.i, x.j, y.fl, y.fr, y.w)
      BY <2>1, <2>2, <2>4, AdjoinIs
    <3> QED  BY <2>2, <3>1, FactFields
  <2> QED  BY <1>3, <2>3, <2>4 DEF D!FromTwo
<1> QED  BY <1>1, <1>2, <1>3 DEF D!Derivable

\* The nodes at which a derivation has facts with words.
WordNodes(d, m) == {n \in hand.nodes : \E k \in 1 .. m : d[k].n = n /\ d[k].w # <<>>}

LEMMA DerivationWords ==
  ASSUME hand \in Hands, Plain(hand), NEW m \in Nat, NEW d, Derivation(d, m)
  PROVE  Worded(hand, WordNodes(d, m))
<1> DEFINE L == WordNodes(d, m)
<1>1. \A k \in 1 .. m : Regular(d[k])
  BY DerivationRegular
<1>2. \A k \in 1 .. m : d[k].w # <<>> => d[k].n \in L
  BY <1>1 DEF WordNodes, Regular
<1>3. ASSUME NEW n \in L
      PROVE  WordedAt(hand, L, n)
  <2> DEFINE K == {k \in 1 .. m : d[k].n = n /\ d[k].w # <<>>}
  <2>1. K \subseteq Nat /\ K # {}
    BY <1>3 DEF WordNodes
  <2>2. PICK k \in K : \A l \in K : k <= l
    <3> HIDE DEF K
    <3> QED  BY <2>1, LeastOne
  <2>3. /\ k \in 1 .. m /\ d[k].n = n /\ d[k].w # <<>>
        /\ \A l \in 1 .. k - 1 : l \in 1 .. m /\ (d[l].n = n => d[l].w = <<>>)
    BY <2>2
  <2>4. D!Derivable(hand, d[k], {d[l] : l \in 1 .. k - 1})
    BY <2>3, FollowsDerivable DEF Derivation
  <2>5. PICK F : F = {d[l] : l \in 1 .. k - 1}
    OBVIOUS
  <2> HIDE DEF K, L
  <2>6. \A x \in F : Regular(x) /\ (x.n = d[k].n => x.w = <<>>) /\ (x.w # <<>> => x.n \in L)
    BY <1>1, <1>2, <2>3, <2>5
  <2> QED  BY <1>1, <2>3, <2>4, <2>5, <2>6, StepWords
<1> QED  BY <1>3 DEF Worded

-----------------------------------------------------------------------------
\* The parser misses no analysis of the sentence.
Complete ==
  stage = "done" /\ Plain(hand) =>
    \A m \in Nat \ {0} : \A d :
      Derivation(d, m) /\ D!Accepting(hand, d[m]) =>
        \E p \in Ids : ValidStart(states[p]) /\ states[p].n = d[m].n

\* The accepting fact is sought from the start.
LEMMA AcceptingSought ==
  ASSUME Over0, NEW f, D!Accepting(hand, f), Listed(f.n)
  PROVE  Sought(f.n, 0, hand.last, ef, ef)
<1>1. /\ hand.foot[f.n] = 0
      /\ \E a \in DOMAIN hand.tops : hand.tops[a] = hand.label[f.n]
  BY DEF D!Accepting
<1>2. PICK a \in DOMAIN hand.tops : hand.tops[a] = hand.label[f.n]
  BY <1>1
<1>3. PICK l : l = hand.tops[a]
  OBVIOUS
<1>4. PICK k \in DOMAIN hand.inits[l] : hand.inits[l][k] = f.n
  BY <1>1, <1>2, <1>3 DEF Listed
<1>5. PICK t : t = Predict(f.n, 0, hand.last, ef, ef, 0, 0)
  OBVIOUS
<1>6. PICK r : r = Call(<<a, k, 0, 0>>, t)
  OBVIOUS
<1>7. r \in Seeds(hand)
  BY SMTT(30), <1>2, <1>3, <1>4, <1>5, <1>6 DEF Seeds
<1>8. r.t = t /\ t.n = f.n
  BY <1>5, <1>6 DEF Call, Predict
<1>9. Sought(r.t.n, 0, hand.last, ef, ef)
  BY <1>7, SeedsSought
<1> QED  BY <1>8, <1>9

LEMMA NothingIsMissed ==
  ASSUME ClosingInv, WordsKept
  PROVE  Complete
<1> SUFFICES ASSUME stage = "done", Plain(hand), NEW m \in Nat \ {0}, NEW d,
                    Derivation(d, m), D!Accepting(hand, d[m])
             PROVE  \E p \in Ids : ValidStart(states[p]) /\ states[p].n = d[m].n
  BY DEF Complete
<1>1. Over0 /\ hand \in Hands
  BY AllIsDone DEF Over0
<1>2. PICK f : f = d[m]
  OBVIOUS
<1>3. m \in 1 .. m /\ m \in Nat
  OBVIOUS
<1>4. Known(f) /\ Regular(f)
  BY <1>1, <1>2, <1>3, DerivedIsFound DEF Known
<1>5. /\ hand.up[f.n] = 0 /\ hand.foot[f.n] = 0 /\ f.pos = "top"
      /\ \E k \in DOMAIN hand.tops : hand.tops[k] = hand.label[f.n]
      /\ f.i = 0 /\ f.j = hand.last /\ f.w # <<>>
  BY <1>2 DEF D!Accepting, D!IsRoot
<1>6. f.fl = ef /\ f.fr = ef /\ f.n \in hand.nodes
  <2>1. ~ Footed(hand, f.n)
    BY <1>1, <1>4, <1>5, NodeFacts DEF Regular, Footed
  <2> QED  BY <1>4, <2>1 DEF Regular
<1>7. Sought(f.n, f.i, f.j, f.fl, f.fr)
  BY <1>1, <1>2, <1>4, <1>5, <1>6, AcceptingSought DEF Known
<1>8. PICK q \in Working : Like(states[q], f)
  BY <1>1, <1>4, <1>5, <1>7, SoughtIsFound DEF Known
<1>9. PICK s : s = states[q]
  OBVIOUS
<1>10. /\ q \in Ids /\ s.type = "item" /\ s.n = f.n /\ s.pos = f.pos /\ s.i = f.i /\ s.j = f.j
  BY <1>8, <1>9 DEF Working, ItemIds, Like
<1>11. s.w # <<>>
  <2>1. PICK L : L = WordNodes(d, m)
    OBVIOUS
  <2>2. L \in SUBSET hand.nodes /\ Worded(hand, L) /\ f.n \in L
    <3>1. f.n \in L
      BY <1>2, <1>3, <1>5, <1>6, <2>1 DEF WordNodes
    <3>2. Worded(hand, L)
      BY <1>1, <2>1, DerivationWords
    <3> QED  BY <2>1, <3>1, <3>2 DEF WordNodes
  <2>3. PICK x : x = Content(s)
    OBVIOUS
  <2>4. x \in Proven /\ x.n = f.n /\ x.w = s.w
    BY <1>8, <1>9, <1>10, <2>3 DEF Proven, Working, Content
  <2> QED  BY <2>2, <2>4 DEF WordsKept
<1> QED  BY <1>2, <1>5, <1>9, <1>10, <1>11 DEF ValidStart

\* When hparse() is done, a sentence that the rules of TagDeduction derive from
\* the listed trees has an item that hparse_valid_start accepts, at the root of
\* the same tree: whatever the grammar and the sentence, none is rejected for the
\* order of the agenda, for a merge or for the limits that goals set.
THEOREM NoSentenceMissed == AuxLexical /\ Spec => []Complete
<1>1. AuxLexical /\ Init => ClosingInv /\ WordsKept
  <2>1. Init => WordsKept
    BY DEF Init, WordsKept, Proven, ItemIds, Ids
  <2> QED  BY <2>1, ClosingInit
<1>2. ClosingInv /\ WordsKept /\ [Next]_vars => (ClosingInv /\ WordsKept)'
  BY ClosingNext, WordsNext DEF ClosingInv, AllInv
<1>3. ClosingInv /\ WordsKept => Complete
  BY NothingIsMissed
<1> QED  BY <1>1, <1>2, <1>3, PTL DEF Spec

=============================================================================
