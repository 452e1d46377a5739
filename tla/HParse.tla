------------------------------- MODULE HParse -------------------------------
(***************************************************************************)
(* The head-corner chart parser (src/src/parser/hparse.c, hparse_add.c,    *)
(* hparse_state.c, hparse_backptr.c, hparse_utils.c).                      *)
(*                                                                         *)
(* hparse() closes the chart under three handlers, init_head, move_up and  *)
(* completer, that are called in this order on every state of the list     *)
(* plist.  The states a handler predicts or proves go through hparse_add,  *)
(* which drops, merges or stores each of them; stored states form the next *)
(* list.  A state is known by its number in `states', where C has a        *)
(* pointer, and 0 is the null pointer.                                     *)
(*                                                                         *)
(* A handler's calls of hparse_add are independent of one another: none of *)
(* them creates a state that a later iteration of the same handler looks   *)
(* for.  The handler therefore leaves the whole set of its calls in `todo',*)
(* each with its position in the handler's loops, and Add performs them in *)
(* that order.                                                             *)
(***************************************************************************)
EXTENDS Integers, Sequences, FiniteSets

CONSTANT Hands     \* the lexicalised grammars to parse, see Grammar!Hand

Kinds == {"internal", "anchor", "terminal", "subst", "foot", "eps"}

\* A node at which a subtree is asked for: the highest with its headcorner.
SpineTop(h, n) == h.up[n] = 0 \/ h.head[h.up[n]] # h.head[n]

\* The tables have the right types and describe binary branching trees.
TablesOK(h) ==
  /\ h.last \in Nat /\ h.nodes \subseteq Nat \ {0}
  /\ h.up \in [h.nodes -> h.nodes \cup {0}]
  /\ h.side \in [h.nodes -> {"only", "left", "right"}]
  /\ h.sibling \in [h.nodes -> h.nodes \cup {0}]
  /\ h.kind \in [h.nodes -> Kinds]
  /\ h.head \in [h.nodes -> h.nodes]
  /\ h.foot \in [h.nodes -> h.nodes \cup {0}]
  /\ h.adjoin \subseteq h.nodes
  /\ LET words == {n \in h.nodes : h.kind[n] \in {"anchor", "terminal"}}
     IN h.lexed \subseteq (0 .. h.last - 1) \X words /\ h.eps \subseteq words
  /\ DOMAIN h.label = h.nodes

\* A tree has an anchor, so that no substitution node is a root.
TreesOK(h) ==
  \A n \in h.nodes :
    /\ h.up[n] # 0 => h.up[n] # n /\ h.kind[h.up[n]] = "internal"
    /\ h.kind[n] = "subst" => h.up[n] # 0
    /\ IF h.up[n] = 0 \/ h.side[n] = "only" THEN h.side[n] = "only"
       ELSE LET m == h.sibling[n]
            IN /\ m # 0 /\ h.sibling[m] = n /\ h.up[m] = h.up[n]
               /\ h.side[n] = "left" <=> h.side[m] = "right"
               /\ h.side[m] # "only"

\* A headcorner is a leaf, shared by the nodes of one path up from it; a foot
\* is the headcorner all the way up.
HeadsOK(h) ==
  /\ \A n \in h.nodes :
       /\ h.kind[h.head[n]] # "internal"
       /\ h.kind[n] # "internal" => h.head[n] = n
       /\ h.up[n] # 0 =>
            IF h.side[n] = "only" THEN h.head[h.up[n]] = h.head[n]
            ELSE /\ h.head[n] # h.head[h.sibling[n]]
                 /\ h.head[h.up[n]] \in {h.head[n], h.head[h.sibling[n]]}
       /\ h.kind[h.head[n]] = "foot" => (h.up[n] = 0 \/ ~SpineTop(h, n))
       /\ h.up[n] = 0 => h.foot[n] = IF h.kind[h.head[n]] = "foot" THEN h.head[n] ELSE 0
  /\ \A m, n \in h.nodes :
       SpineTop(h, m) /\ SpineTop(h, n) /\ h.head[m] = h.head[n] => m = n

\* The lists of initial and auxiliary trees, by the labels of their roots.
ListsOK(h) ==
  /\ \A n \in h.nodes : h.label[n] \in DOMAIN h.inits /\ h.label[n] \in DOMAIN h.auxs
  /\ \A l \in DOMAIN h.inits :
       /\ h.inits[l] \in Seq(h.nodes)
       /\ \A k \in DOMAIN h.inits[l] :
            LET r == h.inits[l][k]
            IN h.up[r] = 0 /\ h.foot[r] = 0 /\ h.label[r] = l
  /\ \A l \in DOMAIN h.auxs :
       /\ h.auxs[l] \in Seq(h.nodes)
       /\ \A k \in DOMAIN h.auxs[l] :
            LET r == h.auxs[l][k]
            IN h.up[r] = 0 /\ h.foot[r] # 0 /\ h.label[r] = l
  /\ h.tops \in Seq(DOMAIN h.inits)

ASSUME HandsAssumption ==
  \A h \in Hands : TablesOK(h) /\ TreesOK(h) /\ HeadsOK(h) /\ ListsOK(h)

\* A node has one child, or a left and a right one.
ASSUME ChildrenAssumption ==
  \A h \in Hands : \A c, n \in h.nodes :
    h.up[c] = h.up[n] /\ h.up[n] # 0 => c = n \/ (h.side[n] # "only" /\ c = h.sibling[n])

VARIABLES
  hand,            \* the grammar tables and preferences in use
  states,          \* every hpstate_t allocated, in the order of allocation
  chart,           \* the heap of states (numbers) of each span
  plist, idx,      \* the list being processed and the place in it
  nlist,           \* the list for the next iteration
  stage,           \* the next handler: "head", "move", "complete";
                   \* or "done", "abort"
  todo             \* the calls of hparse_add still to be made

vars == <<hand, states, chart, plist, idx, nlist, stage, todo>>

ef == -1           \* no foot

-----------------------------------------------------------------------------
(* States, back pointers and requests.                                     *)

Backptr == [b : Nat, c : Nat]

State == [n : Nat, g : Nat, pos : {"top", "bot"}, i : Int, j : Int,
          fl : Int, fr : Int, type : {"init", "goal", "item"},
          w : Seq(Nat), bp : Seq(Backptr)]

\* The one back pointer of a new state; none when both pointers are null.
Ptrs(b, c) == IF b = 0 /\ c = 0 THEN <<>> ELSE <<[b |-> b, c |-> c]>>

Item(n, g, pos, i, j, fl, fr, w, b, c) ==
  [n |-> n, g |-> g, pos |-> pos, i |-> i, j |-> j, fl |-> fl, fr |-> fr,
   type |-> "item", w |-> w, bp |-> Ptrs(b, c)]

\* Fault: the asker goes to the wrong side of the back pointer.
PredictSwapped(n, i, j, fl, fr, b, c) ==
  [n |-> n, g |-> 0, pos |-> "top", i |-> i, j |-> j, fl |-> fl, fr |-> fr,
   type |-> "init", w |-> <<>>, bp |-> Ptrs(c, b)]

Predict(n, i, j, fl, fr, b, c) ==
  [n |-> n, g |-> 0, pos |-> "top", i |-> i, j |-> j, fl |-> fl, fr |-> fr,
   type |-> "init", w |-> <<>>, bp |-> Ptrs(b, c)]

Goal(n, g, i, j) ==
  [n |-> n, g |-> g, pos |-> "top", i |-> i, j |-> j, fl |-> ef, fr |-> ef,
   type |-> "goal", w |-> <<>>, bp |-> <<>>]

\* A call of hparse_add on state t, at place `at' of the handler's loops.
Call(at, t) == [at |-> at, t |-> t]

Before(p, q) == \E m \in 1 .. 4 : p[m] < q[m] /\ \A l \in 1 .. (m-1) : p[l] = q[l]

-----------------------------------------------------------------------------
(* Looking things up in the chart.                                         *)

Spans == (0 .. hand.last + 1) \X (0 .. hand.last + 1)

CellOf(i, j) == chart[<<i, j>>]

\* What stands at the first of some places of a cell, in heap order; 0 when
\* there is none.
FirstOf(cell, places) ==
  IF places = {} THEN 0
  ELSE cell[CHOOSE p \in places : \A q \in places : p <= q]

\* hp_state_exists: the first item that completes node n over (i, j).
StateExists(i, j, n, fl, fr) ==
  LET cell == CellOf(i, j)
  IN FirstOf(cell, {p \in DOMAIN cell :
                      LET s == states[cell[p]]
                      IN /\ s.n = n /\ s.pos = "top" /\ s.type = "item"
                         /\ s.fl = fl /\ s.fr = fr})

\* hpstate_add_eq: s, already in the chart, makes t superfluous.
AddEq(s, t) ==
  /\ s.n = t.n /\ s.pos = t.pos /\ s.i = t.i /\ s.j = t.j
  /\ s.fl = t.fl /\ s.fr = t.fr
  /\ \/ s.g = t.g
     \/ /\ s.g # 0 /\ t.g # 0
        /\ states[s.g].i <= states[t.g].i /\ states[s.g].j >= states[t.g].j
  /\ s.type = t.type \/ (s.type # "item" /\ t.type # "item")
  /\ s.w = t.w

\* hpbackptr_state_eq: the pointers a and b lead to the same piece of analysis.
PtrEq(a, b) ==
  \/ a = 0 /\ b = 0
  \/ /\ a # 0 /\ b # 0
     /\ states[a].n = states[b].n /\ states[a].pos = states[b].pos
     /\ states[a].i = states[b].i /\ states[a].j = states[b].j
     /\ states[a].w = states[b].w

\* Fault: the new leaf does not rise.
HeapAppend(cell, id, t) == Append(cell, id)

\* The places on the way from a leaf of the heap to its root (heap_parent).
HeapPath[p \in Nat] == IF p <= 1 THEN {p} ELSE {p} \cup HeapPath[p \div 2]

\* heap_insert with hpstate_compare.  Within a cell only the type counts: an
\* item rises, along the path from the new leaf to the root, over the states
\* that are no items, which all move one place down.
HeapInsert(cell, id, t) ==
  LET leaf  == Len(cell) + 1
      risen == {leaf} \cup
               {a \in HeapPath[leaf] :
                  /\ a < leaf
                  /\ t.type = "item"
                  /\ \A x \in HeapPath[leaf] :
                       a <= x /\ x < leaf => states[cell[x]].type # "item"}
  IN [p \in 1 .. leaf |-> IF p \notin risen THEN cell[p]
                          ELSE IF p \div 2 \in risen THEN cell[p \div 2]
                          ELSE id]

-----------------------------------------------------------------------------
(* hparse_add.                                                             *)

\* Fault: the goal's span is no limit.
NoLimit(t) == FALSE

\* The span of t is not within the span of its goal.
OutOfGoal(t) ==
  t.g # 0 /\ (states[t.g].i > t.i \/ states[t.g].j < t.j)

Drop(t) ==
  /\ OutOfGoal(t)
  /\ UNCHANGED <<states, chart, nlist, stage>>

\* Fault: the back pointer of t is lost.
MergeForgets(d, t) == UNCHANGED <<states, chart, nlist, stage>>

\* hp_combine_logprob and the second insertion of hp_check_heap: the back
\* pointer of t goes to the state d that stands for it, unless d has it; a
\* predicted state (type init) is given it in any case.
Merge(d, t) ==
  LET known == \E k \in DOMAIN states[d].bp :
                 /\ PtrEq(states[d].bp[k].b, t.bp[1].b)
                 /\ PtrEq(states[d].bp[k].c, t.bp[1].c)
      new   == (IF known THEN <<>> ELSE t.bp)
                 \o (IF t.type = "init" THEN t.bp ELSE <<>>)
      child == t.bp # <<>> /\ d \in {t.bp[1].b, t.bp[1].c}
  IN /\ stage' = IF child THEN "abort" ELSE stage      \* "parent eq child"
     /\ states' = IF t.bp = <<>> \/ child THEN states
                  ELSE [states EXCEPT ![d].bp = @ \o new]
     /\ UNCHANGED <<chart, nlist>>

Store(t) ==
  LET id == Len(states) + 1
  IN /\ states' = Append(states, t)
     /\ chart' = [chart EXCEPT ![<<t.i, t.j>>] = HeapInsert(@, id, t)]
     /\ nlist' = Append(nlist, id)
     /\ UNCHANGED stage

\* Fault: states that pursue different goals are never merged.
CheckHeapPerGoal(t) ==
  LET cell == CellOf(t.i, t.j)
  IN FirstOf(cell, {p \in DOMAIN cell : states[cell[p]].g = t.g /\ AddEq(states[cell[p]], t)})

\* hp_check_heap: the first state that makes t superfluous.
CheckHeap(t) ==
  LET cell == CellOf(t.i, t.j)
  IN FirstOf(cell, {p \in DOMAIN cell : AddEq(states[cell[p]], t)})

hparse_add(t) ==
  \/ Drop(t)
  \/ ~OutOfGoal(t) /\ CheckHeap(t) # 0 /\ Merge(CheckHeap(t), t)
  \/ ~OutOfGoal(t) /\ CheckHeap(t) = 0 /\ Store(t)

\* The next call of hparse_add of the handler that is under way.
Add ==
  /\ stage \notin {"done", "abort"}
  /\ \E r \in todo :
       /\ \A q \in todo \ {r} : Before(r.at, q.at)
       /\ hparse_add(r.t)
       /\ todo' = todo \ {r}
  /\ UNCHANGED <<hand, plist, idx>>
-----------------------------------------------------------------------------
(* hparse_init_head and the predictors it calls.                           *)

\* hparse_init_anchor: every word of the span that can anchor the leaf.
InitAnchor(p, node) ==
  LET s == states[p]
  IN {Call(<<k, 0, 0, 0>>,
           Item(node, p, "bot", k, k + 1, ef, ef, <<k>>, 0, 0)) :
        k \in {k \in s.i .. (s.j - 1) : <<k, node>> \in hand.lexed}}

\* hparse_init_epsilon.
InitEpsilon(p, node) ==
  LET s == states[p]
  IN IF s.i # s.j THEN {}
     ELSE {Call(<<0, 0, 0, 0>>, Item(node, p, "top", s.i, s.i, ef, ef, <<>>, 0, 0))}

\* The spans hparse_init_subst visits.  When the subtree is just the
\* substitution node, the loops are left at the first span that shares
\* neither end with the prediction.
SubstSpans(s, node) ==
  {v \in (s.i .. s.j) \X (s.i .. s.j) :
     /\ v[1] <= v[2]
     /\ s.n = node => v[1] = s.i \/ v = <<s.i + 1, s.j>>
     /\ hand.pref.epsTrees \/ v[1] < v[2]}

\* hparse_init_subst.
InitSubst(p, node) ==
  LET s      == states[p]
      roots  == hand.inits[hand.label[node]]
      visits == {v \in (DOMAIN roots) \X (s.i .. s.j) \X (s.i .. s.j) :
                   <<v[2], v[3]>> \in SubstSpans(s, node)}
      done(v) == StateExists(v[2], v[3], roots[v[1]], ef, ef)
  IN {Call(<<v[1], v[2], -v[3], 0>>,
           IF done(v) # 0
           THEN Item(node, p, "top", v[2], v[3], ef, ef, <<>>, done(v), 0)
           ELSE Goal(node, p, v[2], v[3])) :
        v \in {u \in visits : done(u) # 0 \/ s.n # node}}
     \cup
     {Call(<<v[1], v[2], -v[3], 1>>,
           Predict(roots[v[1]], v[2], v[3], ef, ef, 0, 0)) :
        v \in {u \in visits : done(u) = 0}}

\* A predicted substitution node becomes its own goal (s->g = s) when some
\* tree it can be substituted with is not complete yet.
OwnGoal(p, node) ==
  /\ states[p].n = node
  /\ \E v \in SubstSpans(states[p], node) :
       \E k \in DOMAIN hand.inits[hand.label[node]] :
         StateExists(v[1], v[2], hand.inits[hand.label[node]][k], ef, ef) = 0

\* hparse_init_foot.
InitFoot(p, node) ==
  LET s == states[p]
  IN {Call(<<0, 0, 0, 0>>,
           Item(node, p, "bot", s.fl, s.fr, s.fl, s.fr, <<>>, 0, 0))}

HeadCalls(p) ==
  LET s  == states[p]
      hc == hand.head[s.n]
      kind == hand.kind[hc]
  IN CASE kind \in {"anchor", "terminal"} ->
            IF hand.pref.epsTrees /\ hc \in hand.eps
            THEN InitEpsilon(p, hc) ELSE InitAnchor(p, hc)
       [] kind = "eps"   -> InitEpsilon(p, IF hand.pref.epsAdjoin THEN hc ELSE s.n)
       [] kind = "subst" -> InitSubst(p, hc)
       [] kind = "foot"  -> InitFoot(p, hc)

\* The handler of the list's current state may run.
Current == idx \in DOMAIN plist /\ todo = {}

\* hparse_init_head: a predicted state starts its subtree at the headcorner
\* and turns into a goal.
InitHead ==
  /\ stage = "head" /\ Current
  /\ LET p  == plist[idx]
         hc == hand.head[states[p].n]
     IN IF states[p].type # "init"
        THEN UNCHANGED <<states, todo>>
        ELSE /\ todo' = HeadCalls(p)
             /\ states' = [states EXCEPT
                  ![p].type = "goal",
                  ![p].g = IF hand.kind[hc] = "subst" /\ OwnGoal(p, hc) THEN p ELSE @]
  /\ stage' = "move"
  /\ UNCHANGED <<hand, chart, plist, idx, nlist>>
-----------------------------------------------------------------------------
(* hparse_move_up and the four ways up.                                    *)

\* Fault: the node stays unfinished.
AdjoinNothingBelow(p) == {Call(<<0, 0, 0, 0>>, [states[p] EXCEPT !.bp = Ptrs(p, 0)])}

\* Null adjunction: the node is complete as it stands.
AdjoinNothing(p) ==
  LET s == states[p]
  IN {Call(<<0, 0, 0, 0>>,
           Item(s.n, s.g, "top", s.i, s.j, s.fl, s.fr, s.w, p, 0))}

\* The wrapping preferences: trees not tried at node n, and narrower spans.
WrapBarred(aux, n) ==
  \/ hand.pref.noLeftWrap /\ aux \in hand.leftaux /\ n \in hand.rightaux
  \/ hand.pref.noRightWrap /\ aux \in hand.rightaux /\ n \in hand.leftaux

\* Fault: auxiliary trees may only add words on the left.
AdjoinSpansLeft(s, aux) == ((states[s.g].i .. s.i) \X {s.j}) \ {<<s.i, s.j>>}

AdjoinSpans(s, aux) ==
  LET g     == states[s.g]
      end   == IF hand.pref.noLeftWrap /\ aux \in hand.leftaux THEN s.j ELSE g.j
      start == IF hand.pref.noRightWrap /\ aux \in hand.rightaux THEN s.i ELSE g.i
  IN ((start .. s.i) \X (s.j .. end)) \ {<<s.i, s.j>>}

\* Fault: the node is left open for more adjunctions.
AdjoinedBelow == "bot"

\* Where the item that results from an adjunction stands.
AdjoinedPos == IF hand.pref.multiple THEN "bot" ELSE "top"

AdjoinTrees(p) ==
  LET s      == states[p]
      auxs   == hand.auxs[hand.label[s.n]]
      visits == {v \in (DOMAIN auxs) \X (0 .. hand.last) \X (0 .. hand.last) :
                   /\ ~WrapBarred(auxs[v[1]], s.n)
                   /\ <<v[2], v[3]>> \in AdjoinSpans(s, auxs[v[1]])}
      done(v) == StateExists(v[2], v[3], auxs[v[1]], s.i, s.j)
  IN {Call(<<v[1], v[2], -v[3], 0>>,
           IF done(v) # 0
           THEN Item(s.n, s.g, AdjoinedPos, v[2], v[3], s.fl, s.fr, s.w, done(v), p)
           ELSE Predict(auxs[v[1]], v[2], v[3], s.i, s.j, 0, 0)) : v \in visits}

\* hparse_adjoin.
Adjoin(p) ==
  AdjoinNothing(p) \cup IF states[p].n \in hand.adjoin THEN AdjoinTrees(p) ELSE {}

\* Fault: the parent is taken for finished.
UnaryHeadTop(p) ==
  {Call(<<0, 0, 0, 0>>, [states[p] EXCEPT !.n = hand.up[@], !.bp = Ptrs(p, 0)])}

\* hparse_unary_head.
UnaryHead(p) ==
  LET s == states[p]
  IN {Call(<<0, 0, 0, 0>>,
           Item(hand.up[s.n], s.g, "bot", s.i, s.j, s.fl, s.fr, s.w, p, 0))}

EmptySubst(n) == ~hand.pref.epsTrees /\ hand.kind[hand.head[n]] = "subst"

\* hparse_left_head: the right sibling, from where the head ends.
LeftHead(p) ==
  LET s    == states[p]
      pt   == hand.up[s.n]
      r    == hand.sibling[s.n]
      end  == IF hand.kind[hand.head[r]] = "eps" THEN s.j + 1 ELSE states[s.g].j
      ends == {k \in s.j .. end : EmptySubst(r) => k # s.j}
      done(k) == StateExists(s.j, k, r, ef, ef)
  IN {Call(<<-k, 0, 0, 0>>,
           IF done(k) # 0
           THEN Item(pt, s.g, "bot", s.i, k, s.fl, s.fr,
                     s.w \o states[done(k)].w, p, done(k))
           ELSE Predict(r, s.j, k, ef, ef, 0, p)) : k \in ends}

\* hparse_right_head: the left sibling, up to where the head starts.
RightHead(p) ==
  LET s      == states[p]
      pt     == hand.up[s.n]
      l      == hand.sibling[s.n]
      start  == IF hand.kind[hand.head[l]] = "eps" THEN s.i ELSE states[s.g].i
      starts == {k \in start .. s.i : EmptySubst(l) => k # s.i}
      done(k) == StateExists(k, s.i, l, ef, ef)
  IN {Call(<<k, 0, 0, 0>>,
           IF done(k) # 0
           THEN Item(pt, s.g, "bot", k, s.j, s.fl, s.fr,
                     states[done(k)].w \o s.w, done(k), p)
           ELSE Predict(l, k, s.i, ef, ef, p, 0)) : k \in starts}

\* An item below the top of the subtree its goal asks for.
MayMoveUp(s) == s.type = "item" /\ s.g # 0 /\ ~(s.pos = "top" /\ s.n = states[s.g].n)

MoveUpCalls(p) ==
  CASE states[p].pos = "bot"                  -> Adjoin(p)
    [] OTHER ->
         CASE hand.side[states[p].n] = "only"  -> UnaryHead(p)
           [] hand.side[states[p].n] = "left"  -> LeftHead(p)
           [] hand.side[states[p].n] = "right" -> RightHead(p)

MoveUp ==
  /\ stage = "move" /\ Current
  /\ todo' = IF MayMoveUp(states[plist[idx]]) THEN MoveUpCalls(plist[idx]) ELSE {}
  /\ stage' = "complete"
  /\ UNCHANGED <<hand, states, chart, plist, idx, nlist>>

-----------------------------------------------------------------------------
(* hparse_completer.                                                       *)

\* COMPL_INIT: the goals that substitute a tree with this root over its span
\* (hp_subst_state_exists).
CompleteInit(p) ==
  LET s    == states[p]
      cell == CellOf(s.i, s.j)
      wait == {q \in DOMAIN cell :
                 LET b == states[cell[q]]
                 IN /\ hand.kind[b.n] = "subst" /\ hand.label[b.n] = hand.label[s.n]
                    /\ b.pos = "top" /\ b.type = "goal"}
  IN {Call(<<q, 0, 0, 0>>,
           Item(states[cell[q]].n, states[cell[q]].g, "top", s.i, s.j, ef, ef,
                <<>>, p, 0)) : q \in wait}

\* COMPL_AUX: the items the tree can be adjoined to, provided that its foot
\* has been placed over the same span (hp_adj_state_exists).
CompleteAux(p) ==
  LET s    == states[p]
      cell == CellOf(s.fl, s.fr)
      foot == \E q \in DOMAIN cell :
                LET b == states[cell[q]]
                IN /\ b.n = hand.foot[s.n] /\ b.pos = "bot" /\ b.type = "item"
                   /\ b.fl = s.fl /\ b.fr = s.fr
      base == {q \in DOMAIN cell :
                 LET b == states[cell[q]]
                 IN /\ b.n \in hand.adjoin /\ hand.label[b.n] = hand.label[s.n]
                    /\ b.pos = "bot" /\ b.type = "item"}
  IN IF ~foot THEN {}
     ELSE {LET b == states[cell[q]]
           IN Call(<<q, 0, 0, 0>>,
                   Item(b.n, b.g, AdjoinedPos, s.i, s.j, b.fl, b.fr, b.w, p, cell[q])) :
             q \in base}

\* COMPL_INTERNAL: the heads that asked for this sibling are on the back
\* pointers of its goals (hp_internal_goal_exists).
Asked(s) ==
  LET cell  == CellOf(s.i, s.j)
      goals == {q \in DOMAIN cell :
                  LET b == states[cell[q]]
                  IN b.n = s.n /\ b.pos = "top" /\ b.type = "goal"}
  IN UNION {{<<q, k>> : k \in DOMAIN states[cell[q]].bp} : q \in goals}

\* Fault: the parent pursues the sibling's goal instead of the head's.
CompleteLeftGoal(p) ==
  LET s   == states[p]
      head(v) == states[CellOf(s.i, s.j)[v[1]]].bp[v[2]].b
  IN {LET sib == states[head(v)]
      IN Call(<<v[1], v[2], 0, 0>>,
              Item(hand.up[s.n], s.g, "bot", s.i, sib.j, sib.fl, sib.fr,
                   s.w \o sib.w, p, head(v))) :
        v \in {u \in Asked(s) : head(u) # 0}}

CompleteLeft(p) ==
  LET s   == states[p]
      head(v) == states[CellOf(s.i, s.j)[v[1]]].bp[v[2]].b
  IN {LET sib == states[head(v)]
      IN Call(<<v[1], v[2], 0, 0>>,
              Item(hand.up[s.n], sib.g, "bot", s.i, sib.j, sib.fl, sib.fr,
                   s.w \o sib.w, p, head(v))) :
        v \in {u \in Asked(s) : head(u) # 0}}

CompleteRight(p) ==
  LET s   == states[p]
      head(v) == states[CellOf(s.i, s.j)[v[1]]].bp[v[2]].c
  IN {LET sib == states[head(v)]
      IN Call(<<v[1], v[2], 0, 0>>,
              Item(hand.up[s.n], sib.g, "bot", sib.i, s.j, sib.fl, sib.fr,
                   sib.w \o s.w, head(v), p)) :
        v \in {u \in Asked(s) : head(u) # 0}}

\* A complete subtree, as its goal asked for it.
MayComplete(s) ==
  s.type = "item" /\ s.pos = "top" /\ s.g # 0 /\ s.n = states[s.g].n

CompleterCalls(p) ==
  LET n == states[p].n
  IN IF hand.up[n] = 0
     THEN IF hand.foot[n] = 0 THEN CompleteInit(p) ELSE CompleteAux(p)
     ELSE CASE hand.side[n] = "left"  -> CompleteLeft(p)
            [] hand.side[n] = "right" -> CompleteRight(p)

\* Fault: states with nothing to complete are not passed.
CompleterStuck ==
  /\ stage = "complete" /\ Current
  /\ MayComplete(states[plist[idx]]) => idx' = idx + 1
  /\ ~MayComplete(states[plist[idx]]) => idx' = idx
  /\ todo' = {} /\ stage' = "head"
  /\ UNCHANGED <<hand, states, chart, plist, nlist>>

Completer ==
  /\ stage = "complete" /\ Current
  /\ todo' = IF MayComplete(states[plist[idx]]) THEN CompleterCalls(plist[idx]) ELSE {}
  /\ stage' = "head"
  /\ idx' = idx + 1
  /\ UNCHANGED <<hand, states, chart, plist, nlist>>

-----------------------------------------------------------------------------
(* hparse.                                                                 *)

\* The trees that may analyse the whole sentence.
Seeds(h) ==
  UNION {{Call(<<a, k, 0, 0>>, Predict(h.inits[h.tops[a]][k], 0, h.last, ef, ef, 0, 0)) :
            k \in DOMAIN h.inits[h.tops[a]]} : a \in DOMAIN h.tops}

Init ==
  /\ hand \in Hands
  /\ states = <<>>
  /\ chart = [v \in Spans |-> <<>>]
  /\ plist = <<>> /\ idx = 1
  /\ nlist = <<>>
  /\ stage = "head"
  /\ todo = Seeds(hand)

\* Fault: the place in the list is not reset.
NextListKeepsPlace ==
  /\ stage = "head" /\ todo = {}
  /\ idx > Len(plist)
  /\ stage' = IF nlist = <<>> THEN "done" ELSE "head"
  /\ plist' = nlist /\ nlist' = <<>>
  /\ UNCHANGED <<hand, states, chart, idx, todo>>

\* Fault: the list for the next iteration is not reset.
NextListKeepsList ==
  /\ stage = "head" /\ todo = {}
  /\ idx > Len(plist)
  /\ stage' = IF nlist = <<>> THEN "done" ELSE "head"
  /\ plist' = nlist /\ idx' = 1
  /\ UNCHANGED <<hand, states, chart, nlist, todo>>

\* One iteration of the closure is over: ia_swap, or the end of hparse().
NextList ==
  /\ stage = "head" /\ todo = {}
  /\ idx > Len(plist)
  /\ stage' = IF nlist = <<>> THEN "done" ELSE "head"
  /\ plist' = nlist
  /\ nlist' = <<>>
  /\ idx' = 1
  /\ UNCHANGED <<hand, states, chart, todo>>

\* hparse_valid_start: the states that span the sentence and analyse it.
ValidStart(s) ==
  /\ s.pos = "top" /\ s.type = "item" /\ s.w # <<>>
  /\ hand.up[s.n] = 0 /\ hand.foot[s.n] = 0
  /\ \E k \in DOMAIN hand.tops : hand.tops[k] = hand.label[s.n]
  /\ s.i = 0 /\ s.j = hand.last

Next == Add \/ InitHead \/ MoveUp \/ Completer \/ NextList

Spec == Init /\ [][Next]_vars /\ WF_vars(Next)
=============================================================================
