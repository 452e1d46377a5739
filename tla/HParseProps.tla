---------------------------- MODULE HParseProps ----------------------------
(***************************************************************************)
(* What must hold of the chart parser: the invariants of its chart, its    *)
(* agenda and its goals, and that it performs deductions of TagDeduction   *)
(* and no others.                                                          *)
(***************************************************************************)
EXTENDS HParse

Ids == DOMAIN states
Refs == Ids \cup {0}
ItemIds == {p \in Ids : states[p].type = "item"}

\* The fact an item stands for.
Content(s) ==
  [n |-> s.n, pos |-> s.pos, i |-> s.i, j |-> s.j, fl |-> s.fl, fr |-> s.fr, w |-> s.w]

Proven == {Content(states[p]) : p \in ItemIds}

D == INSTANCE TagDeduction WITH facts <- Proven

\* Epsilon is the headcorner only where there is nothing else (cmp_headcorner).
ASSUME EpsilonAssumption ==
  \A h \in Hands : \A n \in h.nodes : h.kind[h.head[n]] = "eps" <=> D!AllEps(h, n)

\* W holds nodes that are never empty: below each of them is a leaf that stands
\* for words.  Every auxiliary tree has such a leaf.
NeverEmpty(h, W) ==
  /\ \A n \in W :
       IF h.kind[n] = "internal"
       THEN /\ h.kind[h.head[n]] # "eps"
            /\ \A m \in h.nodes :
                 h.up[m] = n => m \in W \/ (h.side[m] # "only" /\ h.sibling[m] \in W)
       ELSE \/ h.kind[n] \in {"anchor", "terminal"} /\ ~(h.pref.epsTrees /\ n \in h.eps)
            \/ h.kind[n] = "subst" /\ ~h.pref.epsTrees
  /\ \A n \in h.nodes : h.up[n] = 0 /\ h.foot[n] # 0 => n \in W

\* The hypothesis of Deduction_proofs.  With the preference for empty trees an
\* auxiliary tree may add no word, and is then adjoined to itself.
AuxLexical == \A h \in Hands : \E W \in SUBSET h.nodes : NeverEmpty(h, W)

-----------------------------------------------------------------------------
(* The parts of the inductive invariant.  They are stated for a state s of  *)
(* the array st with grammar h: for the states of the chart and, as well,   *)
(* for the arguments of the calls of hparse_add still to be made.           *)

\* Nodes, pointers and spans are within bounds, the span below the foot too,
\* where the foot is the headcorner.
Bounded(h, st, s) ==
  /\ s \in State
  /\ s.n \in h.nodes /\ s.g \in 0 .. Len(st)
  /\ s.i \in 0 .. h.last /\ s.j \in 0 .. h.last + 1
  /\ h.kind[h.head[s.n]] = "foot" => s.fl \in 0 .. h.last /\ s.fr \in 0 .. h.last
  /\ \A k \in DOMAIN s.bp : s.bp[k].b \in 0 .. Len(st) /\ s.bp[k].c \in 0 .. Len(st)

\* The goal g a state at node n works for: n is on the path of nodes that
\* share their headcorner and that ends at the goal's node.
Aims(h, st, g, n) ==
  g # 0 => /\ st[g].type # "item" /\ st[g].j <= h.last
           /\ SpineTop(h, st[g].n) /\ h.head[st[g].n] = h.head[n]

\* A prediction begins at the end of such a path.  Beyond the last word there
\* are only predictions of empty subtrees, which come to nothing.
Pursues(h, st, s) ==
  /\ Aims(h, st, s.g, s.n)
  /\ s.type # "item" /\ s.g = 0 => SpineTop(h, s.n)
  /\ s.j > h.last => s.type # "item" /\ s.g = 0 /\ h.kind[h.head[s.n]] = "eps"
  /\ s.type = "init" => s.g = 0

\* The head a that asked for its sibling n, being the child on the given side.
Asker(h, a, n, side) ==
  /\ a.type = "item" /\ a.pos = "top"
  /\ h.up[a.n] # 0 /\ h.head[h.up[a.n]] = h.head[a.n]
  /\ h.sibling[n] = a.n /\ h.side[a.n] = side

Asks(h, st, s) ==
  s.type # "item" =>
    \A k \in DOMAIN s.bp :
      LET q == s.bp[k]
      IN /\ q.b = 0 <=> q.c # 0
         /\ q.b # 0 => Asker(h, st[q.b], s.n, "right") /\ st[q.b].i = s.j
         /\ q.c # 0 => Asker(h, st[q.c], s.n, "left") /\ st[q.c].j = s.i

Sound(h, st, s) == Bounded(h, st, s) /\ Pursues(h, st, s) /\ Asks(h, st, s)

\* A stored state lies within its goal's span.
Within(st, s) == s.g # 0 => st[s.g].i <= s.i /\ s.j <= st[s.g].j

\* Nodes, pointers and spans are within bounds in everything the parser holds.
TypeOK ==
  /\ states \in Seq(State) /\ \A p \in Ids : Bounded(hand, states, states[p])
  /\ chart \in [Spans -> Seq(Ids)]
  /\ plist \in Seq(Ids) /\ nlist \in Seq(Ids) /\ idx \in 1 .. Len(plist) + 1
  /\ stage \in {"head", "move", "complete", "done", "abort"}
  /\ \A r \in todo : r.at \in Int \X Int \X Int \X Int /\ Bounded(hand, states, r.t)

\* The inductive invariant of HParse_proofs.
Inductive ==
  /\ TypeOK
  /\ \A p \in Ids : Sound(hand, states, states[p]) /\ Within(states, states[p])
  /\ \A r \in todo : Sound(hand, states, r.t)
  /\ \A v \in Spans : \A k \in DOMAIN chart[v] :
       states[chart[v][k]].i = v[1] /\ states[chart[v][k]].j = v[2]

\* The chart is an index of the states: every state is in the heap of its own
\* span, once, and in no other (hparse_add).  A heap keeps its items above its
\* goals and predictions although states are retyped while they lie in it.
ChartIndexesStates ==
  /\ \A v \in Spans : \A p \in DOMAIN chart[v] :
       /\ chart[v][p] \in Ids
       /\ <<states[chart[v][p]].i, states[chart[v][p]].j>> = v
  /\ \A s \in Ids :
       Cardinality({p \in DOMAIN chart[<<states[s].i, states[s].j>>] :
                      chart[<<states[s].i, states[s].j>>][p] = s}) = 1
  /\ \A v \in Spans : \A p \in DOMAIN chart[v] \ {1} :
       chart[v][p] \in ItemIds => chart[v][p \div 2] \in ItemIds

\* How many states of plist have been through hparse_init_head.
Expanded == IF stage \in {"move", "complete"} THEN idx ELSE idx - 1

\* Every state is on the lists once: the lists hold consecutive states up to
\* the newest, and what is still to be expanded has not been passed.  When
\* hparse() is done, nothing has been left unexpanded.
AgendaComplete ==
  LET agenda == plist \o nlist
      first  == Len(states) + 1 - Len(agenda)
  IN /\ \A k \in DOMAIN agenda : agenda[k] = first + k - 1
     /\ \A p \in Ids : states[p].type = "init" => p >= first + Expanded

\* The subtree a state works on ends at its goal: the goal's node is the
\* highest one with the state's headcorner, and the state lies within the
\* goal's span.  Hence hpstate_add_eq may compare the goals' spans only.
GoalsAreSpines ==
  \A p \in {q \in Ids : states[q].g # 0} :
    LET s == states[p]
        t == hand.up[states[s.g].n]
    IN /\ states[s.g].type # "item"
       /\ states[s.g].i <= s.i /\ s.j <= states[s.g].j
       /\ hand.head[states[s.g].n] = hand.head[s.n]
       /\ t # 0 => hand.head[t] # hand.head[s.n]

\* No state in the chart makes a younger one superfluous.  The exception is a
\* predicted substitution node: as its own goal (s->g = s) it no longer equals
\* a later prediction of the same node, which is stored again.
NothingSubsumed ==
  \A p, q \in Ids :
    p < q /\ AddEq(states[p], states[q]) => states[p].g = p /\ states[q].g = q

\* The derivation forest can be read off the back pointers: an item follows
\* by a rule from the items that each of its pointers names, or it is an axiom
\* and has none (hparse_print_forest_loop asserts that it meets items only).
BackpointersJustify ==
  \A p \in ItemIds :
    LET x == Content(states[p])
        one(b) == b \in ItemIds /\ x \in D!FromOne(hand, Content(states[b]))
        two(b, c) == /\ b \in ItemIds /\ c \in ItemIds
                     /\ x \in D!FromTwo(hand, Content(states[b]), Content(states[c]))
    IN /\ states[p].bp = <<>> => x \in D!Axioms(hand)
       /\ \A k \in DOMAIN states[p].bp :
            LET q == states[p].bp[k]
            IN IF q.c = 0 THEN one(q.b) ELSE two(q.b, q.c)

\* A head that asked for its sibling is a finished node next to the span it
\* asked for, on the side its pointer says.
AskersAdjoin ==
  \A p \in Ids \ ItemIds : \A k \in DOMAIN states[p].bp :
    LET s == states[p]
        q == s.bp[k]
    IN /\ q.b = 0 <=> q.c # 0
       /\ q.b # 0 => LET b == states[q.b]
                     IN /\ b.type = "item" /\ b.pos = "top" /\ b.i = s.j
                        /\ hand.sibling[s.n] = b.n /\ hand.side[b.n] = "right"
       /\ q.c # 0 => LET c == states[q.c]
                     IN /\ c.type = "item" /\ c.pos = "top" /\ c.j = s.i
                        /\ hand.sibling[s.n] = c.n /\ hand.side[c.n] = "left"

\* hp_combine_logprob never meets a state that is its own child.
NoAbort == stage # "abort"

\* The preferences against wrapping: no left auxiliary tree is adjoined onto a
\* right one, no right auxiliary tree onto a left one.
NoWrapping ==
  \A p \in ItemIds : \A k \in DOMAIN states[p].bp :
    LET q == states[p].bp[k]
    IN q.c # 0 /\ hand.foot[states[q.b].n] # 0 /\ hand.up[states[q.b].n] = 0
         => ~WrapBarred(states[q.b].n, states[p].n)

-----------------------------------------------------------------------------
(* What the parser overlooks nowhere: whatever its goals ask for, it finds  *)
(* when the rules of TagDeduction lead there from what it has found.        *)

Like(s, f) ==
  /\ s.n = f.n /\ s.pos = f.pos /\ s.i = f.i /\ s.j = f.j
  /\ s.fl = f.fl /\ s.fr = f.fr

Predictions == {p \in Ids \ ItemIds : states[p].g \in {0, p}}

\* Items that work for a goal.
Working == {p \in ItemIds : states[p].g # 0}

\* The goal q in st gives its items as much room as the goal g does.
AsWide(st, q, g) == q # 0 /\ st[q].i <= st[g].i /\ st[g].j <= st[q].j

\* An item for the fact f, whatever its anchors are, that goes on to work for
\* the goal g, or for one that leaves it more room.
FoundFor(f, g) == \E x \in Working : Like(states[x], f) /\ AsWide(states, states[x].g, g)

\* The finished subtree at n over a span: predicted, or found and at work.
Sought(n, i, j, fl, fr) ==
  \E d \in Predictions \cup Working : Like(states[d], D!Fact(n, "top", i, j, fl, fr, <<>>))

Start(n) ==
  IF hand.kind[hand.head[n]] = "eps" /\ ~hand.pref.epsAdjoin THEN n ELSE hand.head[n]

\* The axiom f is a leaf that the prediction s starts at: a word of its span,
\* nothing when the span is empty, or a foot over its gap.
Leaf(s, f) ==
  /\ f.n = Start(s.n) /\ s.i <= f.i /\ f.j <= s.j
  /\ CASE f.pos = "top" -> s.i = s.j
       [] f.fl # ef     -> f.fl = s.fl /\ f.fr = s.fr
       [] OTHER         -> ~(hand.pref.epsTrees /\ f.n \in hand.eps)

LeavesFound(p) == \A f \in D!Axioms(hand) : Leaf(states[p], f) => FoundFor(f, p)

\* The trees that fit the substitution node where a prediction starts.
TreesSubstituted(p) ==
  LET s == states[p]
      n == hand.head[s.n]
  IN hand.kind[n] = "subst" =>
       \A k \in DOMAIN hand.inits[hand.label[n]] : \A v \in SubstSpans(s, n) :
         LET r == hand.inits[hand.label[n]][k]
         IN /\ Sought(r, v[1], v[2], ef, ef)
            /\ \A q \in Working : \A f \in D!Substitution(hand, Content(states[q])) :
                 /\ states[q].n = r /\ f.n = n /\ <<f.i, f.j>> = v
                 /\ s.n = n => v = <<s.i, s.j>>
                 => FoundFor(f, p)

\* An item is finished without an adjunction and is all there is below its
\* parent.
MovedUp(p) ==
  \A f \in D!NullAdjunction(hand, Content(states[p])) \cup D!Unary(hand, Content(states[p])) :
    FoundFor(f, states[p].g)

\* The spans beside an item within its goal's, where its sibling may be.
SpansBeside(s, g) ==
  {v \in IF hand.side[s.n] = "left" THEN {s.j} \X (s.j .. g.j) ELSE (g.i .. s.i) \X {s.i} :
     /\ hand.kind[hand.head[hand.sibling[s.n]]] = "eps" => v[1] = v[2]
     /\ EmptySubst(hand.sibling[s.n]) => v[1] # v[2]}

\* A head and its sibling, whichever is found first.
SiblingsJoined(p) ==
  LET s == states[p]
  IN /\ s.pos = "top" /\ hand.side[s.n] # "only"
     /\ hand.head[hand.up[s.n]] = hand.head[s.n]
     => \A v \in SpansBeside(s, states[s.g]) :
          /\ Sought(hand.sibling[s.n], v[1], v[2], ef, ef)
          /\ \A q \in Working :
               \A f \in D!Binary(hand, Content(s), Content(states[q]))
                          \cup D!Binary(hand, Content(states[q]), Content(s)) :
                 <<states[q].i, states[q].j>> = v => FoundFor(f, s.g)

\* The auxiliary trees for the label of an item's node.
AuxTrees(s) ==
  LET auxs == hand.auxs[hand.label[s.n]] IN {auxs[k] : k \in DOMAIN auxs}

\* An auxiliary tree and the item it is adjoined to, whichever is found first.
TreesAdjoined(p) ==
  LET s == states[p]
  IN s.pos = "bot" /\ s.n \in hand.adjoin =>
       \A aux \in AuxTrees(s) :
         ~WrapBarred(aux, s.n) =>
           \A v \in AdjoinSpans(s, aux) :
             /\ Sought(aux, v[1], v[2], s.i, s.j)
             /\ \A q \in Working : \A f \in D!Adjunction(hand, Content(states[q]), Content(s)) :
                  states[q].n = aux /\ <<f.i, f.j>> = v => FoundFor(f, s.g)

\* The chart is closed when hparse() is done: nothing that a goal asks for and
\* that follows from items in the chart, in whatever order they were found, is
\* missing from it, but for other anchors.
ChartClosed ==
  stage = "done" =>
    /\ \A r \in Seeds(hand) : Sought(r.t.n, 0, hand.last, ef, ef)
    /\ \A p \in Predictions : LeavesFound(p) /\ TreesSubstituted(p)
    /\ \A p \in Working : MovedUp(p) /\ SiblingsJoined(p) /\ TreesAdjoined(p)

-----------------------------------------------------------------------------
\* The parser performs deductions, at most one at a time.
Implements == D!Spec

\* The closure is reached: hparse() returns, or stops in err_abort.
Terminates == <>(stage \in {"done", "abort"})
=============================================================================
