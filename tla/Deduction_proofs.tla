-------------------------- MODULE Deduction_proofs --------------------------
(***************************************************************************)
(* The chart parser performs deductions of TagDeduction and no others.     *)
(*                                                                         *)
(* The theorems are about grammars whose auxiliary trees are lexical       *)
(* (HParseProps!AuxLexical): an auxiliary tree with nothing but empty      *)
(* leaves and its foot can be adjoined to itself, and the parser stops at  *)
(* it (run HParseEmptyAdverb).                                             *)
(*                                                                         *)
(* The argument: an item's span contains its gap, and is wider than it at  *)
(* the nodes that are never empty (Fits).  Hence no rule concludes one of  *)
(* its premises, an adjunction is never over its own span, and what the    *)
(* parser does where nothing may be adjoined over epsilon, it drops again. *)
(* Every call of hparse_add is shown, handler by handler, to be on a state *)
(* that fits and that is the conclusion of a rule (Justified), unless it   *)
(* leaves the span of its goal.                                            *)
(***************************************************************************)
EXTENDS HParse_proofs

\* Nodes that are never empty, the roots of the auxiliary trees among them.
Wordy(h) == CHOOSE W \in SUBSET h.nodes : NeverEmpty(h, W)

Footed(h, n) == h.kind[h.head[n]] = "foot"
Traced(h, n) == ~h.pref.epsAdjoin /\ h.kind[h.head[n]] = "eps"

\* The span of an item contains its gap, and is wider at a node that is never
\* empty.
Covers(h, n, i, j, fl, fr) ==
  /\ i <= j
  /\ IF Footed(h, n) THEN i <= fl /\ fl <= fr /\ fr <= j ELSE fl = ef /\ fr = ef
  /\ n \in Wordy(h) => IF Footed(h, n) THEN i < fl \/ fr < j ELSE i < j

\* Where nothing may be adjoined over epsilon, a subtree of nothing else is
\* complete at once.
Whole(h, n, pos) == Traced(h, n) => pos = "top" /\ SpineTop(h, n)

\* A subtree with an empty headcorner, where nothing may be adjoined, has an
\* empty goal.
Confined(h, st, n, g) ==
  ~h.pref.epsAdjoin /\ D!EpsLeaf(h, h.head[n]) => g # 0 /\ st[g].i = st[g].j

\* A prediction or goal: the gap has an end after its start, a substitution
\* node is not empty without the preference for it, and where nothing may be
\* adjoined over epsilon the subtree is the largest empty one.
Awaits(h, n, i, j, fl, fr) ==
  /\ Footed(h, n) => fl <= fr
  /\ h.kind[n] = "subst" /\ ~h.pref.epsTrees => i < j
  /\ Traced(h, n) /\ h.up[n] # 0 => h.kind[h.head[h.up[n]]] # "eps"

Fits(h, st, s) ==
  IF s.type = "item"
  THEN /\ Covers(h, s.n, s.i, s.j, s.fl, s.fr) /\ Whole(h, s.n, s.pos)
       /\ Confined(h, st, s.n, s.g)
  ELSE Awaits(h, s.n, s.i, s.j, s.fl, s.fr)

\* The back pointer q leads to the premises of a rule with the conclusion x.
Premises(h, st, q, x) ==
  /\ q.b # 0 /\ st[q.b].type = "item"
  /\ IF q.c = 0 THEN x \in D!FromOne(h, Content(st[q.b]))
     ELSE /\ st[q.c].type = "item"
          /\ x \in D!FromTwo(h, Content(st[q.b]), Content(st[q.c]))

Justified(h, st, s) ==
  s.type = "item" =>
    /\ s.bp = <<>> => Content(s) \in D!Axioms(h)
    /\ \A k \in DOMAIN s.bp : Premises(h, st, s.bp[k], Content(s))

\* What the parser holds fits, and is justified unless hparse_add will drop it.
DeductionInv ==
  /\ Inv /\ NeverEmpty(hand, Wordy(hand)) /\ stage # "abort"
  /\ \A p \in Ids : Fits(hand, states, states[p]) /\ Justified(hand, states, states[p])
  /\ \A r \in todo : Fits(hand, states, r.t) /\ (OutOfGoal(r.t) \/ Justified(hand, states, r.t))

\* Nothing is lost when states are added, merged or retyped.
Keeps(st, new) ==
  /\ Len(st) <= Len(new)
  /\ \A p \in 1 .. Len(st) :
       /\ new[p].i = st[p].i /\ new[p].j = st[p].j
       /\ new[p].type = "item" <=> st[p].type = "item"
       /\ Content(new[p]) = Content(st[p])

\* What one call of hparse_add may be on.
Good(t) ==
  Fits(hand, states, t) /\ (OutOfGoal(t) \/ Justified(hand, states, t))

AllGood(S) == \A r \in S : Good(r.t)

\* The tables of the current grammar, node by node.
LEMMA NodeFacts ==
  ASSUME hand \in Hands, NEW n \in hand.nodes
  PROVE  /\ hand.head[n] \in hand.nodes /\ hand.head[hand.head[n]] = hand.head[n]
         /\ hand.kind[n] \in Kinds /\ hand.kind[hand.head[n]] \in Kinds \ {"internal"}
         /\ hand.kind[n] # "internal" => hand.head[n] = n
         /\ hand.up[n] \in hand.nodes \cup {0} /\ n # 0
         /\ hand.kind[n] = "subst" => hand.up[n] # 0
         /\ hand.up[n] # 0 => hand.up[n] # n /\ hand.kind[hand.up[n]] = "internal"
         /\ hand.up[n] # 0 /\ hand.side[n] = "only" => hand.head[hand.up[n]] = hand.head[n]
         /\ hand.side[n] \in {"only", "left", "right"}
         /\ hand.side[n] # "only" => hand.up[n] # 0
         /\ hand.up[n] # 0 /\ SpineTop(hand, n) => hand.kind[hand.head[n]] # "foot"
         /\ hand.up[n] = 0 => (hand.foot[n] # 0 <=> hand.kind[hand.head[n]] = "foot")
         /\ hand.up[n] = 0 /\ hand.foot[n] # 0 => hand.foot[n] = hand.head[n]
         /\ n \in hand.eps => hand.kind[n] \in {"anchor", "terminal"}
BY HandOK DEF TablesOK, TreesOK, HeadsOK

\* The two children of a node.
LEMMA SiblingFacts ==
  ASSUME hand \in Hands, NEW n \in hand.nodes, hand.side[n] # "only"
  PROVE  LET m == hand.sibling[n]
         IN /\ m \in hand.nodes /\ hand.sibling[m] = n /\ hand.up[m] = hand.up[n]
            /\ hand.side[n] = "left" => hand.side[m] = "right"
            /\ hand.side[n] = "right" => hand.side[m] = "left"
<1>1. /\ hand.up[n] # 0 /\ hand.sibling[n] \in hand.nodes \cup {0}
      /\ hand.side[n] \in {"left", "right"}
  BY HandOK DEF TablesOK, TreesOK
<1>2. LET m == hand.sibling[n]
      IN /\ m # 0 /\ hand.sibling[m] = n /\ hand.up[m] = hand.up[n]
         /\ hand.side[n] = "left" <=> hand.side[m] = "right"
         /\ hand.side[m] # "only"
  BY <1>1, HandOK DEF TreesOK
<1>3. hand.sibling[n] \in hand.nodes
  BY <1>1, <1>2
<1>4. hand.side[hand.sibling[n]] \in {"only", "left", "right"}
  BY <1>3, HandOK DEF TablesOK
<1> QED  BY <1>1, <1>2, <1>3, <1>4

\* The lists of trees.
LEMMA RootFacts ==
  ASSUME hand \in Hands, NEW l
  PROVE  /\ l \in DOMAIN hand.inits => \A k \in DOMAIN hand.inits[l] :
              LET r == hand.inits[l][k]
              IN /\ r \in hand.nodes /\ hand.up[r] = 0 /\ hand.foot[r] = 0
                 /\ hand.label[r] = l /\ hand.kind[hand.head[r]] # "foot"
         /\ l \in DOMAIN hand.auxs => \A k \in DOMAIN hand.auxs[l] :
              LET r == hand.auxs[l][k]
              IN /\ r \in hand.nodes /\ hand.up[r] = 0 /\ hand.foot[r] # 0
                 /\ hand.label[r] = l /\ hand.kind[hand.head[r]] = "foot"
<1>1. ASSUME l \in DOMAIN hand.inits, NEW k \in DOMAIN hand.inits[l]
      PROVE  LET r == hand.inits[l][k]
             IN /\ r \in hand.nodes /\ hand.up[r] = 0 /\ hand.foot[r] = 0
                /\ hand.label[r] = l /\ hand.kind[hand.head[r]] # "foot"
  <2>1. hand.inits[l][k] \in hand.nodes
    BY <1>1, RootIsTop
  <2>2. LET r == hand.inits[l][k]
        IN hand.up[r] = 0 /\ hand.foot[r] = 0 /\ hand.label[r] = l
    BY <1>1, HandOK DEF ListsOK
  <2> QED  BY <2>1, <2>2, NodeFacts
<1>2. ASSUME l \in DOMAIN hand.auxs, NEW k \in DOMAIN hand.auxs[l]
      PROVE  LET r == hand.auxs[l][k]
             IN /\ r \in hand.nodes /\ hand.up[r] = 0 /\ hand.foot[r] # 0
                /\ hand.label[r] = l /\ hand.kind[hand.head[r]] = "foot"
  <2>1. hand.auxs[l][k] \in hand.nodes
    BY <1>2, AuxIsTop
  <2>2. LET r == hand.auxs[l][k]
        IN hand.up[r] = 0 /\ hand.foot[r] # 0 /\ hand.label[r] = l
    BY <1>2, HandOK DEF ListsOK
  <2> QED  BY <2>1, <2>2, NodeFacts
<1> QED  BY <1>1, <1>2

\* An auxiliary tree is never empty, and a node that is never empty has a child
\* that is not, or is a leaf that stands for words.
LEMMA WordyFacts ==
  ASSUME hand \in Hands, NeverEmpty(hand, Wordy(hand))
  PROVE  /\ \A n \in hand.nodes : hand.up[n] = 0 /\ hand.foot[n] # 0 => n \in Wordy(hand)
         /\ \A n \in Wordy(hand) :
              /\ hand.kind[n] = "internal" => hand.kind[hand.head[n]] # "eps"
              /\ hand.kind[n] \notin {"foot", "eps"}
              /\ hand.kind[n] \in {"anchor", "terminal"} => ~(hand.pref.epsTrees /\ n \in hand.eps)
              /\ hand.kind[n] = "subst" => ~hand.pref.epsTrees
         /\ \A n \in hand.nodes : hand.up[n] # 0 /\ hand.up[n] \in Wordy(hand) =>
              n \in Wordy(hand) \/ (hand.side[n] # "only" /\ hand.sibling[n] \in Wordy(hand))
<1>1. \A n \in hand.nodes : hand.up[n] = 0 /\ hand.foot[n] # 0 => n \in Wordy(hand)
  BY DEF NeverEmpty
<1>2. ASSUME NEW n \in Wordy(hand)
      PROVE  /\ hand.kind[n] = "internal" => hand.kind[hand.head[n]] # "eps"
             /\ hand.kind[n] \notin {"foot", "eps"}
             /\ hand.kind[n] \in {"anchor", "terminal"} => ~(hand.pref.epsTrees /\ n \in hand.eps)
             /\ hand.kind[n] = "subst" => ~hand.pref.epsTrees
  BY DEF NeverEmpty
<1>3. ASSUME NEW n \in hand.nodes, hand.up[n] # 0, hand.up[n] \in Wordy(hand)
      PROVE  n \in Wordy(hand) \/ (hand.side[n] # "only" /\ hand.sibling[n] \in Wordy(hand))
  <2>1. hand.kind[hand.up[n]] = "internal"
    BY <1>3, NodeFacts
  <2> QED  BY <1>3, <2>1 DEF NeverEmpty
<1> QED  BY <1>1, <1>2, <1>3

-----------------------------------------------------------------------------
(* Spans of items.                                                         *)

\* A wider span covers the node too (adjunction).
LEMMA CoversWider ==
  ASSUME NEW h, NEW n, NEW i \in Int, NEW j \in Int, NEW fl \in Int, NEW fr \in Int,
         NEW k \in Int, NEW l \in Int, Covers(h, n, i, j, fl, fr), k <= i, j <= l
  PROVE  Covers(h, n, k, l, fl, fr)
BY DEF Covers

\* An only child covers what its parent covers.
LEMMA CoversUp ==
  ASSUME hand \in Hands, NeverEmpty(hand, Wordy(hand)),
         NEW n \in hand.nodes, hand.up[n] # 0, hand.side[n] = "only",
         NEW i, NEW j, NEW fl, NEW fr, Covers(hand, n, i, j, fl, fr)
  PROVE  Covers(hand, hand.up[n], i, j, fl, fr)
<1>1. hand.head[hand.up[n]] = hand.head[n]
  BY NodeFacts
<1>2. hand.up[n] \in Wordy(hand) => n \in Wordy(hand)
  BY WordyFacts
<1> QED  BY <1>1, <1>2 DEF Covers, Footed

\* Two children next to each other cover their parent; the head m among them
\* passes its gap on.
LEMMA CoversPair ==
  ASSUME hand \in Hands, NeverEmpty(hand, Wordy(hand)),
         NEW m \in hand.nodes, NEW r \in hand.nodes, hand.sibling[m] = r,
         hand.side[m] # "only", hand.up[m] # 0,
         hand.head[hand.up[m]] = hand.head[m], ~ Footed(hand, r),
         NEW i \in Int, NEW j \in Int, NEW k \in Int, NEW l \in Int,
         NEW fl \in Int, NEW fr \in Int,
         Covers(hand, m, i, j, fl, fr), Covers(hand, r, k, l, ef, ef),
         j = k \/ l = i
  PROVE  Covers(hand, hand.up[m], IF j = k THEN i ELSE k, IF j = k THEN l ELSE j, fl, fr)
<1>1. hand.up[m] \in Wordy(hand) => m \in Wordy(hand) \/ r \in Wordy(hand)
  BY WordyFacts
<1>2. Footed(hand, hand.up[m]) <=> Footed(hand, m)
  BY DEF Footed
<1>3. i <= j /\ k <= l
  BY DEF Covers
<1>4. r \in Wordy(hand) => k < l
  BY DEF Covers
<1>5. CASE Footed(hand, m)
  <2>1. /\ i <= fl /\ fl <= fr /\ fr <= j
        /\ m \in Wordy(hand) => i < fl \/ fr < j
    BY <1>5 DEF Covers
  <2> QED  BY <1>1, <1>2, <1>3, <1>4, <1>5, <2>1 DEF Covers
<1>6. CASE ~ Footed(hand, m)
  <2>1. /\ fl = ef /\ fr = ef
        /\ m \in Wordy(hand) => i < j
    BY <1>6 DEF Covers
  <2> QED  BY <1>1, <1>2, <1>3, <1>4, <1>6, <2>1 DEF Covers
<1> QED  BY <1>5, <1>6

-----------------------------------------------------------------------------
(* Items and their justifications.                                         *)

\* What an item stands for.
LEMMA ItemContent ==
  ASSUME NEW n, NEW g, NEW pos, NEW i, NEW j, NEW fl, NEW fr, NEW w, NEW b, NEW c
  PROVE  Content(Item(n, g, pos, i, j, fl, fr, w, b, c)) = D!Fact(n, pos, i, j, fl, fr, w)
BY DEF Content, Item, D!Fact

\* An item without back pointer is justified as an axiom.
LEMMA AxiomItem ==
  ASSUME NEW n, NEW g, NEW pos, NEW i, NEW j, NEW fl, NEW fr, NEW w,
         D!Fact(n, pos, i, j, fl, fr, w) \in D!Axioms(hand)
  PROVE  Justified(hand, states, Item(n, g, pos, i, j, fl, fr, w, 0, 0))
<1> DEFINE s == Item(n, g, pos, i, j, fl, fr, w, 0, 0)
<1>1. Content(s) = D!Fact(n, pos, i, j, fl, fr, w)
  BY ItemContent
<1>2. s.bp = <<>>
  BY DEF Item, Ptrs
<1> HIDE DEF s
<1>3. Justified(hand, states, s)
  BY <1>1, <1>2 DEF Justified
<1> QED  BY <1>3 DEF s

\* An item with a back pointer is justified by the items it points to.
LEMMA DerivedItem ==
  ASSUME NEW n, NEW g, NEW pos, NEW i, NEW j, NEW fl, NEW fr, NEW w, NEW b \in Nat, NEW c \in Nat,
         b # 0, states[b].type = "item", c # 0 => states[c].type = "item",
         c = 0 => D!Fact(n, pos, i, j, fl, fr, w) \in D!FromOne(hand, Content(states[b])),
         c # 0 => D!Fact(n, pos, i, j, fl, fr, w)
                    \in D!FromTwo(hand, Content(states[b]), Content(states[c]))
  PROVE  Justified(hand, states, Item(n, g, pos, i, j, fl, fr, w, b, c))
<1> DEFINE s == Item(n, g, pos, i, j, fl, fr, w, b, c)
           x == D!Fact(n, pos, i, j, fl, fr, w)
<1>1. Content(s) = x
  BY ItemContent
<1>2. s.bp = <<[b |-> b, c |-> c]>>
  BY DEF Item, Ptrs
<1> HIDE DEF s, x
<1>3. DOMAIN s.bp = {1} /\ s.bp # <<>> /\ s.bp[1].b = b /\ s.bp[1].c = c
  BY <1>2
<1>4. Premises(hand, states, s.bp[1], x)
  BY <1>3 DEF Premises, x
<1>5. Justified(hand, states, s)
  BY <1>1, <1>3, <1>4 DEF Justified
<1> QED  BY <1>5 DEF s

\* An item fits when its node, span and goal do.
LEMMA ItemFits ==
  ASSUME NEW n, NEW g, NEW pos, NEW i, NEW j, NEW fl, NEW fr, NEW w, NEW b, NEW c,
         Covers(hand, n, i, j, fl, fr), Whole(hand, n, pos), Confined(hand, states, n, g)
  PROVE  Fits(hand, states, Item(n, g, pos, i, j, fl, fr, w, b, c))
<1> DEFINE s == Item(n, g, pos, i, j, fl, fr, w, b, c)
<1>1. /\ s.n = n /\ s.g = g /\ s.pos = pos /\ s.i = i /\ s.j = j
      /\ s.fl = fl /\ s.fr = fr /\ s.type = "item"
  BY ItemFields
<1> HIDE DEF s
<1>2. Fits(hand, states, s)
  BY <1>1 DEF Fits
<1> QED  BY <1>2 DEF s

\* A prediction fits that awaits a span its node can have, and needs no
\* justification; nor does a goal.
LEMMA PredictGood ==
  ASSUME NEW n, NEW i, NEW j, NEW fl, NEW fr, NEW b, NEW c, Awaits(hand, n, i, j, fl, fr)
  PROVE  Good(Predict(n, i, j, fl, fr, b, c))
<1> DEFINE s == Predict(n, i, j, fl, fr, b, c)
<1>1. s.n = n /\ s.i = i /\ s.j = j /\ s.fl = fl /\ s.fr = fr /\ s.type # "item"
  BY PredictFields
<1> HIDE DEF s
<1>2. Good(s)
  BY <1>1 DEF Good, Fits, Justified
<1> QED  BY <1>2 DEF s

\* A goal fits where a prediction would.
LEMMA GoalGood ==
  ASSUME NEW n, NEW g, NEW i, NEW j, Awaits(hand, n, i, j, ef, ef)
  PROVE  Good(Goal(n, g, i, j))
<1> DEFINE s == Goal(n, g, i, j)
<1>1. s.n = n /\ s.i = i /\ s.j = j /\ s.fl = ef /\ s.fr = ef /\ s.type # "item"
  BY GoalFields
<1> HIDE DEF s
<1>2. Good(s)
  BY <1>1 DEF Good, Fits, Justified
<1> QED  BY <1>2 DEF s

-----------------------------------------------------------------------------
(* hparse_init_head.                                                       *)

\* What the invariant says of an item.
LEMMA ItemFacts ==
  ASSUME DeductionInv, NEW p \in ItemIds
  PROVE  LET s == states[p]
         IN /\ p \in Nat /\ p # 0 /\ s.type = "item"
            /\ s.n \in hand.nodes /\ s.i \in Int /\ s.j \in Int /\ s.fl \in Int /\ s.fr \in Int
            /\ Covers(hand, s.n, s.i, s.j, s.fl, s.fr) /\ Whole(hand, s.n, s.pos)
            /\ Confined(hand, states, s.n, s.g)
<1>1. Inv /\ p \in Ids /\ states[p].type = "item"
  BY DEF DeductionInv, ItemIds
<1>2. /\ p \in Nat /\ p # 0 /\ states[p].n \in hand.nodes
      /\ states[p].i \in 0 .. hand.last /\ states[p].j \in 0 .. hand.last + 1
      /\ states[p].fl \in Int /\ states[p].fr \in Int
  BY <1>1, StatesOK
<1>3. Fits(hand, states, states[p])
  BY <1>1 DEF DeductionInv
<1> QED  BY <1>1, <1>2, <1>3 DEF Fits

\* What it says of a prediction and of its headcorner.
LEMMA HeadFacts ==
  ASSUME DeductionInv, NEW p \in Ids, states[p].type = "init"
  PROVE  LET s == states[p]
             hc == hand.head[s.n]
         IN /\ hand \in Hands /\ p \in Nat /\ p # 0
            /\ s.n \in hand.nodes /\ SpineTop(hand, s.n)
            /\ hc \in hand.nodes /\ hand.head[hc] = hc
            /\ s.i \in 0 .. hand.last /\ s.j \in 0 .. hand.last + 1 /\ hand.last \in Nat
            /\ Awaits(hand, s.n, s.i, s.j, s.fl, s.fr)
<1>1. Inv /\ states[p].type # "item" /\ hand \in Hands
  BY DEF DeductionInv, Inv
<1>2. Sound(hand, states, states[p]) /\ p \in Nat /\ p # 0 /\ states[p].n \in hand.nodes
      /\ states[p].i \in 0 .. hand.last /\ states[p].j \in 0 .. hand.last + 1
  BY <1>1, StatesOK
<1>3. SpineTop(hand, states[p].n)
  BY <1>1, <1>2 DEF Sound, Pursues
<1>4. Fits(hand, states, states[p])
  BY DEF DeductionInv
<1> QED  BY <1>1, <1>2, <1>3, <1>4, NodeFacts, HandOK DEF Fits

\* A lexicalised anchor is an axiom.
LEMMA InitAnchorGood ==
  ASSUME DeductionInv, NEW p \in Ids, states[p].type = "init",
         hand.kind[hand.head[states[p].n]] \in {"anchor", "terminal"},
         ~ (hand.pref.epsTrees /\ hand.head[states[p].n] \in hand.eps)
  PROVE  AllGood(InitAnchor(p, hand.head[states[p].n]))
<1> DEFINE s == states[p]
           node == hand.head[s.n]
<1> SUFFICES ASSUME NEW k \in s.i .. (s.j - 1), <<k, node>> \in hand.lexed
             PROVE  Good(Call(<<k, 0, 0, 0>>,
                              Item(node, p, "bot", k, k + 1, ef, ef, <<k>>, 0, 0)).t)
  BY DEF AllGood, InitAnchor
<1>1. node \in hand.nodes /\ hand.head[node] = node /\ s.i \in Int /\ s.j \in Int
  BY HeadFacts
<1>2. k \in Int /\ hand.kind[node] # "foot" /\ hand.kind[node] # "eps"
  BY <1>1
<1>3. ~ (hand.pref.epsTrees /\ node \in hand.eps)
  OBVIOUS
<1> HIDE DEF node
<1>4. Covers(hand, node, k, k + 1, ef, ef)
  BY <1>1, <1>2 DEF Covers, Footed
<1>5. Whole(hand, node, "bot") /\ Confined(hand, states, node, p)
  BY <1>1, <1>2, <1>3 DEF Whole, Traced, Confined, D!EpsLeaf
<1>6. D!Fact(node, "bot", k, k + 1, ef, ef, <<k>>) \in D!Axioms(hand)
  <2> DEFINE v == <<k, node>>
  <2>1. v \in hand.lexed /\ v[1] = k /\ v[2] = node
    OBVIOUS
  <2> HIDE DEF v
  <2>2. D!Fact(v[2], "bot", v[1], v[1] + 1, D!noFoot, D!noFoot, <<v[1]>>) \in D!Axioms(hand)
    BY <2>1 DEF D!Axioms
  <2> QED  BY <2>1, <2>2 DEF D!noFoot, ef
<1>7. Good(Item(node, p, "bot", k, k + 1, ef, ef, <<k>>, 0, 0))
  BY <1>4, <1>5, <1>6, ItemFits, AxiomItem DEF Good
<1> QED  BY <1>7, CallFields

\* So is an empty leaf or subtree.
LEMMA InitEpsilonGood ==
  ASSUME DeductionInv, NEW p \in Ids, states[p].type = "init", NEW node \in hand.nodes,
         ~ Footed(hand, node), node \notin Wordy(hand), Whole(hand, node, "top"),
         D!EmptyAt(hand, node)
  PROVE  AllGood(InitEpsilon(p, node))
<1> DEFINE s == states[p]
<1> SUFFICES ASSUME s.i = s.j
             PROVE  Good(Call(<<0, 0, 0, 0>>,
                              Item(node, p, "top", s.i, s.i, ef, ef, <<>>, 0, 0)).t)
  BY DEF AllGood, InitEpsilon
<1>1. p # 0 /\ s.i \in 0 .. hand.last /\ hand.last \in Nat
  BY HeadFacts
<1>2. s.i \in Int /\ states[p].i = states[p].j
  BY <1>1
<1> HIDE DEF s
<1>3. Covers(hand, node, s.i, s.i, ef, ef)
  BY <1>2 DEF Covers
<1>4. Confined(hand, states, node, p)
  BY <1>1, <1>2 DEF Confined
<1>5. D!Fact(node, "top", s.i, s.i, ef, ef, <<>>) \in D!Axioms(hand)
  <2>1. D!Fact(node, "top", s.i, s.i, D!noFoot, D!noFoot, <<>>) \in D!Axioms(hand)
    BY <1>1 DEF D!Axioms, D!Places
  <2> QED  BY <2>1 DEF D!noFoot, ef
<1>6. Good(Item(node, p, "top", s.i, s.i, ef, ef, <<>>, 0, 0))
  BY <1>3, <1>4, <1>5, ItemFits, AxiomItem DEF Good
<1> QED  BY <1>6, CallFields

\* Which leaves and subtrees hparse_init_head takes for empty.
LEMMA EmptyLeaf ==
  ASSUME DeductionInv, NEW p \in Ids, states[p].type = "init",
         NEW hc, hc = hand.head[states[p].n],
         \/ hand.kind[hc] \in {"anchor", "terminal"} /\ hand.pref.epsTrees /\ hc \in hand.eps
         \/ hand.kind[hc] = "eps" /\ hand.pref.epsAdjoin
  PROVE  /\ hc \in hand.nodes /\ ~ Footed(hand, hc) /\ hc \notin Wordy(hand)
         /\ Whole(hand, hc, "top") /\ D!EmptyAt(hand, hc)
<1>1. hand \in Hands /\ hc \in hand.nodes /\ hand.head[hc] = hc /\ NeverEmpty(hand, Wordy(hand))
  BY HeadFacts DEF DeductionInv
<1>2. hc \notin Wordy(hand)
  BY <1>1, WordyFacts
<1>3. ~ Footed(hand, hc) /\ Whole(hand, hc, "top") /\ D!EmptyAt(hand, hc)
  BY <1>1 DEF Footed, Whole, Traced, D!EmptyAt
<1> QED  BY <1>1, <1>2, <1>3

\* The largest subtree of empty leaves.
LEMMA EmptySubtree ==
  ASSUME DeductionInv, NEW p \in Ids, states[p].type = "init",
         hand.kind[hand.head[states[p].n]] = "eps", ~ hand.pref.epsAdjoin
  PROVE  LET n == states[p].n
         IN /\ n \in hand.nodes /\ ~ Footed(hand, n) /\ n \notin Wordy(hand)
            /\ Whole(hand, n, "top") /\ D!EmptyAt(hand, n)
<1> DEFINE n == states[p].n
<1>1. /\ hand \in Hands /\ n \in hand.nodes /\ SpineTop(hand, n)
      /\ Awaits(hand, n, states[p].i, states[p].j, states[p].fl, states[p].fr)
      /\ NeverEmpty(hand, Wordy(hand))
  BY HeadFacts DEF DeductionInv
<1>2. hand.kind[hand.head[n]] = "eps"
  OBVIOUS
<1> HIDE DEF n
<1>3. ~ Footed(hand, n) /\ Whole(hand, n, "top")
  BY <1>1, <1>2 DEF Footed, Whole
<1>4. n \notin Wordy(hand)
  <2>1. hand.kind[n] # "internal" => hand.kind[n] = "eps"
    BY <1>1, <1>2, NodeFacts
  <2> QED  BY <1>1, <1>2, <2>1, WordyFacts
<1>5. D!AllEps(hand, n)
  BY <1>1, <1>2, EpsilonAssumption
<1>6. hand.up[n] # 0 => ~ D!AllEps(hand, hand.up[n])
  <2>1. hand.up[n] # 0 => hand.up[n] \in hand.nodes /\ hand.kind[hand.head[hand.up[n]]] # "eps"
    BY <1>1, <1>2, NodeFacts DEF Awaits, Traced
  <2> QED  BY <1>1, <2>1, EpsilonAssumption
<1>7. D!EmptyAt(hand, n)
  BY <1>5, <1>6 DEF D!EmptyAt
<1> QED  BY <1>1, <1>3, <1>4, <1>7 DEF n

\* A foot is an axiom over any gap.
LEMMA InitFootGood ==
  ASSUME DeductionInv, NEW p \in Ids, states[p].type = "init",
         hand.kind[hand.head[states[p].n]] = "foot"
  PROVE  AllGood(InitFoot(p, hand.head[states[p].n]))
<1> DEFINE s == states[p]
           node == hand.head[s.n]
<1>1. /\ hand \in Hands /\ node \in hand.nodes /\ hand.head[node] = node
      /\ hand.kind[node] = "foot" /\ s.fl <= s.fr
  BY HeadFacts DEF Awaits, Footed
<1>2. /\ s.fl \in 0 .. hand.last /\ s.fr \in 0 .. hand.last /\ hand.last \in Nat
      /\ s.fl \in Int /\ s.fr \in Int
  BY StatesOK, HandOK DEF FootPlaced, Inv, DeductionInv
<1>3. node \notin Wordy(hand) /\ node \notin hand.eps
  BY <1>1, WordyFacts, NodeFacts DEF DeductionInv
<1>4. InitFoot(p, node) = {Call(<<0, 0, 0, 0>>,
                                Item(node, p, "bot", s.fl, s.fr, s.fl, s.fr, <<>>, 0, 0))}
  BY DEF InitFoot
<1> HIDE DEF s, node
<1>5. Covers(hand, node, s.fl, s.fr, s.fl, s.fr)
  BY <1>1, <1>2, <1>3 DEF Covers, Footed
<1>6. Whole(hand, node, "bot") /\ Confined(hand, states, node, p)
  BY <1>1, <1>3 DEF Whole, Traced, Confined, D!EpsLeaf
<1>7. D!Fact(node, "bot", s.fl, s.fr, s.fl, s.fr, <<>>) \in D!Axioms(hand)
  <2> DEFINE v == <<s.fl, s.fr>>
  <2>1. v \in {u \in D!Places(hand) \X D!Places(hand) : u[1] <= u[2]} /\ v[1] = s.fl /\ v[2] = s.fr
    BY <1>1, <1>2 DEF D!Places
  <2> HIDE DEF v
  <2>2. D!Fact(node, "bot", v[1], v[2], v[1], v[2], <<>>) \in D!Axioms(hand)
    BY <1>1, <2>1 DEF D!Axioms
  <2> QED  BY <2>1, <2>2
<1>8. Good(Item(node, p, "bot", s.fl, s.fr, s.fl, s.fr, <<>>, 0, 0))
  BY <1>5, <1>6, <1>7, ItemFits, AxiomItem DEF Good
<1> QED  BY <1>4, <1>8, CallFields DEF AllGood, node, s

\* The node of a substitution, an initial tree and what they await.
LEMMA SubstFacts ==
  ASSUME DeductionInv, NEW p \in Ids, states[p].type = "init",
         hand.kind[hand.head[states[p].n]] = "subst"
  PROVE  LET hc == hand.head[states[p].n]
             roots == hand.inits[hand.label[hc]]
         IN /\ hc \in hand.nodes /\ ~ Footed(hand, hc)
            /\ hc \in Wordy(hand) => ~ hand.pref.epsTrees
            /\ \A pos : Whole(hand, hc, pos)
            /\ Confined(hand, states, hc, p) /\ ~ Traced(hand, hc)
            /\ \A k \in DOMAIN roots :
                 /\ roots[k] \in hand.nodes /\ hand.up[roots[k]] = 0 /\ hand.foot[roots[k]] = 0
                 /\ hand.label[roots[k]] = hand.label[hc]
                 /\ ~ Footed(hand, roots[k]) /\ hand.kind[roots[k]] # "subst"
<1> DEFINE hc == hand.head[states[p].n]
<1>1. hand \in Hands /\ hc \in hand.nodes /\ hand.head[hc] = hc /\ NeverEmpty(hand, Wordy(hand))
  BY HeadFacts DEF DeductionInv
<1>2. hand.kind[hc] = "subst"
  OBVIOUS
<1> HIDE DEF hc
<1>3. hc \in Wordy(hand) => ~ hand.pref.epsTrees
  BY <1>1, <1>2, WordyFacts
<1>4. ~ Footed(hand, hc) /\ ~ Traced(hand, hc)
  BY <1>1, <1>2 DEF Footed, Traced
<1>5. hc \notin hand.eps
  BY <1>1, <1>2, NodeFacts
<1>6. (\A pos : Whole(hand, hc, pos)) /\ Confined(hand, states, hc, p)
  BY <1>1, <1>2, <1>4, <1>5 DEF Whole, Confined, D!EpsLeaf
<1> DEFINE roots == hand.inits[hand.label[hc]]
<1>7. hand.label[hc] \in DOMAIN hand.inits
  BY <1>1, HandOK DEF ListsOK
<1>8. ASSUME NEW k \in DOMAIN roots
      PROVE  /\ roots[k] \in hand.nodes /\ hand.up[roots[k]] = 0 /\ hand.foot[roots[k]] = 0
             /\ hand.label[roots[k]] = hand.label[hc]
             /\ ~ Footed(hand, roots[k]) /\ hand.kind[roots[k]] # "subst"
  <2>1. /\ roots[k] \in hand.nodes /\ hand.up[roots[k]] = 0 /\ hand.foot[roots[k]] = 0
        /\ hand.label[roots[k]] = hand.label[hc] /\ hand.kind[hand.head[roots[k]]] # "foot"
    BY <1>1, <1>7, RootFacts
  <2> QED  BY <1>1, <2>1, NodeFacts DEF Footed
<1> QED  BY <1>1, <1>3, <1>4, <1>6, <1>8 DEF hc

\* A complete initial tree is substituted.
LEMMA SubstitutionStep ==
  ASSUME NEW m \in hand.nodes, hand.kind[m] = "subst", NEW d \in ItemIds, d # 0, d \in Nat,
         states[d].pos = "top", hand.up[states[d].n] = 0, hand.foot[states[d].n] = 0,
         hand.label[m] = hand.label[states[d].n],
         states[d].i < states[d].j \/ hand.pref.epsTrees,
         NEW g
  PROVE  Justified(hand, states,
           Item(m, g, "top", states[d].i, states[d].j, ef, ef, <<>>, d, 0))
<1> DEFINE x == Content(states[d])
<1>1. /\ x.pos = "top" /\ x.n = states[d].n /\ x.i = states[d].i /\ x.j = states[d].j
      /\ states[d].type = "item"
  BY DEF Content, ItemIds
<1> HIDE DEF x
<1>2. D!Fact(m, "top", x.i, x.j, D!noFoot, D!noFoot, <<>>) \in D!Substitution(hand, x)
  BY <1>1 DEF D!Substitution, D!IsRoot
<1>3. D!Fact(m, "top", states[d].i, states[d].j, ef, ef, <<>>) \in D!FromOne(hand, x)
  BY <1>1, <1>2 DEF D!FromOne, D!noFoot, ef
<1> QED  BY <1>1, <1>3, DerivedItem DEF x

\* hparse_init_subst: a tree that is complete is substituted, one that is not
\* is predicted, and the substitution node waits for it.
LEMMA InitSubstGood ==
  ASSUME DeductionInv, NEW p \in Ids, states[p].type = "init",
         hand.kind[hand.head[states[p].n]] = "subst"
  PROVE  AllGood(InitSubst(p, hand.head[states[p].n]))
<1> DEFINE s == states[p]
           node == hand.head[s.n]
           roots == hand.inits[hand.label[node]]
           visits == {v \in (DOMAIN roots) \X (s.i .. s.j) \X (s.i .. s.j) :
                        <<v[2], v[3]>> \in SubstSpans(s, node)}
           done(v) == StateExists(v[2], v[3], roots[v[1]], ef, ef)
           found(v) == Item(node, p, "top", v[2], v[3], ef, ef, <<>>, done(v), 0)
           goal(v) == Goal(node, p, v[2], v[3])
           pred(v) == Predict(roots[v[1]], v[2], v[3], ef, ef, 0, 0)
<1>1. /\ node \in hand.nodes /\ ~ Footed(hand, node) /\ hand.kind[node] = "subst"
      /\ node \in Wordy(hand) => ~ hand.pref.epsTrees
      /\ \A pos : Whole(hand, node, pos)
      /\ Confined(hand, states, node, p) /\ ~ Traced(hand, node)
      /\ \A k \in DOMAIN roots :
           /\ roots[k] \in hand.nodes /\ hand.up[roots[k]] = 0 /\ hand.foot[roots[k]] = 0
           /\ hand.label[roots[k]] = hand.label[node]
           /\ ~ Footed(hand, roots[k]) /\ hand.kind[roots[k]] # "subst"
  BY SubstFacts
<1>2. s.i \in 0 .. hand.last /\ s.j \in 0 .. hand.last + 1 /\ hand.last \in Nat /\ Inv
  BY HeadFacts DEF DeductionInv
<1> HIDE DEF node, roots, s
<1>3. ASSUME NEW v \in visits
      PROVE  /\ v[1] \in DOMAIN roots /\ v[2] \in 0 .. hand.last + 1 /\ v[3] \in 0 .. hand.last + 1
             /\ ((v[2] <= v[3] /\ hand.pref.epsTrees) \/ v[2] < v[3])
             /\ v[2] \in Int /\ v[3] \in Int
  <2>1. v[1] \in DOMAIN roots /\ v[2] \in s.i .. s.j /\ v[3] \in s.i .. s.j
    OBVIOUS
  <2>2. v[2] <= v[3] /\ (hand.pref.epsTrees \/ v[2] < v[3])
    BY DEF SubstSpans
  <2> HIDE DEF visits
  <2> QED  BY <1>2, <2>1, <2>2
<1> HIDE DEF visits
<1>4. ASSUME NEW v \in visits, done(v) # 0 PROVE Good(found(v))
  <2> DEFINE d == done(v)
  <2>1. /\ d \in Ids /\ states[d].type = "item" /\ states[d].pos = "top"
        /\ states[d].n = roots[v[1]] /\ states[d].i = v[2] /\ states[d].j = v[3]
    BY <1>2, <1>3, <1>4, StateExistsIn
  <2>2. found(v) = Item(node, p, "top", states[d].i, states[d].j, ef, ef, <<>>, d, 0)
    BY <2>1
  <2> HIDE DEF done
  <2> HIDE DEF d
  <2>3. Covers(hand, node, v[2], v[3], ef, ef)
    BY <1>1, <1>3 DEF Covers
  <2>4. d \in ItemIds /\ d # 0 /\ d \in Nat
    BY <1>2, <2>1, StatesOK DEF ItemIds
  <2>5. states[d].i < states[d].j \/ hand.pref.epsTrees
    BY <1>3, <2>1
  <2>6. Justified(hand, states, Item(node, p, "top", states[d].i, states[d].j, ef, ef, <<>>, d, 0))
    BY <1>1, <1>3, <2>1, <2>4, <2>5, SubstitutionStep
  <2>7. Fits(hand, states, Item(node, p, "top", states[d].i, states[d].j, ef, ef, <<>>, d, 0))
    BY <1>1, <2>1, <2>3, ItemFits
  <2> HIDE DEF found
  <2> QED  BY <2>2, <2>6, <2>7 DEF Good
<1>5. ASSUME NEW v \in visits PROVE Good(goal(v))
  <2>1. Awaits(hand, node, v[2], v[3], ef, ef)
    BY <1>1, <1>3 DEF Awaits
  <2> QED  BY <2>1, GoalGood
<1>6. ASSUME NEW v \in visits PROVE Good(pred(v))
  <2>1. Awaits(hand, roots[v[1]], v[2], v[3], ef, ef)
    BY <1>1, <1>3 DEF Awaits
  <2> QED  BY <2>1, PredictGood
<1> HIDE DEF done, found, goal, pred
<1>7. InitSubst(p, node) =
        {Call(<<v[1], v[2], -v[3], 0>>, IF done(v) # 0 THEN found(v) ELSE goal(v)) :
           v \in {u \in visits : done(u) # 0 \/ s.n # node}}
        \cup {Call(<<v[1], v[2], -v[3], 1>>, pred(v)) : v \in {u \in visits : done(u) = 0}}
  BY DEF InitSubst, visits, done, found, goal, pred, roots, s
<1>8. ASSUME NEW r \in InitSubst(p, node) PROVE Good(r.t)
  <2>1. CASE \E v \in visits :
               r = Call(<<v[1], v[2], -v[3], 0>>, IF done(v) # 0 THEN found(v) ELSE goal(v))
    <3> PICK v \in visits :
          r = Call(<<v[1], v[2], -v[3], 0>>, IF done(v) # 0 THEN found(v) ELSE goal(v))
      BY <2>1
    <3>1. r.t = IF done(v) # 0 THEN found(v) ELSE goal(v)
      BY CallFields
    <3> QED  BY <1>4, <1>5, <3>1
  <2>2. CASE \E v \in visits : r = Call(<<v[1], v[2], -v[3], 1>>, pred(v))
    <3> PICK v \in visits : r = Call(<<v[1], v[2], -v[3], 1>>, pred(v))
      BY <2>2
    <3>1. r.t = pred(v)
      BY CallFields
    <3> QED  BY <1>6, <3>1
  <2> QED  BY <1>7, <2>1, <2>2
<1> QED  BY <1>8 DEF AllGood, node, s

\* Every call of hparse_init_head is on a good state.
LEMMA HeadCallsGood ==
  ASSUME DeductionInv, NEW p \in Ids, states[p].type = "init"
  PROVE  AllGood(HeadCalls(p))
<1> DEFINE n == states[p].n
           hc == hand.head[n]
<1>1. hc \in hand.nodes /\ hand.kind[hc] \in Kinds \ {"internal"}
  BY HeadFacts, NodeFacts
<1>2. CASE hand.kind[hc] \in {"anchor", "terminal"}
  <2>1. HeadCalls(p) = IF hand.pref.epsTrees /\ hc \in hand.eps
                       THEN InitEpsilon(p, hc) ELSE InitAnchor(p, hc)
    BY <1>2 DEF HeadCalls
  <2>2. CASE hand.pref.epsTrees /\ hc \in hand.eps
    <3>1. /\ hc \in hand.nodes /\ ~ Footed(hand, hc) /\ hc \notin Wordy(hand)
          /\ Whole(hand, hc, "top") /\ D!EmptyAt(hand, hc)
      BY <1>2, <2>2, EmptyLeaf
    <3> QED  BY <2>1, <2>2, <3>1, InitEpsilonGood
  <2>3. CASE ~ (hand.pref.epsTrees /\ hc \in hand.eps)
    BY <1>2, <2>1, <2>3, InitAnchorGood
  <2> QED  BY <2>2, <2>3
<1>3. CASE hand.kind[hc] = "eps"
  <2>1. HeadCalls(p) = InitEpsilon(p, IF hand.pref.epsAdjoin THEN hc ELSE n)
    BY <1>3 DEF HeadCalls
  <2>2. CASE hand.pref.epsAdjoin
    <3>1. /\ hc \in hand.nodes /\ ~ Footed(hand, hc) /\ hc \notin Wordy(hand)
          /\ Whole(hand, hc, "top") /\ D!EmptyAt(hand, hc)
      BY <1>3, <2>2, EmptyLeaf
    <3> QED  BY <2>1, <2>2, <3>1, InitEpsilonGood
  <2>3. CASE ~ hand.pref.epsAdjoin
    <3>1. /\ n \in hand.nodes /\ ~ Footed(hand, n) /\ n \notin Wordy(hand)
          /\ Whole(hand, n, "top") /\ D!EmptyAt(hand, n)
      BY <1>3, <2>3, EmptySubtree
    <3> QED  BY <2>1, <2>3, <3>1, InitEpsilonGood
  <2> QED  BY <2>2, <2>3
<1>4. CASE hand.kind[hc] = "subst"
  <2>1. HeadCalls(p) = InitSubst(p, hc)
    BY <1>4 DEF HeadCalls
  <2> QED  BY <1>4, <2>1, InitSubstGood
<1>5. CASE hand.kind[hc] = "foot"
  <2>1. HeadCalls(p) = InitFoot(p, hc)
    BY <1>5 DEF HeadCalls
  <2> QED  BY <1>5, <2>1, InitFootGood
<1> QED  BY <1>1, <1>2, <1>3, <1>4, <1>5 DEF Kinds

-----------------------------------------------------------------------------
(* hparse_move_up.                                                         *)

\* Null adjunction.
LEMMA AdjoinNothingGood ==
  ASSUME DeductionInv, NEW p \in ItemIds, states[p].pos = "bot"
  PROVE  AllGood(AdjoinNothing(p))
<1> DEFINE s == states[p]
           x == Content(s)
<1>1. /\ p \in Nat /\ p # 0 /\ s.type = "item" /\ s.pos = "bot"
      /\ Covers(hand, s.n, s.i, s.j, s.fl, s.fr) /\ Whole(hand, s.n, s.pos)
      /\ Confined(hand, states, s.n, s.g)
  BY ItemFacts
<1>2. AdjoinNothing(p) =
        {Call(<<0, 0, 0, 0>>, Item(s.n, s.g, "top", s.i, s.j, s.fl, s.fr, s.w, p, 0))}
  BY DEF AdjoinNothing
<1> HIDE DEF s
<1>3. Whole(hand, s.n, "top")
  BY <1>1 DEF Whole
<1>4. x = D!Fact(s.n, "bot", s.i, s.j, s.fl, s.fr, s.w)
  BY <1>1 DEF Content, D!Fact
<1> HIDE DEF x
<1>5. D!Fact(s.n, "top", s.i, s.j, s.fl, s.fr, s.w) \in D!FromOne(hand, x)
  BY <1>4 DEF D!Fact, D!FromOne, D!NullAdjunction
<1>6. Good(Item(s.n, s.g, "top", s.i, s.j, s.fl, s.fr, s.w, p, 0))
  BY <1>1, <1>3, <1>5, ItemFits, DerivedItem DEF Good, x, s
<1> QED  BY <1>2, <1>6, CallFields DEF AllGood

\* Where nothing may be adjoined over epsilon, no item of a subtree with an
\* empty headcorner is wider than its empty goal.
LEMMA ConfinedSpan ==
  ASSUME DeductionInv, NEW p \in ItemIds,
         ~ hand.pref.epsAdjoin, D!EpsLeaf(hand, hand.head[states[p].n])
  PROVE  LET s == states[p]
         IN /\ s.g # 0 /\ s.g \in Ids /\ s.i = s.j
            /\ states[s.g].i = s.i /\ states[s.g].j = s.j
<1> DEFINE s == states[p]
<1>1. s.i \in Int /\ s.j \in Int /\ s.i <= s.j /\ s.g # 0 /\ states[s.g].i = states[s.g].j
  BY ItemFacts DEF Covers, Confined
<1>2. s.g \in Ids /\ states[s.g].i \in Int /\ states[s.g].j \in Int
  <2>1. Inv /\ p \in Ids  BY DEF DeductionInv, ItemIds
  <2>2. s.g \in Ids  BY <1>1, <2>1, StatesOK
  <2>3. states[s.g].i \in 0 .. hand.last /\ states[s.g].j \in 0 .. hand.last + 1
    BY <2>1, <2>2, StatesOK
  <2> QED  BY <2>2, <2>3
<1>3. states[s.g].i <= s.i /\ s.j <= states[s.g].j
  <2>1. Within(states, s)
    BY DEF DeductionInv, Inv, Inductive, ItemIds
  <2> QED  BY <1>1, <2>1 DEF Within
<1> HIDE DEF s
<1>4. s.i = s.j /\ states[s.g].i = s.i /\ states[s.g].j = s.j
  BY <1>1, <1>2, <1>3
<1> QED  BY <1>1, <1>2, <1>4 DEF s

\* An auxiliary tree d with its foot over the span of the item b is adjoined
\* to b; the result is wider.
LEMMA AdjunctionStep ==
  ASSUME DeductionInv, NEW b \in ItemIds, NEW d \in ItemIds,
         states[b].pos = "bot", states[b].n \in hand.adjoin,
         hand.pref.epsAdjoin \/ ~ D!EpsLeaf(hand, hand.head[states[b].n]),
         states[d].pos = "top", hand.up[states[d].n] = 0, hand.foot[states[d].n] # 0,
         hand.label[states[b].n] = hand.label[states[d].n],
         states[d].fl = states[b].i, states[d].fr = states[b].j
  PROVE  LET s == states[b]
         IN Justified(hand, states,
              Item(s.n, s.g, AdjoinedPos, states[d].i, states[d].j, s.fl, s.fr, s.w, d, b))
<1> DEFINE s == states[b]
           e == states[d]
           x == Content(e)
           y == Content(s)
           new == D!Fact(s.n, AdjoinedPos, e.i, e.j, s.fl, s.fr, s.w)
<1>1. /\ b \in Nat /\ b # 0 /\ s.type = "item" /\ d \in Nat /\ d # 0 /\ e.type = "item"
      /\ e.n \in hand.nodes /\ Covers(hand, e.n, e.i, e.j, e.fl, e.fr)
  BY ItemFacts
<1>2. hand \in Hands /\ NeverEmpty(hand, Wordy(hand))
  BY DEF DeductionInv, Inv
<1>3. <<e.i, e.j>> # <<s.i, s.j>>
  <2>1. e.n \in Wordy(hand)
    BY <1>1, <1>2, WordyFacts
  <2>2. Footed(hand, e.n)
    BY <1>1, <1>2, NodeFacts DEF Footed
  <2>3. e.i < e.fl \/ e.fr < e.j
    BY <1>1, <2>1, <2>2 DEF Covers
  <2>4. e.i \in Int /\ e.j \in Int /\ s.i \in Int /\ s.j \in Int
    BY ItemFacts
  <2>5. e.fl = s.i /\ e.fr = s.j
    OBVIOUS
  <2> HIDE DEF e, s
  <2> QED  BY <2>3, <2>4, <2>5
<1>4. /\ x.n = e.n /\ x.i = e.i /\ x.j = e.j /\ x.fl = e.fl /\ x.fr = e.fr /\ x.pos = e.pos
      /\ y = D!Fact(s.n, s.pos, s.i, s.j, s.fl, s.fr, s.w)
  BY DEF Content, D!Fact
<1>5. /\ s.pos = "bot" /\ s.n \in hand.adjoin
      /\ hand.pref.epsAdjoin \/ ~ D!EpsLeaf(hand, hand.head[s.n])
      /\ e.pos = "top" /\ hand.up[e.n] = 0 /\ hand.foot[e.n] # 0
      /\ hand.label[s.n] = hand.label[e.n] /\ e.fl = s.i /\ e.fr = s.j
  OBVIOUS
<1> HIDE DEF x, y, s, e
<1>6. y.n = s.n /\ y.pos = s.pos /\ y.i = s.i /\ y.j = s.j
  BY <1>4 DEF D!Fact
<1>7. new = [y EXCEPT !.i = x.i, !.j = x.j,
                  !.pos = IF hand.pref.multiple THEN "bot" ELSE "top"]
  <2> DEFINE pos == IF hand.pref.multiple THEN "bot" ELSE "top"
  <2>1. new = D!Fact(s.n, pos, x.i, x.j, s.fl, s.fr, s.w)
    BY <1>4 DEF AdjoinedPos
  <2> HIDE DEF pos, new
  <2>2. new = [y EXCEPT !.i = x.i, !.j = x.j, !.pos = pos]
    <3> DEFINE y1 == [y EXCEPT !.i = x.i]
               y2 == [y1 EXCEPT !.j = x.j]
    <3>1. y1 = D!Fact(s.n, s.pos, x.i, s.j, s.fl, s.fr, s.w)
      BY <1>4 DEF D!Fact
    <3>2. [y EXCEPT !.i = x.i, !.j = x.j, !.pos = pos] = [y2 EXCEPT !.pos = pos]
      OBVIOUS
    <3> HIDE DEF y1
    <3>3. y2 = D!Fact(s.n, s.pos, x.i, x.j, s.fl, s.fr, s.w)
      BY <3>1 DEF D!Fact
    <3> HIDE DEF y2
    <3>4. [y2 EXCEPT !.pos = pos] = D!Fact(s.n, pos, x.i, x.j, s.fl, s.fr, s.w)
      BY <3>3 DEF D!Fact
    <3> QED  BY <2>1, <3>2, <3>4
  <2> QED  BY <2>2 DEF pos
<1> HIDE DEF new
<1>8. D!MayAdjoinAt(hand, y.n)
  BY <1>5, <1>6 DEF D!MayAdjoinAt
<1>9. new \in D!Adjunction(hand, x, y)
  BY <1>3, <1>4, <1>5, <1>6, <1>7, <1>8 DEF D!Adjunction, D!IsRoot
<1>10. new \in D!FromTwo(hand, x, y)
  BY <1>9 DEF D!FromTwo
<1>11. Justified(hand, states, Item(s.n, s.g, AdjoinedPos, e.i, e.j, s.fl, s.fr, s.w, d, b))
  BY <1>1, <1>10, DerivedItem DEF new, x, y, s, e
<1> QED  BY <1>11 DEF s, e

\* Adjunctions, and predictions of the trees for them.
LEMMA AdjoinTreesGood ==
  ASSUME DeductionInv, NEW p \in ItemIds, states[p].pos = "bot", states[p].n \in hand.adjoin,
         states[p].g # 0
  PROVE  AllGood(AdjoinTrees(p))
<1> DEFINE s == states[p]
           auxs == hand.auxs[hand.label[s.n]]
           visits == {v \in (DOMAIN auxs) \X (0 .. hand.last) \X (0 .. hand.last) :
                        /\ ~WrapBarred(auxs[v[1]], s.n)
                        /\ <<v[2], v[3]>> \in AdjoinSpans(s, auxs[v[1]])}
           done(v) == StateExists(v[2], v[3], auxs[v[1]], s.i, s.j)
           found(v) == Item(s.n, s.g, AdjoinedPos, v[2], v[3], s.fl, s.fr, s.w, done(v), p)
           pred(v) == Predict(auxs[v[1]], v[2], v[3], s.i, s.j, 0, 0)
<1>1. /\ p \in Nat /\ p # 0 /\ s.type = "item" /\ s.n \in hand.nodes
      /\ s.i \in Int /\ s.j \in Int /\ s.fl \in Int /\ s.fr \in Int
      /\ Covers(hand, s.n, s.i, s.j, s.fl, s.fr) /\ Whole(hand, s.n, "bot")
      /\ Confined(hand, states, s.n, s.g)
  BY ItemFacts
<1>2. Inv /\ hand \in Hands /\ hand.last \in Nat /\ hand.label[s.n] \in DOMAIN hand.auxs
  BY <1>1, HandOK DEF DeductionInv, Inv, ListsOK
<1>3. \A k \in DOMAIN auxs :
        /\ auxs[k] \in hand.nodes /\ hand.up[auxs[k]] = 0 /\ hand.foot[auxs[k]] # 0
        /\ hand.label[auxs[k]] = hand.label[s.n] /\ hand.kind[auxs[k]] # "subst"
  <2> HIDE DEF s
  <2>1. ASSUME NEW k \in DOMAIN auxs
        PROVE  /\ auxs[k] \in hand.nodes /\ hand.up[auxs[k]] = 0 /\ hand.foot[auxs[k]] # 0
               /\ hand.label[auxs[k]] = hand.label[s.n]
    BY <1>2, RootFacts
  <2> HIDE DEF auxs
  <2> QED  BY <1>2, <2>1, NodeFacts
<1>4. states[s.g].i \in Int /\ states[s.g].j \in Int /\ states[s.g].i <= s.i /\ s.j <= states[s.g].j
  <2>1. p \in Ids  BY DEF ItemIds
  <2>2. s.g \in Ids  BY <1>2, <2>1, StatesOK
  <2>3. states[s.g].i \in 0 .. hand.last /\ states[s.g].j \in 0 .. hand.last + 1
    BY <1>2, <2>2, StatesOK
  <2>4. Within(states, s)
    BY <1>2, <2>1 DEF Inv, Inductive
  <2> QED  BY <2>3, <2>4 DEF Within
<1>5. s.i <= s.j
  BY <1>1 DEF Covers
<1>6. s.pos = "bot" /\ s.n \in hand.adjoin /\ p \in ItemIds
  OBVIOUS
<1>7. ~ hand.pref.epsAdjoin /\ D!EpsLeaf(hand, hand.head[s.n]) =>
        s.i = s.j /\ states[s.g].i = s.i /\ states[s.g].j = s.j
  BY ConfinedSpan
<1> HIDE DEF s, auxs
<1>8. ASSUME NEW v \in visits
      PROVE  /\ v[1] \in DOMAIN auxs /\ v[2] \in 0 .. hand.last /\ v[3] \in 0 .. hand.last
             /\ v[2] <= s.i /\ s.j <= v[3] /\ v[2] \in Int /\ v[3] \in Int
             /\ hand.pref.epsAdjoin \/ ~ D!EpsLeaf(hand, hand.head[s.n])
  <2>1. v[1] \in DOMAIN auxs /\ v[2] \in 0 .. hand.last /\ v[3] \in 0 .. hand.last
    OBVIOUS
  <2>2. <<v[2], v[3]>> \in AdjoinSpans(s, auxs[v[1]])
    OBVIOUS
  <2> HIDE DEF visits
  <2>3. PICK start \in {s.i, states[s.g].i}, end \in {s.j, states[s.g].j} :
          <<v[2], v[3]>> \in ((start .. s.i) \X (s.j .. end)) \ {<<s.i, s.j>>}
    BY <2>2 DEF AdjoinSpans
  <2>4. /\ v[2] \in start .. s.i /\ v[3] \in s.j .. end /\ (v[2] # s.i \/ v[3] # s.j)
        /\ start \in Int /\ end \in Int
    BY <1>1, <1>4, <2>3
  <2>5. /\ v[2] \in Int /\ v[3] \in Int /\ start <= v[2] /\ v[2] <= s.i
        /\ s.j <= v[3] /\ v[3] <= end
    BY <1>1, <2>1, <2>4
  <2>6. hand.pref.epsAdjoin \/ ~ D!EpsLeaf(hand, hand.head[s.n])
    <3> SUFFICES ASSUME ~ hand.pref.epsAdjoin, D!EpsLeaf(hand, hand.head[s.n])
                 PROVE  FALSE
      OBVIOUS
    <3>1. start = s.i /\ end = s.j
      BY <1>7
    <3> QED  BY <1>1, <2>4, <2>5, <3>1
  <2> QED  BY <2>1, <2>5, <2>6
<1> HIDE DEF visits
<1>9. ASSUME NEW v \in visits, done(v) # 0 PROVE Good(found(v))
  <2> DEFINE d == done(v)
  <2>1. v[2] \in 0 .. hand.last + 1 /\ v[3] \in 0 .. hand.last + 1
    BY <1>2, <1>8
  <2>2. /\ d \in Ids /\ states[d].type = "item" /\ states[d].pos = "top"
        /\ states[d].n = auxs[v[1]] /\ states[d].i = v[2] /\ states[d].j = v[3]
        /\ states[d].fl = s.i /\ states[d].fr = s.j
    BY <1>2, <1>9, <2>1, StateExistsIn
  <2>3. found(v) = Item(s.n, s.g, AdjoinedPos, states[d].i, states[d].j, s.fl, s.fr, s.w, d, p)
    BY <2>2
  <2> HIDE DEF done
  <2> HIDE DEF d
  <2>4. d \in ItemIds
    BY <2>2 DEF ItemIds
  <2>5. Covers(hand, s.n, states[d].i, states[d].j, s.fl, s.fr)
    BY <1>1, <1>8, <2>2, CoversWider
  <2>6. Whole(hand, s.n, AdjoinedPos)
    BY <1>1 DEF Whole
  <2>7. /\ hand.up[states[d].n] = 0 /\ hand.foot[states[d].n] # 0
        /\ hand.label[s.n] = hand.label[states[d].n]
    BY <1>3, <1>8, <2>2
  <2>8. Justified(hand, states,
          Item(s.n, s.g, AdjoinedPos, states[d].i, states[d].j, s.fl, s.fr, s.w, d, p))
    BY <1>6, <1>8, <2>2, <2>4, <2>7, AdjunctionStep DEF s
  <2>9. Fits(hand, states,
          Item(s.n, s.g, AdjoinedPos, states[d].i, states[d].j, s.fl, s.fr, s.w, d, p))
    BY <1>1, <2>5, <2>6, ItemFits
  <2> HIDE DEF found
  <2> QED  BY <2>3, <2>8, <2>9 DEF Good
<1>10. ASSUME NEW v \in visits PROVE Good(pred(v))
  <2>1. Awaits(hand, auxs[v[1]], v[2], v[3], s.i, s.j)
    BY <1>3, <1>5, <1>8 DEF Awaits
  <2> QED  BY <2>1, PredictGood
<1> HIDE DEF done, found, pred
<1>11. AdjoinTrees(p) =
        {Call(<<v[1], v[2], -v[3], 0>>, IF done(v) # 0 THEN found(v) ELSE pred(v)) : v \in visits}
  BY DEF AdjoinTrees, visits, done, found, pred, auxs, s
<1>12. ASSUME NEW r \in AdjoinTrees(p) PROVE Good(r.t)
  <2> PICK v \in visits :
        r = Call(<<v[1], v[2], -v[3], 0>>, IF done(v) # 0 THEN found(v) ELSE pred(v))
    BY <1>11
  <2>1. r.t = IF done(v) # 0 THEN found(v) ELSE pred(v)
    BY CallFields
  <2> QED  BY <1>9, <1>10, <2>1
<1> QED  BY <1>12 DEF AllGood

\* An item below the top of its goal's subtree: its parent has the same
\* headcorner, which is not an epsilon the item was completed over.
LEMMA ParentFacts ==
  ASSUME DeductionInv, NEW p \in ItemIds, states[p].g # 0,
         states[p].n # states[states[p].g].n
  PROVE  LET s == states[p]
             pt == hand.up[s.n]
         IN /\ pt \in hand.nodes /\ pt # 0 /\ hand.head[pt] = hand.head[s.n]
            /\ ~ Traced(hand, s.n) /\ \A pos : Whole(hand, pt, pos)
            /\ Confined(hand, states, pt, s.g)
<1> DEFINE s == states[p]
           pt == hand.up[s.n]
<1>1. pt \in hand.nodes /\ pt # 0 /\ hand.head[pt] = hand.head[s.n]
  BY NotFinished DEF DeductionInv
<1>2. Whole(hand, s.n, s.pos) /\ Confined(hand, states, s.n, s.g)
  BY ItemFacts
<1>3. ~ SpineTop(hand, s.n)
  BY <1>1 DEF SpineTop
<1> HIDE DEF s
<1>4. ~ Traced(hand, s.n)
  BY <1>2, <1>3 DEF Whole
<1> HIDE DEF pt
<1>5. (\A pos : Whole(hand, pt, pos)) /\ Confined(hand, states, pt, s.g)
  BY <1>1, <1>2, <1>4 DEF Whole, Traced, Confined
<1> QED  BY <1>1, <1>4, <1>5 DEF s, pt

\* The only child makes its parent.
LEMMA UnaryHeadGood ==
  ASSUME DeductionInv, NEW p \in ItemIds, states[p].g # 0,
         states[p].n # states[states[p].g].n, states[p].pos = "top",
         hand.side[states[p].n] = "only"
  PROVE  AllGood(UnaryHead(p))
<1> DEFINE s == states[p]
           pt == hand.up[s.n]
           x == Content(s)
           new == D!Fact(pt, "bot", s.i, s.j, s.fl, s.fr, s.w)
<1>1. /\ pt \in hand.nodes /\ pt # 0
      /\ \A pos : Whole(hand, pt, pos)
      /\ Confined(hand, states, pt, s.g)
  BY ParentFacts
<1>2. /\ p \in Nat /\ p # 0 /\ s.type = "item" /\ s.n \in hand.nodes
      /\ Covers(hand, s.n, s.i, s.j, s.fl, s.fr)
      /\ hand \in Hands /\ NeverEmpty(hand, Wordy(hand))
      /\ s.pos = "top" /\ hand.side[s.n] = "only"
  BY ItemFacts DEF DeductionInv, Inv
<1>3. UnaryHead(p) =
        {Call(<<0, 0, 0, 0>>, Item(pt, s.g, "bot", s.i, s.j, s.fl, s.fr, s.w, p, 0))}
  BY DEF UnaryHead
<1> HIDE DEF s
<1>4. Covers(hand, pt, s.i, s.j, s.fl, s.fr)
  BY <1>1, <1>2, CoversUp
<1>5. x = D!Fact(s.n, "top", s.i, s.j, s.fl, s.fr, s.w)
  BY <1>2 DEF Content, D!Fact
<1>6. new \in D!FromOne(hand, x)
  <2> DEFINE x1 == [x EXCEPT !.n = pt]
  <2> HIDE DEF x, pt
  <2>1. x1 = D!Fact(pt, "top", s.i, s.j, s.fl, s.fr, s.w)
    BY <1>5 DEF D!Fact
  <2>2. [x EXCEPT !.n = pt, !.pos = "bot"] = [x1 EXCEPT !.pos = "bot"]
    OBVIOUS
  <2> HIDE DEF x1
  <2>3. [x1 EXCEPT !.pos = "bot"] = new
    BY <2>1 DEF D!Fact
  <2>4. x.n = s.n /\ x.pos = "top"
    BY <1>5 DEF D!Fact
  <2> HIDE DEF new
  <2>5. new \in D!Unary(hand, x)
    BY <1>1, <1>2, <2>2, <2>3, <2>4 DEF D!Unary, D!IsRoot, pt
  <2> QED  BY <2>5 DEF D!FromOne
<1> HIDE DEF x, pt
<1>7. Good(Item(pt, s.g, "bot", s.i, s.j, s.fl, s.fr, s.w, p, 0))
  BY <1>1, <1>2, <1>4, <1>6, ItemFits, DerivedItem DEF Good, x, s
<1> QED  BY <1>3, <1>7, CallFields DEF AllGood

\* A left and a right child side by side make their parent: whichever of the
\* two is the head m, the other, r, has no foot.
LEMMA BinaryStep ==
  ASSUME DeductionInv, NEW a \in ItemIds, NEW b \in ItemIds,
         states[a].pos = "top", states[b].pos = "top", states[a].j = states[b].i,
         hand.side[states[a].n] = "left", hand.sibling[states[a].n] = states[b].n,
         NEW m \in {a, b}, NEW r \in {a, b}, m = a <=> r = b, m = b <=> r = a,
         states[r].fl = ef, states[r].fr = ef, NEW g
  PROVE  Justified(hand, states,
           Item(hand.up[states[m].n], g, "bot", states[a].i, states[b].j,
                states[m].fl, states[m].fr, states[a].w \o states[b].w, a, b))
<1> DEFINE x == Content(states[a])
           y == Content(states[b])
           pt == hand.up[states[m].n]
           fl == states[m].fl
           fr == states[m].fr
           w == states[a].w \o states[b].w
<1>1. /\ a \in Nat /\ a # 0 /\ b \in Nat /\ b # 0
      /\ states[a].type = "item" /\ states[b].type = "item"
      /\ states[a].n \in hand.nodes /\ hand \in Hands
  BY ItemFacts DEF DeductionInv, Inv
<1>2. pt = hand.up[states[a].n]
  <2>1. hand.up[states[b].n] = hand.up[states[a].n]
    BY <1>1, SiblingFacts
  <2> QED  BY <2>1
<1>3. /\ x.n = states[a].n /\ x.pos = "top" /\ x.i = states[a].i /\ x.j = states[a].j
      /\ x.fl = states[a].fl /\ x.fr = states[a].fr /\ x.w = states[a].w
      /\ y.n = states[b].n /\ y.pos = "top" /\ y.i = states[b].i /\ y.j = states[b].j
      /\ y.fl = states[b].fl /\ y.fr = states[b].fr /\ y.w = states[b].w
  BY DEF Content
<1> HIDE DEF x, y
<1>4. /\ fl = IF x.fl # D!noFoot THEN x.fl ELSE y.fl
      /\ fr = IF x.fr # D!noFoot THEN x.fr ELSE y.fr
  BY <1>3 DEF D!noFoot, ef
<1>5. w = x.w \o y.w
  BY <1>3
<1> HIDE DEF fl, fr, w, pt
<1>6. D!Fact(pt, "bot", x.i, y.j, fl, fr, w) \in D!Binary(hand, x, y)
  BY <1>2, <1>3, <1>4, <1>5 DEF D!Binary
<1>7. D!Fact(pt, "bot", states[a].i, states[b].j, fl, fr, w) \in D!FromTwo(hand, x, y)
  BY <1>3, <1>6 DEF D!FromTwo
<1>8. Justified(hand, states, Item(pt, g, "bot", states[a].i, states[b].j, fl, fr, w, a, b))
  BY <1>1, <1>7, DerivedItem DEF x, y
<1> QED  BY <1>8 DEF pt, fl, fr, w

\* hparse_left_head: the head is joined with its right sibling, or asks for it.
LEMMA LeftHeadGood ==
  ASSUME DeductionInv, NEW p \in ItemIds, states[p].g # 0,
         states[p].n # states[states[p].g].n, states[p].pos = "top",
         hand.side[states[p].n] = "left"
  PROVE  AllGood(LeftHead(p))
<1> DEFINE s == states[p]
           pt == hand.up[s.n]
           r == hand.sibling[s.n]
           end == IF hand.kind[hand.head[r]] = "eps" THEN s.j + 1 ELSE states[s.g].j
           ends == {k \in s.j .. end : EmptySubst(r) => k # s.j}
           done(k) == StateExists(s.j, k, r, ef, ef)
           found(k) == Item(pt, s.g, "bot", s.i, k, s.fl, s.fr,
                            s.w \o states[done(k)].w, p, done(k))
           pred(k) == Predict(r, s.j, k, ef, ef, 0, p)
<1>1. /\ pt \in hand.nodes /\ pt # 0 /\ hand.head[pt] = hand.head[s.n]
      /\ ~ Traced(hand, s.n)
      /\ \A pos : Whole(hand, pt, pos)
      /\ Confined(hand, states, pt, s.g)
  BY ParentFacts
<1>2. /\ p \in Nat /\ p # 0 /\ s.type = "item" /\ s.n \in hand.nodes
      /\ s.i \in Int /\ s.j \in Int /\ s.fl \in Int /\ s.fr \in Int
      /\ Covers(hand, s.n, s.i, s.j, s.fl, s.fr)
      /\ Inv /\ hand \in Hands /\ NeverEmpty(hand, Wordy(hand))
      /\ s.pos = "top" /\ hand.side[s.n] = "left"
  BY ItemFacts DEF DeductionInv, Inv
<1>3. r \in hand.nodes /\ SpineTop(hand, r) /\ ~ Footed(hand, r) /\ hand.up[r] = pt
  <2>1. /\ r \in hand.nodes /\ SpineTop(hand, r) /\ hand.kind[hand.head[r]] # "foot"
    BY <1>2, SiblingAsked
  <2>2. hand.up[r] = pt
    BY <1>2, SiblingFacts
  <2> QED  BY <2>1, <2>2 DEF Footed
<1>4. /\ s.j \in 0 .. hand.last + 1 /\ hand.last \in Nat /\ states[s.g].j \in Int
      /\ states[s.g].j <= hand.last /\ s.j <= hand.last
  <2>1. p \in Ids /\ s.g \in Ids  BY <1>2, StatesOK DEF ItemIds
  <2>2. s.j \in 0 .. hand.last /\ states[s.g].j \in 0 .. hand.last + 1
        /\ Aims(hand, states, s.g, s.n)
    BY <1>2, <2>1, StatesOK
  <2> QED  BY <1>2, <2>2, HandOK DEF Aims
<1>5. p \in ItemIds
  OBVIOUS
<1> HIDE DEF s, pt, r
<1>6. ASSUME NEW k \in ends
      PROVE  k \in Int /\ k \in 0 .. hand.last + 1 /\ s.j <= k /\ (EmptySubst(r) => s.j < k)
  <2>1. k \in s.j .. end /\ (EmptySubst(r) => k # s.j)
    OBVIOUS
  <2>2. end \in Int /\ end <= hand.last + 1
    BY <1>2, <1>4
  <2> HIDE DEF ends, end
  <2> QED  BY <1>2, <1>4, <2>1, <2>2
<1> HIDE DEF ends, end
<1>7. ASSUME NEW k \in ends, done(k) # 0 PROVE Good(found(k))
  <2> DEFINE d == done(k)
  <2>1. /\ d \in Ids /\ states[d].type = "item" /\ states[d].pos = "top"
        /\ states[d].n = r /\ states[d].i = s.j /\ states[d].j = k
        /\ states[d].fl = ef /\ states[d].fr = ef
    BY <1>2, <1>4, <1>6, <1>7, StateExistsIn
  <2>2. found(k) = Item(pt, s.g, "bot", s.i, states[d].j, s.fl, s.fr, s.w \o states[d].w, p, d)
    BY <2>1
  <2> HIDE DEF done
  <2> HIDE DEF d
  <2>3. d \in ItemIds
    BY <2>1 DEF ItemIds
  <2>4. Covers(hand, r, s.j, k, ef, ef)
    BY <2>1, <2>3, ItemFacts
  <2>5. Covers(hand, pt, s.i, k, s.fl, s.fr)
    <3>1. ef \in Int  BY DEF ef
    <3>2. hand.up[s.n] = pt /\ hand.sibling[s.n] = r
      BY DEF pt, r
    <3> QED  BY <1>1, <1>2, <1>3, <1>6, <2>4, <3>1, <3>2, CoversPair
  <2>6. Justified(hand, states,
          Item(pt, s.g, "bot", s.i, states[d].j, s.fl, s.fr, s.w \o states[d].w, p, d))
    <3>1. p # d
      BY <1>2, <1>3, <2>1, NodeFacts, SiblingFacts DEF r
    <3> QED  BY <1>2, <1>5, <2>1, <2>3, <3>1, BinaryStep DEF s, r, pt
  <2>7. Fits(hand, states,
          Item(pt, s.g, "bot", s.i, states[d].j, s.fl, s.fr, s.w \o states[d].w, p, d))
    BY <1>1, <2>1, <2>5, ItemFits
  <2> HIDE DEF found
  <2> QED  BY <2>2, <2>6, <2>7 DEF Good
<1>8. ASSUME NEW k \in ends PROVE Good(pred(k))
  <2>1. hand.kind[r] = "subst" /\ ~ hand.pref.epsTrees => s.j < k
    BY <1>2, <1>3, <1>6, NodeFacts DEF EmptySubst
  <2>2. Awaits(hand, r, s.j, k, ef, ef)
    BY <1>1, <1>3, <2>1 DEF Awaits, Traced
  <2> QED  BY <2>2, PredictGood
<1> HIDE DEF done, found, pred
<1>9. LeftHead(p) =
        {Call(<<-k, 0, 0, 0>>, IF done(k) # 0 THEN found(k) ELSE pred(k)) : k \in ends}
  BY DEF LeftHead, ends, end, done, found, pred, pt, r, s
<1>10. ASSUME NEW q \in LeftHead(p) PROVE Good(q.t)
  <2> PICK k \in ends :
        q = Call(<<-k, 0, 0, 0>>, IF done(k) # 0 THEN found(k) ELSE pred(k))
    BY <1>9
  <2>1. q.t = IF done(k) # 0 THEN found(k) ELSE pred(k)
    BY CallFields
  <2> QED  BY <1>7, <1>8, <2>1
<1> QED  BY <1>10 DEF AllGood

\* hparse_right_head: the same with the left sibling.
LEMMA RightHeadGood ==
  ASSUME DeductionInv, NEW p \in ItemIds, states[p].g # 0,
         states[p].n # states[states[p].g].n, states[p].pos = "top",
         hand.side[states[p].n] = "right"
  PROVE  AllGood(RightHead(p))
<1> DEFINE s == states[p]
           pt == hand.up[s.n]
           l == hand.sibling[s.n]
           start == IF hand.kind[hand.head[l]] = "eps" THEN s.i ELSE states[s.g].i
           starts == {k \in start .. s.i : EmptySubst(l) => k # s.i}
           done(k) == StateExists(k, s.i, l, ef, ef)
           found(k) == Item(pt, s.g, "bot", k, s.j, s.fl, s.fr,
                            states[done(k)].w \o s.w, done(k), p)
           pred(k) == Predict(l, k, s.i, ef, ef, p, 0)
<1>1. /\ pt \in hand.nodes /\ pt # 0 /\ hand.head[pt] = hand.head[s.n]
      /\ ~ Traced(hand, s.n)
      /\ \A pos : Whole(hand, pt, pos)
      /\ Confined(hand, states, pt, s.g)
  BY ParentFacts
<1>2. /\ p \in Nat /\ p # 0 /\ s.type = "item" /\ s.n \in hand.nodes
      /\ s.i \in Int /\ s.j \in Int /\ s.fl \in Int /\ s.fr \in Int
      /\ Covers(hand, s.n, s.i, s.j, s.fl, s.fr)
      /\ Inv /\ hand \in Hands /\ NeverEmpty(hand, Wordy(hand))
      /\ s.pos = "top" /\ hand.side[s.n] = "right"
  BY ItemFacts DEF DeductionInv, Inv
<1>3. l \in hand.nodes /\ SpineTop(hand, l) /\ ~ Footed(hand, l) /\ hand.up[l] = pt
  <2>1. /\ l \in hand.nodes /\ SpineTop(hand, l) /\ hand.kind[hand.head[l]] # "foot"
    BY <1>2, SiblingAsked
  <2>2. hand.up[l] = pt
    BY <1>2, SiblingFacts
  <2> QED  BY <2>1, <2>2 DEF Footed
<1>4. s.i \in 0 .. hand.last + 1 /\ hand.last \in Nat /\ states[s.g].i \in Nat
  <2>1. p \in Ids /\ s.g \in Ids  BY <1>2, StatesOK DEF ItemIds
  <2>2. s.i \in 0 .. hand.last /\ states[s.g].i \in 0 .. hand.last
    BY <1>2, <2>1, StatesOK
  <2> QED  BY <1>2, <2>2, HandOK
<1>5. p \in ItemIds
  OBVIOUS
<1> HIDE DEF s, pt, l
<1>6. ASSUME NEW k \in starts
      PROVE  k \in Int /\ k \in 0 .. hand.last + 1 /\ k <= s.i /\ (EmptySubst(l) => k < s.i)
  <2>1. k \in start .. s.i /\ (EmptySubst(l) => k # s.i)
    OBVIOUS
  <2>2. start \in Nat
    BY <1>4
  <2> HIDE DEF starts, start
  <2> QED  BY <1>2, <1>4, <2>1, <2>2
<1> HIDE DEF starts, start
<1>7. ASSUME NEW k \in starts, done(k) # 0 PROVE Good(found(k))
  <2> DEFINE d == done(k)
  <2>1. /\ d \in Ids /\ states[d].type = "item" /\ states[d].pos = "top"
        /\ states[d].n = l /\ states[d].i = k /\ states[d].j = s.i
        /\ states[d].fl = ef /\ states[d].fr = ef
    BY <1>2, <1>4, <1>6, <1>7, StateExistsIn
  <2>2. found(k) = Item(pt, s.g, "bot", states[d].i, s.j, s.fl, s.fr, states[d].w \o s.w, d, p)
    BY <2>1
  <2> HIDE DEF done
  <2> HIDE DEF d
  <2>3. d \in ItemIds
    BY <2>1 DEF ItemIds
  <2>4. Covers(hand, l, k, s.i, ef, ef)
    BY <2>1, <2>3, ItemFacts
  <2>5. Covers(hand, pt, k, s.j, s.fl, s.fr)
    <3>1. ef \in Int  BY DEF ef
    <3>2. hand.up[s.n] = pt /\ hand.sibling[s.n] = l
      BY DEF pt, l
    <3>3. Covers(hand, hand.up[s.n], IF s.j = k THEN s.i ELSE k, IF s.j = k THEN s.i ELSE s.j,
                 s.fl, s.fr)
      BY <1>1, <1>2, <1>3, <1>6, <2>4, <3>1, <3>2, CoversPair
    <3>4. s.i <= s.j
      BY <1>2 DEF Covers
    <3>5. s.j = k => s.i = k /\ s.i = s.j
      BY <1>2, <1>6, <3>4
    <3> QED  BY <3>2, <3>3, <3>5
  <2>6. Justified(hand, states,
          Item(pt, s.g, "bot", states[d].i, s.j, s.fl, s.fr, states[d].w \o s.w, d, p))
    <3>1. p # d
      BY <1>2, <1>3, <2>1, NodeFacts, SiblingFacts DEF l
    <3>2. hand.side[l] = "left" /\ hand.sibling[l] = s.n
      BY <1>2, SiblingFacts DEF l
    <3> QED  BY <1>2, <1>5, <2>1, <2>3, <3>1, <3>2, BinaryStep DEF s, pt
  <2>7. Fits(hand, states,
          Item(pt, s.g, "bot", states[d].i, s.j, s.fl, s.fr, states[d].w \o s.w, d, p))
    BY <1>1, <2>1, <2>5, ItemFits
  <2> HIDE DEF found
  <2> QED  BY <2>2, <2>6, <2>7 DEF Good
<1>8. ASSUME NEW k \in starts PROVE Good(pred(k))
  <2>1. hand.kind[l] = "subst" /\ ~ hand.pref.epsTrees => k < s.i
    BY <1>2, <1>3, <1>6, NodeFacts DEF EmptySubst
  <2>2. Awaits(hand, l, k, s.i, ef, ef)
    BY <1>1, <1>3, <2>1 DEF Awaits, Traced
  <2> QED  BY <2>2, PredictGood
<1> HIDE DEF done, found, pred
<1>9. RightHead(p) =
        {Call(<<k, 0, 0, 0>>, IF done(k) # 0 THEN found(k) ELSE pred(k)) : k \in starts}
  BY DEF RightHead, starts, start, done, found, pred, pt, l, s
<1>10. ASSUME NEW q \in RightHead(p) PROVE Good(q.t)
  <2> PICK k \in starts :
        q = Call(<<k, 0, 0, 0>>, IF done(k) # 0 THEN found(k) ELSE pred(k))
    BY <1>9
  <2>1. q.t = IF done(k) # 0 THEN found(k) ELSE pred(k)
    BY CallFields
  <2> QED  BY <1>7, <1>8, <2>1
<1> QED  BY <1>10 DEF AllGood

\* Every call of hparse_move_up is on a good state.
LEMMA MoveUpCallsGood ==
  ASSUME DeductionInv, NEW p \in Ids, MayMoveUp(states[p])
  PROVE  AllGood(MoveUpCalls(p))
<1> DEFINE s == states[p]
<1>1. /\ p \in ItemIds /\ s.g # 0 /\ s.pos \in {"top", "bot"}
      /\ hand.side[s.n] \in {"only", "left", "right"}
  BY StatesOK, HandOK DEF MayMoveUp, ItemIds, State, TablesOK, Inv, DeductionInv
<1>2. CASE s.pos = "bot"
  <2>1. AllGood(AdjoinNothing(p))
    BY <1>1, <1>2, AdjoinNothingGood
  <2>2. s.n \in hand.adjoin => AllGood(AdjoinTrees(p))
    BY <1>1, <1>2, AdjoinTreesGood
  <2>3. MoveUpCalls(p) = AdjoinNothing(p) \cup (IF s.n \in hand.adjoin THEN AdjoinTrees(p) ELSE {})
    BY <1>2 DEF MoveUpCalls, Adjoin
  <2> QED  BY <2>1, <2>2, <2>3 DEF AllGood
<1>3. CASE s.pos = "top"
  <2>1. s.n # states[s.g].n
    BY <1>3 DEF MayMoveUp
  <2>2. MoveUpCalls(p) = CASE hand.side[s.n] = "only"  -> UnaryHead(p)
                           [] hand.side[s.n] = "left"  -> LeftHead(p)
                           [] hand.side[s.n] = "right" -> RightHead(p)
    BY <1>3 DEF MoveUpCalls
  <2>3. CASE hand.side[s.n] = "only"
    BY <1>1, <1>3, <2>1, <2>2, <2>3, UnaryHeadGood
  <2>4. CASE hand.side[s.n] = "left"
    BY <1>1, <1>3, <2>1, <2>2, <2>4, LeftHeadGood
  <2>5. CASE hand.side[s.n] = "right"
    BY <1>1, <1>3, <2>1, <2>2, <2>5, RightHeadGood
  <2> QED  BY <1>1, <2>3, <2>4, <2>5
<1> QED  BY <1>1, <1>2, <1>3

-----------------------------------------------------------------------------
(* hparse_completer.                                                       *)

\* COMPL_INIT.
LEMMA CompleteInitGood ==
  ASSUME DeductionInv, NEW p \in ItemIds, states[p].pos = "top",
         hand.up[states[p].n] = 0, hand.foot[states[p].n] = 0
  PROVE  AllGood(CompleteInit(p))
<1> DEFINE s == states[p]
           cell == CellOf(s.i, s.j)
           b(q) == states[cell[q]]
           wait == {q \in DOMAIN cell :
                      /\ hand.kind[b(q).n] = "subst" /\ hand.label[b(q).n] = hand.label[s.n]
                      /\ b(q).pos = "top" /\ b(q).type = "goal"}
           t(q) == Item(b(q).n, b(q).g, "top", s.i, s.j, ef, ef, <<>>, p, 0)
<1>1. /\ p \in Nat /\ p # 0 /\ s.i \in Int /\ s.j \in Int
      /\ Covers(hand, s.n, s.i, s.j, s.fl, s.fr)
      /\ Inv /\ hand \in Hands /\ NeverEmpty(hand, Wordy(hand))
      /\ s.pos = "top" /\ hand.up[s.n] = 0 /\ hand.foot[s.n] = 0 /\ p \in ItemIds
  BY ItemFacts DEF DeductionInv, Inv
<1>2. s.i \in 0 .. hand.last + 1 /\ s.j \in 0 .. hand.last + 1
  BY <1>1, StatesOK, HandOK DEF ItemIds
<1>3. CompleteInit(p) = {Call(<<q, 0, 0, 0>>, t(q)) : q \in wait}
  BY DEF CompleteInit
<1> HIDE DEF s
<1>4. ASSUME NEW q \in wait PROVE Good(t(q))
  <2> DEFINE e == b(q)
  <2>1. /\ cell[q] \in Ids /\ e.i = s.i /\ e.j = s.j
    BY <1>1, <1>2, CellIn
  <2>2. hand.kind[e.n] = "subst" /\ hand.label[e.n] = hand.label[s.n] /\ e.type # "item"
    OBVIOUS
  <2>3. e.n \in hand.nodes /\ Fits(hand, states, e)
    BY <1>1, <2>1, StatesOK DEF DeductionInv
  <2>4. t(q) = Item(e.n, e.g, "top", s.i, s.j, ef, ef, <<>>, p, 0)
    OBVIOUS
  <2> HIDE DEF e, t, b, wait, cell
  <2>5. hand.head[e.n] = e.n /\ e.n \notin hand.eps
    BY <1>1, <2>2, <2>3, NodeFacts
  <2>6. ~ hand.pref.epsTrees => s.i < s.j
    BY <2>1, <2>2, <2>3 DEF Fits, Awaits
  <2>7. e.n \in Wordy(hand) => ~ hand.pref.epsTrees
    BY <1>1, <2>2, WordyFacts
  <2>8. s.i <= s.j
    BY <1>1 DEF Covers
  <2>9. Covers(hand, e.n, s.i, s.j, ef, ef)
    BY <2>2, <2>5, <2>6, <2>7, <2>8 DEF Covers, Footed
  <2>10. Whole(hand, e.n, "top") /\ Confined(hand, states, e.n, e.g)
    BY <2>2, <2>5 DEF Whole, Traced, Confined, D!EpsLeaf
  <2>11. Justified(hand, states, Item(e.n, e.g, "top", s.i, s.j, ef, ef, <<>>, p, 0))
    BY <1>1, <2>2, <2>3, <2>6, SubstitutionStep DEF s
  <2>12. Fits(hand, states, Item(e.n, e.g, "top", s.i, s.j, ef, ef, <<>>, p, 0))
    BY <2>9, <2>10, ItemFits
  <2> QED  BY <2>4, <2>11, <2>12 DEF Good
<1> HIDE DEF wait, t
<1>5. ASSUME NEW r \in CompleteInit(p) PROVE Good(r.t)
  <2>1. PICK q \in wait : r = Call(<<q, 0, 0, 0>>, t(q))
    BY <1>3
  <2>2. r.t = t(q)
    BY <2>1, CallFields
  <2> QED  BY <1>4, <2>2
<1> QED  BY <1>5 DEF AllGood

\* COMPL_AUX: the tree is adjoined, or, where nothing may be adjoined over
\* epsilon, leaves the span of the goal.
LEMMA CompleteAuxGood ==
  ASSUME DeductionInv, NEW p \in ItemIds, states[p].pos = "top",
         hand.up[states[p].n] = 0, hand.foot[states[p].n] # 0
  PROVE  AllGood(CompleteAux(p))
<1> DEFINE s == states[p]
           cell == CellOf(s.fl, s.fr)
           b(q) == states[cell[q]]
           base == {q \in DOMAIN cell :
                      /\ b(q).n \in hand.adjoin /\ hand.label[b(q).n] = hand.label[s.n]
                      /\ b(q).pos = "bot" /\ b(q).type = "item"}
           t(q) == Item(b(q).n, b(q).g, AdjoinedPos, s.i, s.j, b(q).fl, b(q).fr, b(q).w,
                        p, cell[q])
<1>1. /\ p \in Nat /\ p # 0 /\ s.i \in Int /\ s.j \in Int /\ s.n \in hand.nodes
      /\ Covers(hand, s.n, s.i, s.j, s.fl, s.fr)
      /\ Inv /\ hand \in Hands /\ NeverEmpty(hand, Wordy(hand))
      /\ s.pos = "top" /\ hand.up[s.n] = 0 /\ hand.foot[s.n] # 0 /\ p \in ItemIds
  BY ItemFacts DEF DeductionInv, Inv
<1>2. hand.kind[hand.head[s.n]] = "foot"
  BY <1>1, NodeFacts
<1>3. s.fl \in 0 .. hand.last + 1 /\ s.fr \in 0 .. hand.last + 1
  <2>1. FootPlaced(s.n, s.fl, s.fr) /\ hand.last \in Nat
    BY <1>1, StatesOK, HandOK DEF ItemIds
  <2> QED  BY <1>2, <2>1 DEF FootPlaced
<1>4. s.i <= s.fl /\ s.fr <= s.j /\ (s.i < s.fl \/ s.fr < s.j)
  <2>1. s.n \in Wordy(hand)
    BY <1>1, WordyFacts
  <2> QED  BY <1>1, <1>2, <2>1 DEF Covers, Footed
<1>5. ASSUME NEW r \in CompleteAux(p) PROVE \E q \in base : r = Call(<<q, 0, 0, 0>>, t(q))
  BY DEF CompleteAux
<1> HIDE DEF s
<1>6. ASSUME NEW q \in base PROVE Good(t(q))
  <2> DEFINE c == cell[q]
             e == b(q)
  <2>1. c \in Ids /\ e.i = s.fl /\ e.j = s.fr /\ e = states[c]
    BY <1>1, <1>3, CellIn
  <2>2. e.n \in hand.adjoin /\ hand.label[e.n] = hand.label[s.n] /\ e.pos = "bot" /\ e.type = "item"
    OBVIOUS
  <2>3. t(q) = Item(e.n, e.g, AdjoinedPos, s.i, s.j, e.fl, e.fr, e.w, p, c)
    OBVIOUS
  <2> HIDE DEF e, t, b, base
  <2> HIDE DEF c, cell
  <2>4. c \in ItemIds
    BY <2>1, <2>2 DEF ItemIds
  <2>5. /\ e.i \in Int /\ e.j \in Int /\ e.fl \in Int /\ e.fr \in Int
        /\ Covers(hand, e.n, e.i, e.j, e.fl, e.fr) /\ Whole(hand, e.n, e.pos)
        /\ Confined(hand, states, e.n, e.g)
    BY <2>1, <2>4, ItemFacts
  <2>6. Covers(hand, e.n, s.i, s.j, e.fl, e.fr)
    BY <1>1, <1>4, <2>1, <2>5, CoversWider
  <2>7. Whole(hand, e.n, AdjoinedPos)
    BY <2>2, <2>5 DEF Whole
  <2>8. Fits(hand, states, t(q))
    BY <2>3, <2>5, <2>6, <2>7, ItemFits
  <2>9. CASE hand.pref.epsAdjoin \/ ~ D!EpsLeaf(hand, hand.head[e.n])
    <3>1. Justified(hand, states, t(q))
      BY <1>1, <2>1, <2>2, <2>3, <2>4, <2>9, AdjunctionStep DEF s
    <3> QED  BY <2>8, <3>1 DEF Good
  <2>10. CASE ~ hand.pref.epsAdjoin /\ D!EpsLeaf(hand, hand.head[e.n])
    <3>1. e.g # 0 /\ states[e.g].i = e.i /\ states[e.g].j = e.j
      BY <2>1, <2>4, <2>10, ConfinedSpan
    <3>2. t(q).g = e.g /\ t(q).i = s.i /\ t(q).j = s.j
      BY <2>3, ItemFields
    <3>3. OutOfGoal(t(q))
      BY <1>4, <2>1, <3>1, <3>2 DEF OutOfGoal
    <3> QED  BY <2>8, <3>3 DEF Good
  <2> QED  BY <2>9, <2>10
<1> HIDE DEF base, t
<1>7. ASSUME NEW r \in CompleteAux(p) PROVE Good(r.t)
  <2>1. PICK q \in base : r = Call(<<q, 0, 0, 0>>, t(q))
    BY <1>5
  <2>2. r.t = t(q)
    BY <2>1, CallFields
  <2> QED  BY <1>6, <2>2
<1> QED  BY <1>7 DEF AllGood

\* The head that asked for the sibling p, on the pointer v of one of its goals.
AskerOf(p, v) ==
  LET q == states[CellOf(states[p].i, states[p].j)[v[1]]].bp[v[2]]
  IN IF hand.side[states[p].n] = "left" THEN q.b ELSE q.c

\* The item a is complete, next to p and its sibling on the parent's path.
Beside(p, a) ==
  LET s  == states[p]
      pt == hand.up[s.n]
  IN /\ a \in ItemIds /\ states[a].pos = "top" /\ a # p
     /\ pt \in hand.nodes /\ pt = hand.up[states[a].n]
     /\ hand.sibling[s.n] = states[a].n /\ hand.sibling[states[a].n] = s.n
     /\ hand.head[pt] = hand.head[states[a].n]
     /\ hand.side[s.n] = "left" => hand.side[states[a].n] = "right" /\ states[a].i = s.j
     /\ hand.side[s.n] = "right" => hand.side[states[a].n] = "left" /\ states[a].j = s.i
     /\ ~ Footed(hand, s.n) /\ s.fl = ef /\ s.fr = ef
     /\ \A pos : Whole(hand, pt, pos)
     /\ Confined(hand, states, pt, states[a].g)

\* The heads that asked for a sibling are items of its parent's path, complete
\* and next to the sibling.
LEMMA AskerFacts ==
  ASSUME DeductionInv, NEW p \in ItemIds, NEW v \in Asked(states[p]),
         hand.up[states[p].n] # 0, SpineTop(hand, states[p].n),
         hand.side[states[p].n] \in {"left", "right"}, AskerOf(p, v) # 0
  PROVE  Beside(p, AskerOf(p, v))
<1> DEFINE s == states[p]
           o == CellOf(s.i, s.j)[v[1]]
           b == states[o]
           q == b.bp[v[2]]
           a == AskerOf(p, v)
           side == hand.side[s.n]
<1>1. /\ hand \in Hands /\ Inv /\ s.n \in hand.nodes /\ Covers(hand, s.n, s.i, s.j, s.fl, s.fr)
      /\ s.type = "item"
  BY ItemFacts DEF DeductionInv, Inv
<1>2. v[2] \in DOMAIN b.bp /\ o \in Ids /\ b.n = s.n /\ b.type = "goal"
      /\ b.i = s.i /\ b.j = s.j
  BY <1>1, AskedIn
<1>4. Bounded(hand, states, b) /\ Asks(hand, states, b)
  BY <1>1, <1>2, StatesOK DEF Sound
<1>5. q.b \in 0 .. Len(states) /\ q.c \in 0 .. Len(states)
  BY <1>2, <1>4 DEF Bounded
<1>6. /\ q.b # 0 => Asker(hand, states[q.b], s.n, "right") /\ states[q.b].i = s.j
      /\ q.c # 0 => Asker(hand, states[q.c], s.n, "left") /\ states[q.c].j = s.i
  BY <1>2, <1>4 DEF Asks
<1>7. /\ (side = "left" /\ a = q.b) \/ (side = "right" /\ a = q.c)
      /\ a # 0
  BY DEF AskerOf
<1>8. hand.up[s.n] # 0 /\ SpineTop(hand, s.n) /\ hand.side[s.n] = side
  OBVIOUS
<1> HIDE DEF q, b, o, side, s, a
<1>9. /\ a \in Ids
      /\ side = "left" => Asker(hand, states[a], s.n, "right") /\ states[a].i = s.j
      /\ side = "right" => Asker(hand, states[a], s.n, "left") /\ states[a].j = s.i
  <2>1. Ids = 1 .. Len(states) /\ Len(states) \in Nat
    BY <1>1, StatesOK
  <2>2. CASE side = "left" /\ a = q.b
    BY <1>5, <1>6, <1>7, <2>1, <2>2
  <2>3. CASE side = "right" /\ a = q.c
    BY <1>5, <1>6, <1>7, <2>1, <2>3
  <2> QED  BY <1>7, <2>2, <2>3
<1>10. /\ states[a].type = "item" /\ states[a].pos = "top" /\ hand.sibling[s.n] = states[a].n
       /\ hand.up[states[a].n] # 0 /\ hand.head[hand.up[states[a].n]] = hand.head[states[a].n]
       /\ side = "left" => hand.side[states[a].n] = "right"
       /\ side = "right" => hand.side[states[a].n] = "left"
  BY <1>7, <1>9 DEF Asker
<1>11. /\ hand.sibling[states[a].n] = s.n /\ hand.up[states[a].n] = hand.up[s.n]
       /\ hand.up[s.n] \in hand.nodes
  <2>1. hand.side[s.n] # "only" /\ hand.sibling[s.n] = states[a].n
    BY <1>7, <1>8, <1>10
  <2>2. /\ hand.sibling[hand.sibling[s.n]] = s.n
        /\ hand.up[hand.sibling[s.n]] = hand.up[s.n]
    BY <1>1, <2>1, SiblingFacts
  <2>3. hand.up[s.n] \in hand.nodes
    BY <1>1, <1>8, NodeFacts
  <2> QED  BY <2>1, <2>2, <2>3
<1>12. ~ Footed(hand, s.n) /\ s.fl = ef /\ s.fr = ef
  BY <1>1, <1>8, NodeFacts DEF Covers, Footed
<1>13. a \in ItemIds /\ a # p
  BY <1>7, <1>8, <1>9, <1>10 DEF ItemIds, s
<1> DEFINE e == states[a]
           pt == hand.up[s.n]
<1>14. Whole(hand, e.n, e.pos) /\ Confined(hand, states, e.n, e.g)
  BY <1>13, ItemFacts
<1>15. ~ SpineTop(hand, e.n) /\ hand.head[pt] = hand.head[e.n]
  BY <1>10, <1>11 DEF SpineTop
<1> HIDE DEF e, pt
<1>16. (\A pos : Whole(hand, pt, pos)) /\ Confined(hand, states, pt, e.g)
  BY <1>14, <1>15 DEF Whole, Traced, Confined
<1> QED  BY <1>8, <1>9, <1>10, <1>11, <1>12, <1>13, <1>15, <1>16 DEF e, pt, s, a, side, Beside

\* COMPL_INTERNAL for a left sibling.
LEMMA CompleteLeftGood ==
  ASSUME DeductionInv, NEW p \in ItemIds, states[p].pos = "top",
         hand.up[states[p].n] # 0, SpineTop(hand, states[p].n),
         hand.side[states[p].n] = "left"
  PROVE  AllGood(CompleteLeft(p))
<1> DEFINE s == states[p]
           pt == hand.up[s.n]
           head(v) == states[CellOf(s.i, s.j)[v[1]]].bp[v[2]].b
           sib(v) == states[head(v)]
           t(v) == Item(pt, sib(v).g, "bot", s.i, sib(v).j, sib(v).fl, sib(v).fr,
                        s.w \o sib(v).w, p, head(v))
<1>1. /\ p \in Nat /\ p # 0 /\ s.i \in Int /\ s.j \in Int /\ s.n \in hand.nodes
      /\ Covers(hand, s.n, s.i, s.j, s.fl, s.fr)
      /\ hand \in Hands /\ NeverEmpty(hand, Wordy(hand))
      /\ s.pos = "top" /\ hand.side[s.n] = "left" /\ p \in ItemIds
  BY ItemFacts DEF DeductionInv, Inv
<1>2. ASSUME NEW v \in Asked(s), head(v) # 0 PROVE Good(t(v))
  <2> DEFINE a == head(v)
             e == states[a]
  <2>1. /\ a \in ItemIds /\ e.pos = "top" /\ a # p
        /\ pt \in hand.nodes /\ pt = hand.up[e.n]
        /\ hand.sibling[s.n] = e.n /\ hand.sibling[e.n] = s.n
        /\ hand.head[pt] = hand.head[e.n]
        /\ hand.side[e.n] = "right" /\ e.i = s.j
        /\ ~ Footed(hand, s.n) /\ s.fl = ef /\ s.fr = ef
        /\ \A pos : Whole(hand, pt, pos)
        /\ Confined(hand, states, pt, e.g)
    <3>1. a = AskerOf(p, v) /\ a # 0
      BY <1>2 DEF AskerOf
    <3>2. v \in Asked(states[p]) /\ s = states[p]
      BY <1>2
    <3> HIDE DEF t, sib, head, a, s
    <3>3. Beside(p, a)
      BY <3>1, <3>2, AskerFacts
    <3> QED  BY <3>2, <3>3 DEF Beside
  <2>2. t(v) = Item(pt, e.g, "bot", s.i, e.j, e.fl, e.fr, s.w \o e.w, p, a)
    OBVIOUS
  <2>3. pt # 0
    OBVIOUS
  <2> HIDE DEF t, sib, head
  <2> HIDE DEF a, e
  <2>4. /\ e.n \in hand.nodes /\ e.i \in Int /\ e.j \in Int /\ e.fl \in Int /\ e.fr \in Int
        /\ Covers(hand, e.n, e.i, e.j, e.fl, e.fr)
    BY <2>1, ItemFacts DEF e
  <2> HIDE DEF s, pt
  <2>5. Covers(hand, pt, s.i, e.j, e.fl, e.fr)
    <3>1. ef \in Int  BY DEF ef
    <3>2. Covers(hand, hand.up[e.n], IF e.j = s.i THEN e.i ELSE s.i, IF e.j = s.i THEN s.j ELSE e.j,
                 e.fl, e.fr)
      BY <1>1, <2>1, <2>3, <2>4, <3>1, CoversPair
    <3>3. s.i <= s.j /\ e.i <= e.j
      BY <1>1, <2>4 DEF Covers
    <3>4. e.j = s.i => e.i = s.i /\ s.j = e.j
      BY <1>1, <2>1, <2>4, <3>3
    <3> QED  BY <2>1, <3>2, <3>4
  <2>6. Justified(hand, states, Item(pt, e.g, "bot", s.i, e.j, e.fl, e.fr, s.w \o e.w, p, a))
    BY <1>1, <2>1, BinaryStep DEF s, e
  <2>7. Fits(hand, states, Item(pt, e.g, "bot", s.i, e.j, e.fl, e.fr, s.w \o e.w, p, a))
    BY <2>1, <2>5, ItemFits
  <2> QED  BY <2>2, <2>6, <2>7 DEF Good
<1>3. ASSUME NEW r \in CompleteLeft(p) PROVE Good(r.t)
  <2>1. PICK v \in Asked(s) : head(v) # 0 /\ r = Call(<<v[1], v[2], 0, 0>>, t(v))
    BY DEF CompleteLeft
  <2> HIDE DEF t, head, s
  <2>2. r.t = t(v)
    BY <2>1, CallFields
  <2> QED  BY <1>2, <2>1, <2>2
<1> QED  BY <1>3 DEF AllGood

\* And for a right one.
LEMMA CompleteRightGood ==
  ASSUME DeductionInv, NEW p \in ItemIds, states[p].pos = "top",
         hand.up[states[p].n] # 0, SpineTop(hand, states[p].n),
         hand.side[states[p].n] = "right"
  PROVE  AllGood(CompleteRight(p))
<1> DEFINE s == states[p]
           pt == hand.up[s.n]
           head(v) == states[CellOf(s.i, s.j)[v[1]]].bp[v[2]].c
           sib(v) == states[head(v)]
           t(v) == Item(pt, sib(v).g, "bot", sib(v).i, s.j, sib(v).fl, sib(v).fr,
                        sib(v).w \o s.w, head(v), p)
<1>1. /\ p \in Nat /\ p # 0 /\ s.i \in Int /\ s.j \in Int /\ s.n \in hand.nodes
      /\ Covers(hand, s.n, s.i, s.j, s.fl, s.fr)
      /\ hand \in Hands /\ NeverEmpty(hand, Wordy(hand))
      /\ s.pos = "top" /\ hand.side[s.n] = "right" /\ p \in ItemIds
  BY ItemFacts DEF DeductionInv, Inv
<1>2. ASSUME NEW v \in Asked(s), head(v) # 0 PROVE Good(t(v))
  <2> DEFINE a == head(v)
             e == states[a]
  <2>1. /\ a \in ItemIds /\ e.pos = "top" /\ a # p
        /\ pt \in hand.nodes /\ pt = hand.up[e.n]
        /\ hand.sibling[s.n] = e.n /\ hand.sibling[e.n] = s.n
        /\ hand.head[pt] = hand.head[e.n]
        /\ hand.side[e.n] = "left" /\ e.j = s.i
        /\ ~ Footed(hand, s.n) /\ s.fl = ef /\ s.fr = ef
        /\ \A pos : Whole(hand, pt, pos)
        /\ Confined(hand, states, pt, e.g)
    <3>1. a = AskerOf(p, v) /\ a # 0
      BY <1>2 DEF AskerOf
    <3>2. v \in Asked(states[p]) /\ s = states[p]
      BY <1>2
    <3> HIDE DEF t, sib, head, a, s
    <3>3. Beside(p, a)
      BY <3>1, <3>2, AskerFacts
    <3> QED  BY <3>2, <3>3 DEF Beside
  <2>2. t(v) = Item(pt, e.g, "bot", e.i, s.j, e.fl, e.fr, e.w \o s.w, a, p)
    OBVIOUS
  <2>3. pt # 0
    OBVIOUS
  <2> HIDE DEF t, sib, head
  <2> HIDE DEF a, e
  <2>4. /\ e.n \in hand.nodes /\ e.i \in Int /\ e.j \in Int /\ e.fl \in Int /\ e.fr \in Int
        /\ Covers(hand, e.n, e.i, e.j, e.fl, e.fr)
    BY <2>1, ItemFacts DEF e
  <2> HIDE DEF s, pt
  <2>5. Covers(hand, pt, e.i, s.j, e.fl, e.fr)
    <3>1. ef \in Int  BY DEF ef
    <3>2. Covers(hand, hand.up[e.n], IF e.j = s.i THEN e.i ELSE s.i, IF e.j = s.i THEN s.j ELSE e.j,
                 e.fl, e.fr)
      BY <1>1, <2>1, <2>3, <2>4, <3>1, CoversPair
    <3> QED  BY <2>1, <3>2
  <2>6. Justified(hand, states, Item(pt, e.g, "bot", e.i, s.j, e.fl, e.fr, e.w \o s.w, a, p))
    BY <1>1, <2>1, BinaryStep DEF s, e
  <2>7. Fits(hand, states, Item(pt, e.g, "bot", e.i, s.j, e.fl, e.fr, e.w \o s.w, a, p))
    BY <2>1, <2>5, ItemFits
  <2> QED  BY <2>2, <2>6, <2>7 DEF Good
<1>3. ASSUME NEW r \in CompleteRight(p) PROVE Good(r.t)
  <2>1. PICK v \in Asked(s) : head(v) # 0 /\ r = Call(<<v[1], v[2], 0, 0>>, t(v))
    BY DEF CompleteRight
  <2> HIDE DEF t, head, s
  <2>2. r.t = t(v)
    BY <2>1, CallFields
  <2> QED  BY <1>2, <2>1, <2>2
<1> QED  BY <1>3 DEF AllGood

\* Every call of hparse_completer is on a good state.
LEMMA CompleterCallsGood ==
  ASSUME DeductionInv, NEW p \in Ids, MayComplete(states[p])
  PROVE  AllGood(CompleterCalls(p))
<1> DEFINE n == states[p].n
<1>1. /\ p \in ItemIds /\ n \in hand.nodes /\ states[p].pos = "top" /\ states[p].g # 0
      /\ n = states[states[p].g].n /\ Inv /\ hand \in Hands
  BY StatesOK DEF MayComplete, ItemIds, DeductionInv, Inv
<1>2. SpineTop(hand, n)
  BY <1>1, StatesOK DEF Aims
<1>3. CASE hand.up[n] = 0
  BY <1>1, <1>3, CompleteInitGood, CompleteAuxGood DEF CompleterCalls
<1>4. CASE hand.up[n] # 0
  <2>1. hand.side[n] \in {"left", "right"}
    BY <1>1, <1>2, <1>4, NodeFacts DEF SpineTop
  <2>2. CASE hand.side[n] = "left"
    BY <1>1, <1>2, <1>4, <2>2, CompleteLeftGood DEF CompleterCalls
  <2>3. CASE hand.side[n] = "right"
    BY <1>1, <1>2, <1>4, <2>3, CompleteRightGood DEF CompleterCalls
  <2> QED  BY <2>1, <2>2, <2>3
<1> QED  BY <1>3, <1>4

-----------------------------------------------------------------------------
(* What is kept as states are added, merged and retyped.                   *)

\* A state that fits goes on doing so.
LEMMA FitsKept ==
  ASSUME NEW h, NEW st, NEW new, Len(st) \in Nat, Keeps(st, new),
         NEW s, s.g \in 0 .. Len(st), Fits(h, st, s)
  PROVE  Fits(h, new, s)
<1>1. s.g # 0 => new[s.g].i = st[s.g].i /\ new[s.g].j = st[s.g].j
  BY DEF Keeps
<1>2. Confined(h, st, s.n, s.g) => Confined(h, new, s.n, s.g)
  BY <1>1 DEF Confined
<1> QED  BY <1>2 DEF Fits

\* What justifies a state goes on doing so.
LEMMA JustifiedKept ==
  ASSUME NEW h, NEW st, NEW new, Len(st) \in Nat, Keeps(st, new),
         NEW s, Justified(h, st, s),
         \A k \in DOMAIN s.bp : s.bp[k].b \in 0 .. Len(st) /\ s.bp[k].c \in 0 .. Len(st)
  PROVE  Justified(h, new, s)
<1> SUFFICES ASSUME s.type = "item", NEW k \in DOMAIN s.bp
             PROVE  Premises(h, new, s.bp[k], Content(s))
  BY DEF Justified
<1> DEFINE q == s.bp[k]
           x == Content(s)
<1>1. Premises(h, st, q, x)
  BY DEF Justified
<1>2. q.b \in 0 .. Len(st) /\ q.c \in 0 .. Len(st)
  OBVIOUS
<1> HIDE DEF q, x
<1>3. q.b \in 1 .. Len(st) /\ (q.c # 0 => q.c \in 1 .. Len(st))
  BY <1>1, <1>2 DEF Premises
<1>4. /\ new[q.b].type = "item" <=> st[q.b].type = "item"
      /\ Content(new[q.b]) = Content(st[q.b])
  BY <1>3 DEF Keeps
<1>5. q.c # 0 => /\ new[q.c].type = "item" <=> st[q.c].type = "item"
                 /\ Content(new[q.c]) = Content(st[q.c])
  BY <1>3 DEF Keeps
<1>6. Premises(h, new, q, x)
  BY <1>1, <1>4, <1>5 DEF Premises
<1> QED  BY <1>6 DEF q, x

\* A state that is left alone still fits and is still justified.
LEMMA StateKept ==
  ASSUME DeductionInv, NEW new, Keeps(states, new), NEW p \in Ids
  PROVE  Fits(hand, new, states[p]) /\ Justified(hand, new, states[p])
<1>1. /\ Len(states) \in Nat /\ Bounded(hand, states, states[p])
      /\ Fits(hand, states, states[p]) /\ Justified(hand, states, states[p])
  BY StatesOK DEF DeductionInv, Sound
<1>2. Fits(hand, new, states[p])
  BY <1>1, FitsKept DEF Bounded
<1>3. Justified(hand, new, states[p])
  BY <1>1, JustifiedKept DEF Bounded
<1> QED  BY <1>2, <1>3

\* A step that keeps the states, justifies those it changes and leaves good
\* calls preserves the invariant.
LEMMA StepDed ==
  ASSUME DeductionInv, Inv', hand' = hand, Keeps(states, states'), stage' # "abort",
         \A p \in Ids' : Fits(hand, states', states'[p]) /\ Justified(hand, states', states'[p]),
         \A r \in todo' : Bounded(hand, states, r.t) /\ Good(r.t)
  PROVE  DeductionInv'
<1>1. Len(states) \in Nat /\ NeverEmpty(hand, Wordy(hand))
  BY StatesOK DEF DeductionInv
<1>2. ASSUME NEW r \in todo'
      PROVE  /\ Fits(hand, states', r.t)
             /\ \/ r.t.g # 0 /\ (states'[r.t.g].i > r.t.i \/ states'[r.t.g].j < r.t.j)
                \/ Justified(hand, states', r.t)
  <2>1. Bounded(hand, states, r.t) /\ Fits(hand, states, r.t)
        /\ (OutOfGoal(r.t) \/ Justified(hand, states, r.t))
    BY DEF Good
  <2>2. Fits(hand, states', r.t)
    BY <1>1, <2>1, FitsKept DEF Bounded
  <2>3. CASE OutOfGoal(r.t)
    <3>1. r.t.g \in 0 .. Len(states) /\ r.t.g # 0
          /\ (states[r.t.g].i > r.t.i \/ states[r.t.g].j < r.t.j)
      BY <2>1, <2>3 DEF OutOfGoal, Bounded
    <3>2. states'[r.t.g].i = states[r.t.g].i /\ states'[r.t.g].j = states[r.t.g].j
      BY <1>1, <3>1 DEF Keeps
    <3> QED  BY <2>2, <3>1, <3>2
  <2>4. CASE Justified(hand, states, r.t)
    <3>1. Justified(hand, states', r.t)
      BY <1>1, <2>1, <2>4, JustifiedKept DEF Bounded
    <3> QED  BY <2>2, <3>1
  <2> QED  BY <2>1, <2>3, <2>4
<1> QED  BY <1>1, <1>2 DEF DeductionInv, OutOfGoal

\* So does one that changes no state.
LEMMA QuietDed ==
  ASSUME DeductionInv, Inv', UNCHANGED <<hand, states>>, stage' # "abort",
         \A r \in todo' : Bounded(hand, states, r.t) /\ Good(r.t)
  PROVE  DeductionInv'
<1>1. Keeps(states, states')
  BY StatesOK DEF Keeps, DeductionInv
<1>2. Ids' = Ids
  BY DEF Ids
<1>3. \A p \in Ids' : Fits(hand, states', states'[p]) /\ Justified(hand, states', states'[p])
  BY <1>2 DEF DeductionInv
<1> QED  BY <1>1, <1>3, StepDed

\* The calls of a handler, as the steps below need them.
LEMMA CallsGood ==
  ASSUME DeductionInv, Inv', UNCHANGED <<hand, states>>, AllGood(todo')
  PROVE  \A r \in todo' : Bounded(hand, states, r.t) /\ Good(r.t)
BY DEF Inv, Inductive, TypeOK, AllGood

-----------------------------------------------------------------------------
(* No rule concludes one of its premises, so that hp_combine_logprob never  *)
(* meets a state that is its own child.                                     *)

\* The fields of a fact.
LEMMA ContentFields ==
  ASSUME NEW s
  PROVE  LET x == Content(s)
         IN /\ x.n = s.n /\ x.pos = s.pos /\ x.i = s.i /\ x.j = s.j
            /\ x.fl = s.fl /\ x.fr = s.fr /\ x.w = s.w
BY DEF Content

\* The rules with one premise: two change the place in the node, and a
\* substitution node is no root.
LEMMA OneIsNew ==
  ASSUME DeductionInv, NEW p \in ItemIds
  PROVE  Content(states[p]) \notin D!FromOne(hand, Content(states[p]))
<1> DEFINE x == Content(states[p])
<1>1. /\ x.n \in hand.nodes /\ hand \in Hands
      /\ x = [n |-> x.n, pos |-> x.pos, i |-> x.i, j |-> x.j, fl |-> x.fl, fr |-> x.fr, w |-> x.w]
  BY ItemFacts DEF DeductionInv, Inv, Content
<1> HIDE DEF x
<1>2. x \notin D!NullAdjunction(hand, x)
  <2> SUFFICES ASSUME x.pos = "bot", x = [x EXCEPT !.pos = "top"]
               PROVE  FALSE
    BY DEF D!NullAdjunction
  <2>1. [x EXCEPT !.pos = "top"].pos = "top"
    BY <1>1
  <2> QED  BY <2>1
<1>3. x \notin D!Unary(hand, x)
  <2> SUFFICES ASSUME x.pos = "top", x = [x EXCEPT !.n = hand.up[x.n], !.pos = "bot"]
               PROVE  FALSE
    BY DEF D!Unary
  <2> DEFINE y == [x EXCEPT !.n = hand.up[x.n]]
  <2>1. "pos" \in DOMAIN y
    BY <1>1
  <2>2. x = [y EXCEPT !.pos = "bot"]
    OBVIOUS
  <2> HIDE DEF y
  <2>3. x.pos = "bot"
    BY <2>1, <2>2
  <2> QED  BY <2>3
<1>4. x \notin D!Substitution(hand, x)
  <2> SUFFICES ASSUME hand.up[x.n] = 0, NEW m \in hand.nodes, hand.kind[m] = "subst",
                      x = D!Fact(m, "top", x.i, x.j, D!noFoot, D!noFoot, <<>>)
               PROVE  FALSE
    BY DEF D!Substitution, D!IsRoot
  <2>1. x.n = m
    BY DEF D!Fact
  <2>2. hand.up[m] # 0
    BY <1>1, NodeFacts
  <2> QED  BY <2>1, <2>2
<1> QED  BY <1>2, <1>3, <1>4 DEF D!FromOne, x

\* Two children make their parent, which is no child of its own.
LEMMA BinaryIsNew ==
  ASSUME NEW h, NEW x, NEW y
  PROVE  x \notin D!Binary(h, x, y) /\ y \notin D!Binary(h, x, y)
<1> SUFFICES ASSUME NEW z \in D!Binary(h, x, y)
             PROVE  z # x /\ z # y
  OBVIOUS
<1>1. /\ x.pos = "top" /\ y.pos = "top"
      /\ \E n, i, j, fl, fr, w : z = D!Fact(n, "bot", i, j, fl, fr, w)
  BY DEF D!Binary
<1>2. z.pos = "bot"
  BY <1>1 DEF D!Fact
<1> QED  BY <1>1, <1>2

\* An adjunction changes the span of the item, and the tree adjoined has words
\* around the item, which it would not have around itself.
LEMMA AdjunctionIsNew ==
  ASSUME DeductionInv, NEW b \in ItemIds, NEW c \in ItemIds
  PROVE  LET x == Content(states[b])
             y == Content(states[c])
         IN x \notin D!Adjunction(hand, x, y) /\ y \notin D!Adjunction(hand, x, y)
<1> DEFINE x == Content(states[b])
           y == Content(states[c])
<1>1. /\ x.n \in hand.nodes /\ x.fl \in Int /\ x.fr \in Int
      /\ y.n \in hand.nodes /\ y.i \in Int /\ y.j \in Int /\ y.fl \in Int /\ y.fr \in Int
      /\ Covers(hand, y.n, y.i, y.j, y.fl, y.fr)
      /\ hand \in Hands /\ NeverEmpty(hand, Wordy(hand))
      /\ DOMAIN y = {"n", "pos", "i", "j", "fl", "fr", "w"}
  BY ItemFacts DEF DeductionInv, Inv, Content
<1> SUFFICES ASSUME NEW z \in D!Adjunction(hand, x, y)
             PROVE  z # x /\ z # y
  BY DEF x, y
<1> HIDE DEF x, y
<1>2. /\ hand.up[x.n] = 0 /\ hand.foot[x.n] # 0 /\ x.pos = "top"
      /\ x.fl = y.i /\ x.fr = y.j /\ <<x.i, x.j>> # <<y.i, y.j>>
      /\ \E pos : z = [y EXCEPT !.i = x.i, !.j = x.j, !.pos = pos]
  BY DEF D!Adjunction, D!IsRoot
<1>3. /\ z.n = y.n /\ z.fl = y.fl /\ z.fr = y.fr /\ z.i = x.i /\ z.j = x.j
  <2>1. PICK pos : z = [y EXCEPT !.i = x.i, !.j = x.j, !.pos = pos]
    BY <1>2
  <2> DEFINE y1 == [y EXCEPT !.i = x.i]
             y2 == [y1 EXCEPT !.j = x.j]
  <2>2. y1.n = y.n /\ y1.fl = y.fl /\ y1.fr = y.fr /\ y1.i = x.i
        /\ DOMAIN y1 = {"n", "pos", "i", "j", "fl", "fr", "w"}
    BY <1>1
  <2>3. z = [y2 EXCEPT !.pos = pos]
    BY <2>1
  <2> HIDE DEF y1
  <2>4. y2.n = y.n /\ y2.fl = y.fl /\ y2.fr = y.fr /\ y2.i = x.i /\ y2.j = x.j
        /\ DOMAIN y2 = {"n", "pos", "i", "j", "fl", "fr", "w"}
    BY <2>2
  <2> HIDE DEF y2
  <2> QED  BY <2>3, <2>4
<1>4. z # y
  BY <1>2, <1>3
<1>5. z # x
  <2> SUFFICES ASSUME z = x PROVE FALSE
    OBVIOUS
  <2>1. x.n = y.n /\ y.fl = y.i /\ y.fr = y.j
    BY <1>2, <1>3
  <2>2. Footed(hand, y.n) /\ y.n \in Wordy(hand)
    BY <1>1, <1>2, <2>1, NodeFacts, WordyFacts DEF Footed
  <2> QED  BY <1>1, <2>1, <2>2 DEF Covers
<1> QED  BY <1>4, <1>5

\* Hence an item is not among the premises of a rule that concludes it.
LEMMA NotOwnPremise ==
  ASSUME DeductionInv, NEW d \in ItemIds, NEW q,
         q.b \in 0 .. Len(states), q.c \in 0 .. Len(states),
         Premises(hand, states, q, Content(states[d]))
  PROVE  d # q.b /\ d # q.c
<1>1. q.b \in ItemIds /\ (q.c # 0 => q.c \in ItemIds) /\ d # 0
  BY StatesOK DEF Premises, ItemIds, DeductionInv
<1>2. CASE q.c = 0
  <2>1. Content(states[d]) \in D!FromOne(hand, Content(states[q.b]))
    BY <1>2 DEF Premises
  <2> QED  BY <1>1, <1>2, <2>1, OneIsNew
<1>3. CASE q.c # 0
  <2> DEFINE x == Content(states[q.b])
             y == Content(states[q.c])
  <2>1. \/ Content(states[d]) \in D!Binary(hand, x, y)
        \/ Content(states[d]) \in D!Adjunction(hand, x, y)
    BY <1>3 DEF Premises, D!FromTwo
  <2>2. /\ x \notin D!Binary(hand, x, y) /\ y \notin D!Binary(hand, x, y)
        /\ x \notin D!Adjunction(hand, x, y) /\ y \notin D!Adjunction(hand, x, y)
    BY <1>1, <1>3, BinaryIsNew, AdjunctionIsNew
  <2> QED  BY <2>1, <2>2
<1> QED  BY <1>2, <1>3

-----------------------------------------------------------------------------
(* hparse_add.                                                             *)

\* A stored state was a good call.
LEMMA StoreDed ==
  ASSUME DeductionInv, Inv', NEW t, Sound(hand, states, t), Good(t), ~ OutOfGoal(t), Store(t),
         UNCHANGED hand, todo' \subseteq todo
  PROVE  DeductionInv'
<1>1. /\ states \in Seq(State) /\ Len(states) \in Nat /\ Ids = 1 .. Len(states)
      /\ Bounded(hand, states, t) /\ t \in State
  BY StatesOK DEF Sound, Bounded, DeductionInv
<1>2. states' = Append(states, t) /\ stage' = stage
  BY DEF Store
<1>3. /\ Len(states') = Len(states) + 1 /\ states'[Len(states) + 1] = t
      /\ \A p \in Ids : states'[p] = states[p]
  BY <1>1, <1>2, AppendProperties
<1>4. Ids' = Ids \cup {Len(states) + 1}
  BY <1>1, <1>2, AppendProperties DEF Ids
<1>5. Keeps(states, states')
  BY <1>1, <1>3 DEF Keeps
<1>6. Fits(hand, states, t) /\ Justified(hand, states, t)
  BY DEF Good
<1>7. Fits(hand, states', t) /\ Justified(hand, states', t)
  <2>1. Fits(hand, states', t)
    BY <1>1, <1>5, <1>6, FitsKept DEF Bounded
  <2>2. Justified(hand, states', t)
    BY <1>1, <1>5, <1>6, JustifiedKept DEF Bounded
  <2> QED  BY <2>1, <2>2
<1>8. ASSUME NEW p \in Ids'
      PROVE  Fits(hand, states', states'[p]) /\ Justified(hand, states', states'[p])
  <2>1. CASE p \in Ids
    BY <1>3, <1>5, <2>1, StateKept
  <2>2. CASE p = Len(states) + 1
    BY <1>3, <1>7, <2>2
  <2> QED  BY <1>4, <2>1, <2>2
<1>9. \A r \in todo' : Bounded(hand, states, r.t) /\ Good(r.t)
  BY DEF DeductionInv, Inv, Inductive, TypeOK, Good
<1>10. stage' # "abort"
  BY <1>2 DEF DeductionInv
<1> QED  BY <1>5, <1>8, <1>9, <1>10, StepDed

\* The state d that makes t superfluous is no child of t.
LEMMA NoChild ==
  ASSUME DeductionInv, NEW t, Sound(hand, states, t), Good(t), ~ OutOfGoal(t),
         NEW d \in Ids, AddEq(states[d], t), t.bp # <<>>
  PROVE  d \notin {t.bp[1].b, t.bp[1].c}
<1> DEFINE q == t.bp[1]
<1>1. /\ t.bp \in Seq(Backptr) /\ 1 \in DOMAIN t.bp
      /\ q.b \in 0 .. Len(states) /\ q.c \in 0 .. Len(states)
  <2>1. t.bp \in Seq(Backptr) /\ Bounded(hand, states, t)
    BY DEF Sound, Bounded, State
  <2>2. 1 \in DOMAIN t.bp
    BY <2>1
  <2> QED  BY <2>1, <2>2 DEF Bounded
<1>2. d # 0
  BY StatesOK DEF DeductionInv
<1>3. CASE t.type = "item"
  <2>1. d \in ItemIds /\ Content(states[d]) = Content(t)
    BY <1>3 DEF AddEq, ItemIds, Content
  <2>2. Premises(hand, states, q, Content(t))
    BY <1>1, <1>3 DEF Good, Justified
  <2> HIDE DEF q
  <2>3. d # q.b /\ d # q.c
    BY <1>1, <2>1, <2>2, NotOwnPremise
  <2> QED  BY <2>3 DEF q
<1>4. CASE t.type # "item"
  <2>1. states[d].type # "item"
    BY <1>4 DEF AddEq
  <2>2. /\ q.b # 0 => states[q.b].type = "item"
        /\ q.c # 0 => states[q.c].type = "item"
    BY <1>1, <1>4 DEF Sound, Asks, Asker
  <2> HIDE DEF q
  <2>3. d # q.b /\ d # q.c
    BY <1>2, <2>1, <2>2
  <2> QED  BY <2>3 DEF q
<1> QED  BY <1>3, <1>4

\* The back pointers of t justify d as well.
LEMMA MergedGood ==
  ASSUME DeductionInv, NEW t, Sound(hand, states, t), Good(t), ~ OutOfGoal(t),
         NEW d \in Ids, AddEq(states[d], t), NEW ptrs, SomeOf(ptrs, t.bp)
  PROVE  /\ Keeps(states, Merged(d, ptrs)) /\ DOMAIN Merged(d, ptrs) = Ids
         /\ \A p \in Ids : /\ Fits(hand, Merged(d, ptrs), Merged(d, ptrs)[p])
                           /\ Justified(hand, Merged(d, ptrs), Merged(d, ptrs)[p])
<1> DEFINE new == Merged(d, ptrs)
<1>1. /\ states \in Seq(State) /\ Len(states) \in Nat /\ Ids = 1 .. Len(states)
      /\ DOMAIN states = Ids
      /\ ptrs \in Seq(Backptr) /\ \A k \in DOMAIN ptrs : \E l \in DOMAIN t.bp : ptrs[k] = t.bp[l]
  BY StatesOK DEF DeductionInv, Ids, SomeOf
<1>2. /\ DOMAIN new = Ids /\ Len(new) = Len(states)
      /\ \A p \in Ids \ {d} : new[p] = states[p]
  BY <1>1, MergedOK DEF Merged, DeductionInv
<1>3. \A p \in Ids :
        LET s == new[p]
        IN /\ s.n = states[p].n /\ s.pos = states[p].pos /\ s.i = states[p].i
           /\ s.j = states[p].j /\ s.fl = states[p].fl /\ s.fr = states[p].fr
           /\ s.w = states[p].w /\ s.g = states[p].g /\ s.type = states[p].type
           /\ s.bp = IF p = d THEN states[d].bp \o ptrs ELSE states[p].bp
  BY <1>1, MergedFields
<1> HIDE DEF new
<1>4. Keeps(states, new)
  BY <1>1, <1>2, <1>3 DEF Keeps, Content
<1>5. Fits(hand, new, states[d]) /\ Justified(hand, new, states[d])
  BY <1>4, StateKept
<1>6. Fits(hand, new, new[d])
  BY <1>3, <1>5 DEF Fits
<1>7. Justified(hand, new, new[d])
  <2> DEFINE s == states[d]
             u == new[d]
  <2>1. Content(u) = Content(s) /\ u.type = s.type /\ u.bp = s.bp \o ptrs
        /\ s.bp \in Seq(Backptr)
    <3>1. s \in State
      BY <1>1
    <3>2. s.bp \in Seq(Backptr)
      BY <3>1 DEF State
    <3> QED  BY <1>3, <3>2 DEF Content
  <2>2. /\ Len(u.bp) = Len(s.bp) + Len(ptrs) /\ u.bp \in Seq(Backptr)
        /\ \A k \in 1 .. Len(s.bp) + Len(ptrs) :
             u.bp[k] = IF k <= Len(s.bp) THEN s.bp[k] ELSE ptrs[k - Len(s.bp)]
    BY <1>1, <2>1, ConcatProperties
  <2>3. Content(t) = Content(s) /\ (t.type = "item" <=> s.type = "item")
    BY DEF AddEq, Content
  <2>4. Justified(hand, new, s)
    BY <1>5
  <2>5. Justified(hand, new, t)
    BY <1>1, <1>4, JustifiedKept DEF Good, Sound, Bounded
  <2> HIDE DEF s, u
  <2> SUFFICES ASSUME u.type = "item"
               PROVE  /\ u.bp = <<>> => Content(u) \in D!Axioms(hand)
                      /\ \A k \in DOMAIN u.bp : Premises(hand, new, u.bp[k], Content(u))
    BY DEF Justified, u
  <2>6. u.bp = <<>> => s.bp = <<>>
    BY <2>1, <2>2
  <2>7. ASSUME NEW k \in DOMAIN u.bp
        PROVE  Premises(hand, new, u.bp[k], Content(u))
    <3>1. k \in 1 .. Len(s.bp) + Len(ptrs) /\ Len(s.bp) \in Nat /\ Len(ptrs) \in Nat
      BY <1>1, <2>1, <2>2
    <3>2. CASE k <= Len(s.bp)
      <4>1. k \in DOMAIN s.bp /\ u.bp[k] = s.bp[k]
        BY <2>1, <2>2, <3>1, <3>2
      <4> QED  BY <2>1, <2>4, <4>1 DEF Justified
    <3>3. CASE ~ (k <= Len(s.bp))
      <4>1. k - Len(s.bp) \in DOMAIN ptrs /\ u.bp[k] = ptrs[k - Len(s.bp)]
        BY <1>1, <2>2, <3>1, <3>3
      <4>2. PICK l \in DOMAIN t.bp : u.bp[k] = t.bp[l]
        BY <1>1, <4>1
      <4> QED  BY <2>1, <2>3, <2>5, <4>2 DEF Justified
    <3> QED  BY <3>2, <3>3
  <2> QED  BY <2>1, <2>4, <2>6, <2>7 DEF Justified
<1>8. \A p \in Ids \ {d} : Fits(hand, new, new[p]) /\ Justified(hand, new, new[p])
  BY <1>2, <1>4, StateKept
<1> QED  BY <1>2, <1>4, <1>6, <1>7, <1>8 DEF new

\* hp_combine_logprob keeps what is known of d and does not stop.
LEMMA MergeKeeps ==
  ASSUME DeductionInv, NEW t, Sound(hand, states, t), Good(t), ~ OutOfGoal(t),
         CheckHeap(t) # 0, Merge(CheckHeap(t), t)
  PROVE  /\ Keeps(states, states') /\ Ids' = Ids /\ stage' # "abort"
         /\ \A p \in Ids : /\ Fits(hand, states', states'[p])
                           /\ Justified(hand, states', states'[p])
<1> DEFINE d == CheckHeap(t)
<1>1. d \in Ids /\ AddEq(states[d], t) /\ Merge(d, t)
  BY CheckHeapIn DEF Sound, DeductionInv
<1> HIDE DEF d
<1>2. /\ stage' = stage \/ (stage' = "abort" /\ t.bp # <<>> /\ d \in {t.bp[1].b, t.bp[1].c})
      /\ states' = states \/ \E ptrs : SomeOf(ptrs, t.bp) /\ states' = Merged(d, ptrs)
  BY <1>1, MergeIs
<1>3. stage' # "abort"
  BY <1>1, <1>2, NoChild DEF DeductionInv
<1>4. CASE states' = states
  <2>1. Keeps(states, states') /\ Ids' = Ids
    BY <1>4, StatesOK DEF Keeps, Ids, DeductionInv
  <2> QED  BY <1>3, <1>4, <2>1 DEF DeductionInv
<1>5. CASE states' # states
  <2>1. PICK ptrs : SomeOf(ptrs, t.bp) /\ states' = Merged(d, ptrs)
    BY <1>2, <1>5
  <2>2. /\ Keeps(states, states') /\ DOMAIN states' = Ids
        /\ \A p \in Ids : /\ Fits(hand, states', states'[p])
                          /\ Justified(hand, states', states'[p])
    BY <1>1, <2>1, MergedGood
  <2> QED  BY <1>3, <2>2 DEF Ids
<1> QED  BY <1>4, <1>5

\* A merged one leaves its pointers to a state they justify as well.
LEMMA MergeDed ==
  ASSUME DeductionInv, Inv', NEW t, Sound(hand, states, t), Good(t), ~ OutOfGoal(t),
         CheckHeap(t) # 0, Merge(CheckHeap(t), t), UNCHANGED hand, todo' \subseteq todo
  PROVE  DeductionInv'
<1>1. \A r \in todo' : Bounded(hand, states, r.t) /\ Good(r.t)
  BY DEF DeductionInv, Inv, Inductive, TypeOK, Good
<1> QED  BY <1>1, MergeKeeps, StepDed

\* hparse_add preserves the invariant.
LEMMA AddDed ==
  ASSUME DeductionInv, Inv', Add
  PROVE  DeductionInv'
<1>1. PICK r \in todo : hparse_add(r.t) /\ todo' = todo \ {r}
  BY DEF Add
<1>2. UNCHANGED hand /\ todo' \subseteq todo
  BY <1>1 DEF Add
<1>3. Sound(hand, states, r.t) /\ Good(r.t)
  BY DEF DeductionInv, Inv, Inductive, Good
<1>4. CASE Drop(r.t)
  <2>1. states' = states /\ stage' = stage
    BY <1>4 DEF Drop
  <2>2. \A q \in todo' : Bounded(hand, states, q.t) /\ Good(q.t)
    BY <1>2 DEF DeductionInv, Inv, Inductive, TypeOK, Good
  <2>3. stage' # "abort"
    BY <2>1 DEF DeductionInv
  <2> QED  BY <1>2, <2>1, <2>2, <2>3, QuietDed
<1>5. CASE ~ OutOfGoal(r.t) /\ CheckHeap(r.t) # 0 /\ Merge(CheckHeap(r.t), r.t)
  BY <1>2, <1>3, <1>5, MergeDed
<1>6. CASE ~ OutOfGoal(r.t) /\ Store(r.t)
  BY <1>2, <1>3, <1>6, StoreDed
<1> QED  BY <1>1, <1>4, <1>5, <1>6 DEF hparse_add

-----------------------------------------------------------------------------
(* The three handlers.                                                     *)

\* hparse_init_head changes no item, and nothing in a prediction that matters
\* to whether it fits.
LEMMA InitHeadKeeps ==
  ASSUME DeductionInv, InitHead
  PROVE  /\ Keeps(states, states') /\ Ids' = Ids
         /\ \A q \in Ids : /\ Fits(hand, states', states'[q])
                           /\ Justified(hand, states', states'[q])
<1> DEFINE p == plist[idx]
           hc == hand.head[states[p].n]
<1>1. /\ p \in Ids /\ states \in Seq(State) /\ Ids = 1 .. Len(states) /\ Len(states) \in Nat
      /\ DOMAIN states = Ids
  BY ListPlace, StatesOK DEF InitHead, DeductionInv, Ids
<1>2. CASE states[p].type # "init"
  <2>1. states' = states /\ Ids' = Ids
    BY <1>2 DEF InitHead, Ids
  <2>2. Keeps(states, states')
    BY <1>1, <2>1 DEF Keeps
  <2> QED  BY <2>1, <2>2 DEF DeductionInv
<1>3. CASE states[p].type = "init"
  <2> DEFINE g == IF hand.kind[hc] = "subst" /\ OwnGoal(p, hc) THEN p ELSE states[p].g
  <2>1. states' = Retyped(p, g)
    BY <1>3 DEF InitHead, Retyped
  <2> HIDE DEF g, p, hc
  <2>2. \A q \in Ids :
          LET s == states'[q]
          IN /\ s.n = states[q].n /\ s.pos = states[q].pos /\ s.i = states[q].i
             /\ s.j = states[q].j /\ s.fl = states[q].fl /\ s.fr = states[q].fr
             /\ s.w = states[q].w /\ s.bp = states[q].bp
             /\ s.g = IF q = p THEN g ELSE states[q].g
             /\ s.type = IF q = p THEN "goal" ELSE states[q].type
    BY <1>1, <2>1, RetypedFields
  <2>3. DOMAIN states' = Ids /\ Len(states') = Len(states) /\ Ids' = Ids
    BY <1>1, <2>1 DEF Retyped, Ids
  <2>4. Keeps(states, states')
    BY <1>1, <1>3, <2>2, <2>3 DEF Keeps, Content
  <2>5. ASSUME NEW q \in Ids
        PROVE  Fits(hand, states', states'[q]) /\ Justified(hand, states', states'[q])
    <3>1. Fits(hand, states', states[q]) /\ Justified(hand, states', states[q])
      BY <2>4, StateKept
    <3>2. CASE q = p
      <4>1. states'[q].type # "item" /\ states[q].type # "item"
        BY <1>1, <1>3, <2>2, <3>2
      <4>2. Fits(hand, states', states'[q])
        BY <2>2, <3>1, <4>1 DEF Fits
      <4> QED  BY <4>1, <4>2 DEF Justified
    <3>3. CASE q # p
      <4>1. Content(states'[q]) = Content(states[q])
        BY <2>2 DEF Content
      <4>2. Fits(hand, states', states'[q])
        BY <2>2, <3>1, <3>3 DEF Fits
      <4>3. Justified(hand, states', states'[q])
        BY <2>2, <3>1, <3>3, <4>1 DEF Justified
      <4> QED  BY <4>2, <4>3
    <3> QED  BY <3>2, <3>3
  <2> QED  BY <2>3, <2>4, <2>5
<1> QED  BY <1>2, <1>3

\* hparse_init_head preserves the invariant.
LEMMA InitHeadDed ==
  ASSUME DeductionInv, Inv', InitHead
  PROVE  DeductionInv'
<1> DEFINE p == plist[idx]
<1>1. p \in Ids
  BY ListPlace DEF InitHead, DeductionInv
<1>2. hand' = hand /\ stage' # "abort" /\ todo = {}
  BY DEF InitHead, Current
<1>3. \A r \in todo' : Bounded(hand, states, r.t) /\ Good(r.t)
  <2>1. CASE states[p].type # "init"
    BY <1>2, <2>1 DEF InitHead
  <2>2. CASE states[p].type = "init"
    <3>1. AllGood(HeadCalls(p))
      BY <1>1, <2>2, HeadCallsGood
    <3>2. \A r \in HeadCalls(p) : Sound(hand, states, r.t)
      BY <1>1, <2>2, HeadCallsOK DEF DeductionInv, CallsOK
    <3>3. todo' = HeadCalls(p)
      BY <2>2 DEF InitHead
    <3> QED  BY <3>1, <3>2, <3>3 DEF AllGood, Sound
  <2> QED  BY <2>1, <2>2
<1> QED  BY <1>2, <1>3, InitHeadKeeps, StepDed

\* hparse_move_up preserves the invariant.
LEMMA MoveUpDed ==
  ASSUME DeductionInv, Inv', MoveUp
  PROVE  DeductionInv'
<1>1. plist[idx] \in Ids
  BY ListPlace DEF MoveUp, DeductionInv
<1>2. UNCHANGED <<hand, states>> /\ stage' # "abort"
  BY DEF MoveUp
<1>3. AllGood(todo')
  BY <1>1, MoveUpCallsGood DEF MoveUp, AllGood
<1> QED  BY <1>2, <1>3, CallsGood, QuietDed

\* hparse_completer preserves the invariant.
LEMMA CompleterDed ==
  ASSUME DeductionInv, Inv', Completer
  PROVE  DeductionInv'
<1>1. plist[idx] \in Ids
  BY ListPlace DEF Completer, DeductionInv
<1>2. UNCHANGED <<hand, states>> /\ stage' # "abort"
  BY DEF Completer
<1>3. AllGood(todo')
  BY <1>1, CompleterCallsGood DEF Completer, AllGood
<1> QED  BY <1>2, <1>3, CallsGood, QuietDed

\* Swapping the lists preserves the invariant.
LEMMA NextListDed ==
  ASSUME DeductionInv, Inv', NextList
  PROVE  DeductionInv'
<1>1. UNCHANGED <<hand, states, todo>> /\ stage' # "abort" /\ todo = {}
  BY DEF NextList
<1> QED  BY <1>1, QuietDed

\* Every step of the parser preserves the invariant.
LEMMA NextDed ==
  ASSUME DeductionInv, [Next]_vars
  PROVE  DeductionInv'
<1>1. Inv'
  BY NextInv DEF DeductionInv
<1>2. CASE Next
  BY <1>1, <1>2, AddDed, InitHeadDed, MoveUpDed, CompleterDed, NextListDed DEF Next
<1>3. CASE UNCHANGED vars
  <2>1. UNCHANGED <<hand, states, todo, stage>>
    BY <1>3 DEF vars
  <2>2. \A r \in todo' : Bounded(hand, states, r.t) /\ Good(r.t)
    BY <2>1 DEF DeductionInv, Inv, Inductive, TypeOK, Good
  <2>3. stage' # "abort"
    BY <2>1 DEF DeductionInv
  <2> QED  BY <1>1, <2>1, <2>2, <2>3, QuietDed
<1> QED  BY <1>2, <1>3

\* The seeds of hparse() are predictions of initial trees.
LEMMA InitDed ==
  ASSUME AuxLexical, Init
  PROVE  DeductionInv
<1>1. Inv
  BY InitInv
<1>2. /\ hand \in Hands /\ states = <<>> /\ stage # "abort" /\ todo = Seeds(hand)
  BY DEF Init
<1>3. NeverEmpty(hand, Wordy(hand))
  BY <1>2 DEF AuxLexical, Wordy
<1>4. Ids = {}
  BY <1>2 DEF Ids
<1>5. ASSUME NEW r \in todo
      PROVE  Good(r.t)
  <2> DEFINE t(a, k) == Predict(hand.inits[hand.tops[a]][k], 0, hand.last, ef, ef, 0, 0)
  <2>1. PICK a \in DOMAIN hand.tops : \E k \in DOMAIN hand.inits[hand.tops[a]] :
          r = Call(<<a, k, 0, 0>>, t(a, k))
    BY <1>2 DEF Seeds
  <2>2. PICK k \in DOMAIN hand.inits[hand.tops[a]] : r = Call(<<a, k, 0, 0>>, t(a, k))
    BY <2>1
  <2>3. hand.tops[a] \in DOMAIN hand.inits
    BY <1>2, <2>1, HandOK DEF ListsOK
  <2> DEFINE l == hand.tops[a]
             root == hand.inits[l][k]
  <2>4. root \in hand.nodes /\ hand.up[root] = 0 /\ hand.kind[hand.head[root]] # "foot"
    <3>1. l \in DOMAIN hand.inits /\ k \in DOMAIN hand.inits[l]
      BY <2>2, <2>3
    <3> HIDE DEF l
    <3> QED  BY <1>2, <3>1, RootFacts
  <2> HIDE DEF root
  <2>5. Awaits(hand, root, 0, hand.last, ef, ef)
    BY <1>2, <2>4, NodeFacts DEF Awaits, Footed
  <2>6. Good(Predict(root, 0, hand.last, ef, ef, 0, 0))
    BY <2>5, PredictGood
  <2>7. Good(t(a, k))
    BY <2>6 DEF root
  <2> HIDE DEF t
  <2> QED  BY <2>2, <2>7, CallFields
<1> QED  BY <1>1, <1>2, <1>3, <1>4, <1>5 DEF DeductionInv, Good

-----------------------------------------------------------------------------
(* The parser's steps, seen as steps of TagDeduction.                      *)

\* Nothing but the storing of an item changes what is proven.
LEMMA KeepsProven ==
  ASSUME DeductionInv, Keeps(states, states'), Ids' = Ids
  PROVE  Proven' = Proven
<1>1. \A p \in Ids : /\ states'[p].type = "item" <=> states[p].type = "item"
                     /\ Content(states'[p]) = Content(states[p])
  BY StatesOK DEF Keeps, DeductionInv
<1>2. ItemIds' = ItemIds
  BY <1>1 DEF ItemIds
<1>3. ItemIds \subseteq Ids
  BY DEF ItemIds
<1> QED  BY <1>1, <1>2, <1>3 DEF Proven

\* A justified item is derivable from what is proven.
LEMMA JustifiedDerivable ==
  ASSUME DeductionInv, NEW t, Bounded(hand, states, t), t.type = "item",
         Justified(hand, states, t)
  PROVE  D!Derivable(hand, Content(t), Proven)
<1>1. CASE t.bp = <<>>
  BY <1>1 DEF Justified, D!Derivable
<1>2. CASE t.bp # <<>>
  <2> DEFINE q == t.bp[1]
             f == Content(t)
  <2>1. 1 \in DOMAIN t.bp
    BY <1>2 DEF Bounded, State
  <2>2. q.b \in 0 .. Len(states) /\ q.c \in 0 .. Len(states)
    BY <2>1 DEF Bounded
  <2>3. Premises(hand, states, q, f)
    BY <2>1 DEF Justified
  <2> HIDE DEF q, f
  <2>4. /\ q.b \in ItemIds /\ (q.c # 0 => q.c \in ItemIds)
        /\ IF q.c = 0 THEN f \in D!FromOne(hand, Content(states[q.b]))
           ELSE f \in D!FromTwo(hand, Content(states[q.b]), Content(states[q.c]))
    BY <2>2, <2>3, StatesOK DEF Premises, ItemIds, DeductionInv
  <2>5. Content(states[q.b]) \in Proven /\ (q.c # 0 => Content(states[q.c]) \in Proven)
    BY <2>4 DEF Proven
  <2>6. D!Derivable(hand, f, Proven)
    BY <2>4, <2>5 DEF D!Derivable
  <2> QED  BY <2>6 DEF f
<1> QED  BY <1>1, <1>2

\* Storing a state derives a fact, or nothing new.
LEMMA StoreDerives ==
  ASSUME DeductionInv, NEW t, Sound(hand, states, t), Good(t), ~ OutOfGoal(t), Store(t),
         UNCHANGED hand
  PROVE  Proven' = Proven \/ D!Derive
<1> DEFINE id == Len(states) + 1
           f == Content(t)
<1>1. /\ states \in Seq(State) /\ Len(states) \in Nat /\ Ids = 1 .. Len(states)
      /\ Bounded(hand, states, t) /\ t \in State
  BY StatesOK DEF Sound, Bounded, DeductionInv
<1>2. /\ Len(states') = id /\ states'[id] = t /\ Ids' = Ids \cup {id}
      /\ \A p \in Ids : states'[p] = states[p]
  BY <1>1, AppendProperties DEF Store, Ids
<1>3. Proven' = {Content(states'[p]) : p \in {p \in Ids \cup {id} : states'[p].type = "item"}}
  BY <1>2 DEF Proven, ItemIds
<1> HIDE DEF id, f
<1>4. CASE t.type # "item"
  <2>1. {p \in Ids \cup {id} : states'[p].type = "item"} = ItemIds
    BY <1>2, <1>4 DEF ItemIds
  <2>2. \A p \in ItemIds : states'[p] = states[p]
    BY <1>2 DEF ItemIds
  <2>3. Proven' = {Content(states'[p]) : p \in ItemIds}
    BY <1>3, <2>1
  <2> QED  BY <2>2, <2>3 DEF Proven
<1>5. CASE t.type = "item"
  <2>1. {p \in Ids \cup {id} : states'[p].type = "item"} = ItemIds \cup {id}
    BY <1>2, <1>5 DEF ItemIds
  <2>2. \A p \in ItemIds : states'[p] = states[p]
    BY <1>2 DEF ItemIds
  <2>3. Proven' = {Content(states'[p]) : p \in ItemIds \cup {id}}
    BY <1>3, <2>1
  <2>4. Proven' = Proven \cup {f}
    BY <1>2, <2>2, <2>3 DEF Proven, f
  <2>5. D!Derivable(hand, f, Proven)
    BY <1>1, <1>5, JustifiedDerivable DEF Good, f
  <2>6. CASE f \in Proven
    BY <2>4, <2>6
  <2>7. CASE f \notin Proven
    BY <2>4, <2>5, <2>7 DEF D!Derive
  <2> QED  BY <2>6, <2>7
<1> QED  BY <1>4, <1>5

\* Every step of the parser is a derivation or derives nothing.
LEMMA StepDerives ==
  ASSUME DeductionInv, [Next]_vars
  PROVE  [D!Derive]_<<hand, Proven>>
<1>1. CASE Add
  <2>1. PICK r \in todo : hparse_add(r.t)
    BY <1>1 DEF Add
  <2>2. UNCHANGED hand
    BY <1>1 DEF Add
  <2>3. Sound(hand, states, r.t) /\ Good(r.t)
    BY DEF DeductionInv, Inv, Inductive, Good
  <2>4. CASE Drop(r.t)
    <3>1. Keeps(states, states') /\ Ids' = Ids
      BY <2>4, StatesOK DEF Drop, Keeps, Ids, DeductionInv
    <3> QED  BY <2>2, <3>1, KeepsProven
  <2>5. CASE ~ OutOfGoal(r.t) /\ CheckHeap(r.t) # 0 /\ Merge(CheckHeap(r.t), r.t)
    BY <2>2, <2>3, <2>5, MergeKeeps, KeepsProven
  <2>6. CASE ~ OutOfGoal(r.t) /\ Store(r.t)
    BY <2>2, <2>3, <2>6, StoreDerives
  <2> QED  BY <2>1, <2>4, <2>5, <2>6 DEF hparse_add
<1>2. CASE InitHead
  BY <1>2, InitHeadKeeps, KeepsProven DEF InitHead
<1>3. CASE UNCHANGED <<hand, states>>
  <2>1. Keeps(states, states') /\ Ids' = Ids
    BY <1>3, StatesOK DEF Keeps, Ids, DeductionInv
  <2> QED  BY <1>3, <2>1, KeepsProven
<1>4. MoveUp \/ Completer \/ NextList \/ UNCHANGED vars => UNCHANGED <<hand, states>>
  BY DEF MoveUp, Completer, NextList, vars
<1> QED  BY <1>1, <1>2, <1>3, <1>4 DEF Next

-----------------------------------------------------------------------------
\* The derivation forest can be read off the back pointers: each of them leads
\* to the items an item follows from by one rule of TagDeduction, and an item
\* without any is an axiom (hparse_print_forest_loop meets items only).
THEOREM PointersJustify == AuxLexical /\ Spec => []BackpointersJustify
<1>1. AuxLexical /\ Init => DeductionInv
  BY InitDed
<1>2. DeductionInv /\ [Next]_vars => DeductionInv'
  BY NextDed
<1>3. DeductionInv => BackpointersJustify
  <2> SUFFICES ASSUME DeductionInv, NEW p \in ItemIds
               PROVE  LET x == Content(states[p])
                          one(b) == b \in ItemIds /\ x \in D!FromOne(hand, Content(states[b]))
                          two(b, c) ==
                            /\ b \in ItemIds /\ c \in ItemIds
                            /\ x \in D!FromTwo(hand, Content(states[b]), Content(states[c]))
                      IN /\ states[p].bp = <<>> => x \in D!Axioms(hand)
                         /\ \A k \in DOMAIN states[p].bp :
                              LET q == states[p].bp[k]
                              IN IF q.c = 0 THEN one(q.b) ELSE two(q.b, q.c)
    BY DEF BackpointersJustify
  <2>1. /\ p \in Ids /\ states[p].type = "item" /\ Justified(hand, states, states[p])
        /\ Bounded(hand, states, states[p]) /\ Ids = 1 .. Len(states) /\ Len(states) \in Nat
    BY StatesOK DEF DeductionInv, ItemIds, Sound
  <2>2. ASSUME NEW k \in DOMAIN states[p].bp
        PROVE  /\ Premises(hand, states, states[p].bp[k], Content(states[p]))
               /\ states[p].bp[k].b \in 0 .. Len(states) /\ states[p].bp[k].c \in 0 .. Len(states)
    BY <2>1 DEF Justified, Bounded
  <2>3. states[p].bp = <<>> => Content(states[p]) \in D!Axioms(hand)
    BY <2>1 DEF Justified
  <2> QED  BY <2>1, <2>2, <2>3 DEF Premises, ItemIds
<1> QED  BY <1>1, <1>2, <1>3, PTL DEF Spec

\* The parser never stops at a state that is its own child (err_abort in
\* hp_combine_logprob).
THEOREM NeverAborts == AuxLexical /\ Spec => []NoAbort
<1>1. AuxLexical /\ Init => DeductionInv
  BY InitDed
<1>2. DeductionInv /\ [Next]_vars => DeductionInv'
  BY NextDed
<1>3. DeductionInv => NoAbort
  BY DEF DeductionInv, NoAbort
<1> QED  BY <1>1, <1>2, <1>3, PTL DEF Spec

\* The parser implements TagDeduction: what it stores as proven is derivable
\* from what it has stored before, whatever the grammar and the sentence.
THEOREM ParserDeduces == AuxLexical /\ Spec => Implements
<1>1. AuxLexical /\ Init => DeductionInv
  BY InitDed
<1>2. DeductionInv /\ [Next]_vars => DeductionInv'
  BY NextDed
<1>3. Init => D!Init
  BY DEF Init, D!Init, Proven, ItemIds, Ids
<1>4. DeductionInv /\ [Next]_vars => [D!Derive]_<<hand, Proven>>
  BY StepDerives
<1> QED  BY <1>1, <1>2, <1>3, <1>4, PTL DEF Spec, Implements, D!Spec
=============================================================================
