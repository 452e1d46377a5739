----------------------------- MODULE FeatForest -----------------------------
(***************************************************************************)
(* The feature checker on a derivation forest                              *)
(* (src/src/featchecker/nl-tagforest.cpp, main-checker.cpp): an and-or     *)
(* graph of chart items is read and expanded into one whose items have     *)
(* feature structures; derivations whose features do not unify disappear.  *)
(*                                                                         *)
(* Structures are those of FeatureLogic: FeatStruct shows that the graphs  *)
(* behave like them, and every item has a graph of its own.                *)
(***************************************************************************)
EXTENDS Naturals, Sequences, FiniteSets, SequencesExt

Sem == INSTANCE FeatureLogic

CONSTANTS
  Inputs,        \* the forests printed by the parser, sequences of lines
  GramFeats      \* the structure of each elementary tree, the grammar table

VARIABLES
  input,         \* the lines
  line,          \* the number of lines read
  items,         \* the chart items by name
  starts,        \* the start items not yet written
  written        \* the start items Forest::Write is done with

forestVars == <<input, line, items, starts, written>>

NoItem == 0

\* An item that has been mentioned and not yet read (StringAssoc::AddObject).
Unread == [node |-> "", type |-> "top", ops |-> <<>>, checked |-> <<>>, want |-> Sem!Nothing]

\* A foreach loop.
ForEach(op(_, _), base, list) ==
  LET so[k \in 0 .. Len(list)] == IF k = 0 THEN base ELSE op(so[k - 1], list[k])
  IN so[Len(list)]

Names(l) == ({l.name} \cup UNION {{o.left, o.right} : o \in ToSet(l.ops)}) \ {NoItem}

Mentioned(f, names) == [n \in DOMAIN f \cup names |-> IF n \in DOMAIN f THEN f[n] ELSE Unread]

-----------------------------------------------------------------------------
(* Forest::Read.                                                            *)

\* The structure of a lexical item: its word's features, its tree's, and what
\* the tree brings to the node it is attached to.
Same(m, p, q, node) == IF node = "" THEN m ELSE Sem!WithIdentity(m, p, q)

\* Fault: the foot is forgotten.
LeafFeaturesRoot(l, lexical) ==
  Same(Sem!Unify(lexical, GramFeats[l.tree]), <<"Dn", "t">>, <<l.root, "t">>, l.root)

LeafFeatures(l, lexical) ==
  LET m == Sem!Unify(lexical, GramFeats[l.tree])
  IN Same(Same(m, <<"Dn", "t">>, <<l.root, "t">>, l.root),
          <<"Dn", "b">>, <<l.foot, "b">>, l.foot)

\* An item with structures, and the productions that gave them.
Checked(feats, ops) == [feats |-> feats, ops |-> ops]

ReadStart ==
  /\ line < Len(input) /\ input[line + 1].kind = "start"
  /\ LET l == input[line + 1]
     IN /\ items'  = [Mentioned(items, {l.name}) EXCEPT ![l.name].want = l.feats]
        /\ starts' = Append(starts, l.name)
  /\ line' = line + 1
  /\ UNCHANGED <<input, written>>

ReadItem ==
  /\ line < Len(input) /\ input[line + 1].kind = "item"
  /\ LET l == input[line + 1]
     IN items' = [Mentioned(items, Names(l)) EXCEPT ![l.name] =
          [node |-> l.node, type |-> l.type, want |-> @.want,
           ops |-> @.ops \o l.ops,
           checked |-> @.checked \o
             [k \in DOMAIN l.lexical |-> Checked(LeafFeatures(l, l.lexical[k]), <<>>)]]]
  /\ line' = line + 1
  /\ UNCHANGED <<input, starts, written>>

-----------------------------------------------------------------------------
(* ChartItem::AddChecked: the structure an item has by a production.  A      *)
(* right side of type bottom is the one adjoined to, and goes first.         *)

Combined(item, ltype, l, hasRight, r) ==
  CASE ltype = "top" /\ item.type = "bot" -> IF hasRight THEN Sem!Unify(l, r) ELSE l
    [] ltype = "top" /\ item.type = "top" -> Sem!Substituted(l, item.node)
    [] ltype = "bot" /\ hasRight          -> Sem!Adjoined(l, r, item.node)
    [] ltype = "bot" /\ ~hasRight         -> Sem!NotAdjoined(l, item.node)

\* Fault: a second production for the same features is dropped.
AddProductionOnce(checked, feats, op) ==
  IF feats = Sem!Failure \/ \E k \in DOMAIN checked : checked[k].feats = feats
  THEN checked ELSE Append(checked, Checked(feats, <<op>>))

\* The production is added to the first item with the same features.
AddProduction(checked, feats, op) ==
  LET same == {k \in DOMAIN checked : checked[k].feats = feats}
  IN IF feats = Sem!Failure THEN checked
     ELSE IF same = {} THEN Append(checked, Checked(feats, <<op>>))
     ELSE LET k == CHOOSE k \in same : \A j \in same : k <= j
          IN [checked EXCEPT ![k].ops = Append(@, op)]

\* a and b are <<item, number of its checked item>>, b is <<>> for none.
AddChecked(f, n, a, b) ==
  LET swap == b # <<>> /\ f[b[1]].type = "bot"
      l    == IF swap THEN b ELSE a
      r    == IF swap THEN a ELSE b
      of(c) == IF c = <<>> THEN Sem!Nothing ELSE f[c[1]].checked[c[2]].feats
      new  == Combined(f[n], f[l[1]].type, of(l), r # <<>>, of(r))
  IN [f EXCEPT ![n].checked = AddProduction(@, new, [left |-> l, right |-> r])]

\* ChartItem::GetChecked: the forest with the checked items of n listed.
RECURSIVE GetChecked(_, _)
GetChecked(f, n) ==
  LET numbers(g, m) == [k \in DOMAIN g[m].checked |-> <<m, k>>]
      production(g, o) ==
        IF o.left = NoItem THEN g
        ELSE LET gl == GetChecked(g, o.left)
                 withRight(h, l) ==
                   LET hr == GetChecked(h, o.right)
                   IN ForEach(LAMBDA e, r : AddChecked(e, n, l, r), hr, numbers(hr, o.right))
             IN ForEach(LAMBDA h, l : IF o.right = NoItem THEN AddChecked(h, n, l, <<>>)
                                   ELSE withRight(h, l),
                     gl, numbers(gl, o.left))
  IN IF f[n].checked # <<>> THEN f ELSE ForEach(production, f, f[n].ops)

-----------------------------------------------------------------------------
(* Forest::Write, one start after the other.                                *)

\* The checked items below some, which Write prints with them.
RECURSIVE Below(_, _)
Below(f, C) ==
  LET ops  == UNION {ToSet(f[c[1]].checked[c[2]].ops) : c \in C}
      next == (C \cup UNION {{o.left, o.right} : o \in ops}) \ {<<>>}
  IN IF next = C THEN C ELSE Below(f, next)

Starts(f, n) == {<<n, k>> : k \in {k \in DOMAIN f[n].checked :
                   Sem!Unify(f[n].want, f[n].checked[k].feats) # Sem!Failure}}

WriteStart ==
  /\ line = Len(input) /\ starts # <<>>
  /\ LET n == Head(starts)
         f == GetChecked(items, n)
     IN /\ items' = f
        /\ written' = Append(written, [item |-> n, good |-> Starts(f, n),
                                       printed |-> Below(f, Starts(f, n))])
  /\ starts' = Tail(starts)
  /\ UNCHANGED <<input, line>>

\* The next forest of the input.
NextForest ==
  /\ line = Len(input) /\ starts = <<>>
  /\ input' \in Inputs
  /\ line' = 0 /\ items' = <<>> /\ starts' = <<>> /\ written' = <<>>

ForestInit ==
  /\ input \in Inputs
  /\ line = 0 /\ items = <<>> /\ starts = <<>> /\ written = <<>>

ForestNext == ReadStart \/ ReadItem \/ WriteStart \/ NextForest

-----------------------------------------------------------------------------
(* A derivation of an item is <<item, k>> for the k-th structure of its word *)
(* and else <<item, derivation on the left, derivation on the right>>.       *)

\* The derivations that the printed forest has below a checked item; the
\* sides of a production are in the order of AddChecked.
RECURSIVE Unfolded(_, _)
Unfolded(f, c) ==
  LET e == f[c[1]].checked[c[2]]
  IN IF c = <<>> THEN {<<>>}
     ELSE IF e.ops = <<>> THEN {c}
     ELSE UNION {{<<c[1], a, b>> : a \in Unfolded(f, o.left), b \in Unfolded(f, o.right)} :
                   o \in ToSet(e.ops)}

\* The derivations of the forest that was read, regardless of features.
RECURSIVE Derivations(_, _)
Derivations(f, n) ==
  LET sides(o) == IF o.right # NoItem /\ f[o.right].type = "bot" THEN <<o.right, o.left>>
                  ELSE <<o.left, o.right>>
  IN IF n = NoItem THEN {<<>>}
     ELSE IF f[n].ops = <<>> THEN {<<n, k>> : k \in DOMAIN f[n].checked}
     ELSE UNION {{<<n, a, b>> : a \in Derivations(f, sides(o)[1]), b \in Derivations(f, sides(o)[2])} :
                   o \in ToSet(f[n].ops)}

\* The structure of one derivation.
RECURSIVE Features(_, _)
Features(f, d) ==
  IF Len(d) = 2 THEN f[d[1]].checked[d[2]].feats
  ELSE LET l == Features(f, d[2])
           r == IF d[3] = <<>> THEN Sem!Nothing ELSE Features(f, d[3])
       IN IF Sem!Failure \in {l, r} THEN Sem!Failure
          ELSE Combined(f[d[1]], f[d[2][1]].type, l, d[3] # <<>>, r)

\* What is written for a start is exactly the derivations that were read
\* for it whose features all unify, each on its own: packing the derivations
\* by their features loses none and adds none.
ExactlyTheUnifying ==
  \A w \in ToSet(written) :
    UNION {Unfolded(items, c) : c \in w.good} =
      {d \in Derivations(items, w.item) :
         Sem!Unify(items[w.item].want, Features(items, d)) # Sem!Failure}
=============================================================================
