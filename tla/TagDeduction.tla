---------------------------- MODULE TagDeduction ----------------------------
(***************************************************************************)
(* What the chart parser promises: a deductive system for tree-adjoining   *)
(* grammars.  Nothing of the parser's strategy is left in it: there are no *)
(* headcorners, goals, spans to stay in, agenda or order.                  *)
(*                                                                         *)
(* A fact says that the part of an elementary tree below a node covers the *)
(* words i .. j-1, the gap fl .. fr-1 under the foot excepted, with the    *)
(* words w as the anchors of that tree.  At "bot" nothing has been adjoined*)
(* at the node yet; at "top" the node is finished.                         *)
(*                                                                         *)
(* The system starts without facts and derives one fact after another, in  *)
(* any order.                                                              *)
(***************************************************************************)
EXTENDS Integers, Sequences, FiniteSets

VARIABLES
  hand,            \* the lexicalised grammar, see Grammar!Hand
  facts            \* what has been derived

noFoot == -1

Fact(n, pos, i, j, fl, fr, w) ==
  [n |-> n, pos |-> pos, i |-> i, j |-> j, fl |-> fl, fr |-> fr, w |-> w]

Places(h) == 0 .. h.last

\* The leaves below a node.
LeavesBelow(h, n) ==
  LET above[m \in h.nodes] == m = n \/ (h.up[m] # 0 /\ above[h.up[m]])
  IN {m \in h.nodes : above[m] /\ \A k \in h.nodes : h.up[k] # m}

EpsLeaf(h, n) == h.kind[n] = "eps" \/ (h.pref.epsTrees /\ n \in h.eps)

AllEps(h, n) == \A m \in LeavesBelow(h, n) : h.kind[m] = "eps"

\* Where the empty word is introduced: at an unlexicalised anchor, and at an
\* empty terminal or, when nothing may be adjoined over one, at the highest
\* node with nothing else below it.
EmptyAt(h, n) ==
  \/ h.pref.epsTrees /\ n \in h.eps
  \/ h.pref.epsAdjoin /\ h.kind[n] = "eps"
  \/ ~h.pref.epsAdjoin /\ AllEps(h, n) /\ (h.up[n] = 0 \/ ~AllEps(h, h.up[n]))

\* Without the preference for it, nothing is adjoined within a subtree whose
\* headcorner is epsilon.
MayAdjoinAt(h, n) ==
  /\ n \in h.adjoin
  /\ h.pref.epsAdjoin \/ ~EpsLeaf(h, h.head[n])

-----------------------------------------------------------------------------
(* The rules.                                                              *)

\* Anchors, empty leaves, and feet, which take any gap.
Axioms(h) ==
  {Fact(p[2], "bot", p[1], p[1] + 1, noFoot, noFoot, <<p[1]>>) : p \in h.lexed}
    \cup
  {Fact(n, "top", i, i, noFoot, noFoot, <<>>) :
     n \in {m \in h.nodes : EmptyAt(h, m)}, i \in Places(h)}
    \cup
  {Fact(n, "bot", v[1], v[2], v[1], v[2], <<>>) :
     n \in {m \in h.nodes : h.kind[m] = "foot"},
     v \in {u \in Places(h) \X Places(h) : u[1] <= u[2]}}

IsRoot(h, n) == h.up[n] = 0

\* Nothing is adjoined at x.
NullAdjunction(h, x) ==
  IF x.pos = "bot" THEN {[x EXCEPT !.pos = "top"]} ELSE {}

\* The only child x of a node.
Unary(h, x) ==
  IF x.pos = "top" /\ ~IsRoot(h, x.n) /\ h.side[x.n] = "only"
  THEN {[x EXCEPT !.n = h.up[x.n], !.pos = "bot"]}
  ELSE {}

\* The initial tree x is substituted; an empty one only with the preference.
Substitution(h, x) ==
  IF /\ IsRoot(h, x.n) /\ h.foot[x.n] = 0 /\ x.pos = "top"
     /\ x.i < x.j \/ h.pref.epsTrees
  THEN {Fact(n, "top", x.i, x.j, noFoot, noFoot, <<>>) :
          n \in {m \in h.nodes : h.kind[m] = "subst" /\ h.label[m] = h.label[x.n]}}
  ELSE {}

\* The left child x next to the right child y.
Binary(h, x, y) ==
  IF /\ x.pos = "top" /\ y.pos = "top" /\ x.j = y.i
     /\ h.side[x.n] = "left" /\ h.sibling[x.n] = y.n
  THEN {Fact(h.up[x.n], "bot", x.i, y.j,
             IF x.fl # noFoot THEN x.fl ELSE y.fl,
             IF x.fr # noFoot THEN x.fr ELSE y.fr, x.w \o y.w)}
  ELSE {}

\* The auxiliary tree x is adjoined at y and contributes some word.
Adjunction(h, x, y) ==
  IF /\ IsRoot(h, x.n) /\ h.foot[x.n] # 0 /\ x.pos = "top"
     /\ y.pos = "bot" /\ MayAdjoinAt(h, y.n) /\ h.label[y.n] = h.label[x.n]
     /\ x.fl = y.i /\ x.fr = y.j
     /\ <<x.i, x.j>> # <<y.i, y.j>>
  THEN {[y EXCEPT !.i = x.i, !.j = x.j,
                  !.pos = IF h.pref.multiple THEN "bot" ELSE "top"]}
  ELSE {}

FromOne(h, x) == NullAdjunction(h, x) \cup Unary(h, x) \cup Substitution(h, x)

FromTwo(h, x, y) == Binary(h, x, y) \cup Adjunction(h, x, y)

-----------------------------------------------------------------------------
Derivable(h, f, F) ==
  \/ f \in Axioms(h)
  \/ \E x \in F : f \in FromOne(h, x)
  \/ \E x, y \in F : f \in FromTwo(h, x, y)

\* The facts that analyse the whole sentence.
Accepting(h, f) ==
  /\ IsRoot(h, f.n) /\ h.foot[f.n] = 0 /\ f.pos = "top"
  /\ \E k \in DOMAIN h.tops : h.tops[k] = h.label[f.n]
  /\ f.i = 0 /\ f.j = h.last /\ f.w # <<>>

Init == facts = {}

Derive ==
  /\ \E f \in facts' \ facts : /\ Derivable(hand, f, facts)
                              /\ facts' = facts \cup {f}
  /\ UNCHANGED hand

Spec == Init /\ [][Derive]_<<hand, facts>>
=============================================================================
