------------------------------ MODULE Grammar ------------------------------
(***************************************************************************)
(* The grammar tables the chart parser reads (src/src/parser/gram*.c,      *)
(* bin.h and hparse_hand.c).  A lexicalised grammar is a record g:         *)
(*                                                                         *)
(*   up      up[n] is the parent of node n, 0 at the root of a tree        *)
(*   kind    "internal", "anchor", "terminal", "subst", "foot" or "eps"    *)
(*   label   the label of a node                                           *)
(*   na      the nodes with a null-adjunction constraint, the nodes that   *)
(*           bin.c added among them                                        *)
(*   lexed   <<k, n>> when word k can anchor leaf n (an unpruned leafinfo) *)
(*   eps     the anchors of unlexicalised trees (lex->eps_tbl)             *)
(*   tops    the labels a parse may have                                   *)
(*   words   the number of words of the sentence                           *)
(*   pref    the preferences of pref_defn.h that the parser reads          *)
(*                                                                         *)
(* Nodes are numbered tree after tree, a parent before its children and    *)
(* siblings from left to right, and are binary branching (bin.c).          *)
(***************************************************************************)
EXTENDS Integers, Sequences, FiniteSets, SequencesExt

DefaultPref ==
  [epsTrees |-> FALSE, epsAdjoin |-> FALSE, footAdjoin |-> FALSE,
   anchorAdjoin |-> TRUE, multiple |-> FALSE,
   noLeftWrap |-> FALSE, noRightWrap |-> FALSE]

Nodes(g) == DOMAIN g.up
Children(g, n) == {m \in Nodes(g) : g.up[m] = n}
IsLeaf(g, n) == Children(g, n) = {}
Roots(g) == {n \in Nodes(g) : g.up[n] = 0}

\* The root of the tree a node belongs to.
RootOf(g) ==
  LET root[n \in Nodes(g)] == IF g.up[n] = 0 THEN n ELSE root[g.up[n]]
  IN root

\* The outermost leaf below a node on one side.
LeftmostLeaf(g) ==
  LET leaf[n \in Nodes(g)] ==
        IF IsLeaf(g, n) THEN n ELSE leaf[Min(Children(g, n))]
  IN leaf

RightmostLeaf(g) ==
  LET leaf[n \in Nodes(g)] ==
        IF IsLeaf(g, n) THEN n ELSE leaf[Max(Children(g, n))]
  IN leaf

\* Which child of its parent a node is; a root counts as an only child.
Side(g, n) ==
  LET kin == IF g.up[n] = 0 THEN {n} ELSE Children(g, g.up[n])
  IN IF kin = {n} THEN "only" ELSE IF n = Min(kin) THEN "left" ELSE "right"

Sibling(g, n) ==
  IF Side(g, n) = "only" THEN 0
  ELSE CHOOSE m \in Children(g, g.up[n]) : m # n

\* Where adjunction is permitted.
Adjoinable(g, n) ==
  /\ n \notin g.na
  /\ g.kind[n] \notin {"subst", "eps", "terminal"}
  /\ g.kind[n] = "foot" => g.pref.footAdjoin
  /\ g.kind[n] = "anchor" => g.pref.anchorAdjoin

-----------------------------------------------------------------------------
(* Headcorners.                                                            *)

\* The kinds in the order in which they are preferred as headcorner.
Preference == <<"foot", "anchor", "terminal", "subst", "eps">>

RankOf(kind) == CHOOSE r \in DOMAIN Preference : Preference[r] = kind

\* Positive when the new candidate takes over from the present one.
CmpHeadcorner(hctype, newtype) ==
  IF hctype = "internal" THEN 1
  ELSE IF hctype = newtype THEN 0
  ELSE IF RankOf(newtype) < RankOf(hctype) THEN 1 ELSE -1

\* The headcorner of every node: the candidates of the children are tried
\* from left to right, starting from UNK_HEAD, an internal node.
Headcorner(g) ==
  LET best[n \in Nodes(g)] ==
        IF IsLeaf(g, n) THEN n
        ELSE LET heads == [k \in 1 .. Cardinality(Children(g, n)) |->
                             best[SetToSortSeq(Children(g, n), <)[k]]]
                 better(hc, new) ==
                   IF CmpHeadcorner(IF hc = 0 THEN "internal" ELSE g.kind[hc],
                                    g.kind[new]) > 0
                   THEN new ELSE hc
             IN FoldLeft(better, 0, heads)
  IN best

-----------------------------------------------------------------------------
(* The tables of hand_t.                                                   *)

\* A tree is active when some word, or no word at all, lexicalises it.
Active(g) ==
  {RootOf(g)[p[2]] : p \in g.lexed}
    \cup IF g.pref.epsTrees THEN {RootOf(g)[n] : n \in g.eps} ELSE {}

FootOf(g, r) ==
  LET feet == {n \in Nodes(g) : g.kind[n] = "foot" /\ RootOf(g)[n] = r}
  IN IF feet = {} THEN 0 ELSE Min(feet)

\* The roots of the active trees with a given label, the latest tree first
\* (gram_treeinfo_new pushes every tree on the list of its label).
RootList(g, label, auxiliary) ==
  SetToSortSeq({r \in Roots(g) : /\ r \in Active(g)
                                 /\ g.label[r] = label
                                 /\ (FootOf(g, r) # 0) = auxiliary}, >)

Hand(g) ==
  LET labels == {g.label[n] : n \in Nodes(g)}
      tree   == RootOf(g)
      hc     == Headcorner(g)
  IN [nodes    |-> Nodes(g),
      up       |-> [n \in Nodes(g) |-> g.up[n]],
      side     |-> [n \in Nodes(g) |-> Side(g, n)],
      sibling  |-> [n \in Nodes(g) |-> Sibling(g, n)],
      kind     |-> [n \in Nodes(g) |-> g.kind[n]],
      label    |-> [n \in Nodes(g) |-> g.label[n]],
      head     |-> [n \in Nodes(g) |-> hc[n]],
      foot     |-> [n \in Nodes(g) |-> FootOf(g, tree[n])],
      adjoin   |-> {n \in Nodes(g) : Adjoinable(g, n)},
      leftaux  |-> {n \in Nodes(g) : g.kind[RightmostLeaf(g)[n]] = "foot"},
      rightaux |-> {n \in Nodes(g) : g.kind[LeftmostLeaf(g)[n]] = "foot"},
      inits    |-> [l \in labels |-> RootList(g, l, FALSE)],
      auxs     |-> [l \in labels |-> RootList(g, l, TRUE)],
      tops     |-> g.tops,
      lexed    |-> g.lexed,
      eps      |-> g.eps,
      last     |-> g.words,
      pref     |-> g.pref]
=============================================================================
