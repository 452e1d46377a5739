----------------------------- MODULE TreeTables -----------------------------
(***************************************************************************)
(* The tables of a grammar (grammar_t, src/src/parser/gram.h) and what is  *)
(* computed from them (gram_trees.c, gram_treemap.c, gram_nodelist.c and   *)
(* gram_treeinfo.c).  A grammar g is a record of the fields of grammar_t;  *)
(* a table of C is a function from 0, a list a sequence.                   *)
(*                                                                         *)
(* A node's children are linked from the first, leftchild, by right; the   *)
(* right of the last one is the parent, and of a root the root itself      *)
(* (flag 1).                                                               *)
(***************************************************************************)
EXTENDS Integers, Sequences, FiniteSets, SequencesExt

NULL_T == -1
PARENT == 1

gram_leftchild(g, n) == g.treenode_tbl[n].leftchild
gram_rightnode(g, n) == g.treenode_tbl[n].right
gram_rightflag(g, n) == g.treenode_tbl[n].flag
gram_label(g, n)     == g.label_tbl[g.treenode_tbl[n].label]

\* The first place of a name in a table, or -1.
IndexIn(tbl, name) ==
  IF \E k \in DOMAIN tbl : tbl[k] = name
  THEN CHOOSE k \in DOMAIN tbl : tbl[k] = name /\ \A j \in DOMAIN tbl : tbl[j] = name => k <= j
  ELSE -1

gram_treeindex(g, name)         == IndexIn(g.treename_tbl, name)
gram_index_from_label(g, label) == IndexIn(g.label_tbl, label)

-----------------------------------------------------------------------------
(* What a node is.                                                          *)

gram_is_epsilon(g, key) == \E k \in DOMAIN g.eps_tbl : g.eps_tbl[k].empty_elt = key

gram_is_substnode(g, n)  == g.inverted_subst_tbl[n] # NULL_T
gram_is_anchornode(g, n) == g.inverted_anchor_tbl[n] # NULL_T
gram_is_footnode(g, n)   == g.inverted_foot_tbl[n] # NULL_T
gram_is_NAnode(g, n)     == g.inverted_NA_tbl[n] # NULL_T

gram_is_terminalnode(g, n) ==
  /\ gram_leftchild(g, n) = NULL_T
  /\ ~gram_is_substnode(g, n) /\ ~gram_is_anchornode(g, n) /\ ~gram_is_footnode(g, n)
  /\ ~gram_is_epsilon(g, gram_label(g, n))

gram_nodetype(g, n) ==
  IF gram_is_footnode(g, n) THEN "foot"
  ELSE IF gram_is_anchornode(g, n) THEN "anchor"
  ELSE IF gram_is_substnode(g, n) THEN "subst"
  ELSE IF gram_is_epsilon(g, gram_label(g, n)) THEN "eps"
  ELSE IF gram_is_terminalnode(g, n) THEN "terminal"
  ELSE "internal"

\* _gram_allow_foot_adjoin and _gram_allow_anchor_adjoin are g.pref's.
gram_adjoinable_node(g, n) ==
  LET type == gram_nodetype(g, n)
  IN /\ ~gram_is_NAnode(g, n)
     /\ type \notin {"subst", "eps", "terminal"}
     /\ type = "foot" => g.pref.footAdjoin
     /\ type = "anchor" => g.pref.anchorAdjoin

gram_auxiliary_tree(g, tree) == g.footnode_tbl[tree] # -1

-----------------------------------------------------------------------------
(* Walks over a tree.                                                       *)

\* gram_tree_map with a list of one node for each node: what is below a node
\* comes before it and what is to the right of it after it.  Where it is given
\* another function, that one makes the list of a node or no list.
RECURSIVE gram_tree_map(_, _)
gram_tree_map(g, n) ==
  IF n = NULL_T THEN <<>>
  ELSE gram_tree_map(g, gram_leftchild(g, n)) \o <<n>>
         \o (IF gram_rightflag(g, n) # PARENT THEN gram_tree_map(g, gram_rightnode(g, n)) ELSE <<>>)

Terminals(g, tree) ==
  SelectSeq(gram_tree_map(g, g.tree_tbl[tree]), LAMBDA n : gram_is_terminalnode(g, n))

AdjoinableNodes(g, tree) ==
  SelectSeq(gram_tree_map(g, g.tree_tbl[tree]), LAMBDA n : gram_adjoinable_node(g, n))

\* Which of two nodes comes first, their parents before them: -1, 1 or 0.
RECURSIVE CmpFrom(_, _, _, _)
CmpFrom(g, n, node1, node2) ==
  IF n = NULL_T THEN 0
  ELSE IF n = node1 THEN -1
  ELSE IF n = node2 THEN 1
  ELSE LET below == CmpFrom(g, gram_leftchild(g, n), node1, node2)
       IN IF below # 0 THEN below
          ELSE IF gram_rightflag(g, n) # PARENT
               THEN CmpFrom(g, gram_rightnode(g, n), node1, node2) ELSE 0

gram_treenode_cmp(g, tree, node1, node2) ==
  IF node1 = node2 THEN 0 ELSE CmpFrom(g, g.tree_tbl[tree], node1, node2)

RECURSIVE LastFrom(_, _)
LastFrom(g, n) == IF gram_rightflag(g, n) = PARENT THEN n ELSE LastFrom(g, gram_rightnode(g, n))

gram_rightmost_child(g, n) == LastFrom(g, gram_leftchild(g, n))

\* Whether the last or the first leaf below a node is the foot.
RECURSIVE gram_leftaux_tree(_, _)
gram_leftaux_tree(g, n) ==
  IF gram_leftchild(g, n) = NULL_T THEN gram_is_footnode(g, n)
  ELSE gram_leftaux_tree(g, gram_rightmost_child(g, n))

RECURSIVE gram_rightaux_tree(_, _)
gram_rightaux_tree(g, n) ==
  IF gram_leftchild(g, n) = NULL_T THEN gram_is_footnode(g, n)
  ELSE gram_rightaux_tree(g, gram_leftchild(g, n))

-----------------------------------------------------------------------------
(* gram_treeinfo.                                                           *)

\* The trees are pushed in turn on the list of the label of their root.
LabelTrees(g) ==
  LET label(t) == g.treenode_tbl[g.tree_tbl[t]].label
      Push(tbls, t) == [head |-> [tbls.head EXCEPT ![label(t)] = t],
                        next |-> [tbls.next EXCEPT ![t] = tbls.head[label(t)]]]
      none == [head |-> [l \in DOMAIN g.label_tbl |-> NULL_T],
               next |-> [t \in DOMAIN g.tree_tbl |-> NULL_T]]
  IN FoldLeft(Push, none, [k \in 1 .. Cardinality(DOMAIN g.tree_tbl) |-> k - 1])

\* labeltree_start and labeltree_next, followed to the end.
RECURSIVE LabelTreeList(_, _)
LabelTreeList(g, t) == IF t = NULL_T THEN <<>> ELSE <<t>> \o LabelTreeList(g, g.labeltree_list_tbl[t])

TreesOfLabel(g, l) == LabelTreeList(g, g.labeltree_tbl[l])

\* gram_setup_treeinfo, for one tree after another.
InvertedTrees(g) ==
  [n \in DOMAIN g.treenode_tbl |->
     LET owners == {t \in DOMAIN g.tree_tbl : n \in ToSet(gram_tree_map(g, g.tree_tbl[t]))}
     IN IF owners = {} THEN NULL_T ELSE CHOOSE t \in owners : \A u \in owners : u <= t]
=============================================================================
