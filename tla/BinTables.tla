----------------------------- MODULE BinTables -----------------------------
(***************************************************************************)
(* The binary branching trees (src/src/parser/bin.c) and the tables that   *)
(* hand_new computes from them (src/src/parser/hparse_hand.c).             *)
(*                                                                         *)
(* bin_binarize goes through the nodes in the order of their numbers and   *)
(* puts everything to the right of a node below a new one.                 *)
(***************************************************************************)
EXTENDS GrammarFiles

VARIABLES
  bin_num_treenodes,   \* the size of the new table
  bin,                 \* bin_treenode_tbl, as far as it is filled
  i, last,             \* the variables of bin_binarize
  hand                 \* headcorner_tbl, leftaux_tbl and rightaux_tbl

binVars == <<bin_num_treenodes, bin, i, last, hand>>

GramNodes == DOMAIN g.treenode_tbl
GramTrees == DOMAIN g.tree_tbl

\* Fault: the number of nodes is computed one short beyond four children.
BinarynodesCut(sz) == IF sz <= 2 THEN 1 ELSE IF sz <= 4 THEN sz - 1 ELSE sz - 2

\* pow(2, log(sz) / BIN_LOG_2) - 1, rounded down: BIN_LOG_2 is below log(2) by
\* more than the rounding of log and of the division.
bin_binarynodes(sz) == IF sz <= 2 THEN 1 ELSE sz - 1

RECURSIVE NewnodesFrom(_, _, _)
NewnodesFrom(node, root, sz) ==
  LET NewnodesOf(n) == IF gram_leftchild(g, n) = NULL_T THEN 0
                       ELSE NewnodesFrom(gram_leftchild(g, n), n, 0)
  IN IF node = root THEN bin_binarynodes(sz) - 1
     ELSE NewnodesOf(node) + NewnodesFrom(gram_rightnode(g, node), root, sz + 1)

bin_tree_newnodes(root) ==
  IF gram_leftchild(g, root) = NULL_T THEN 0 ELSE NewnodesFrom(gram_leftchild(g, root), root, 0)

bin_newnodes == FoldFunctionOnSet(+, 0, [t \in GramTrees |-> bin_tree_newnodes(g.tree_tbl[t])], GramTrees)

-----------------------------------------------------------------------------
\* The last of the nodes to the right of a node, and the parent of them all.
RECURSIVE bin_rightmost_child(_)
bin_rightmost_child(n) == IF bin[n].flag = PARENT THEN n ELSE bin_rightmost_child(bin[n].right)

bin_parent(n) == bin[bin_rightmost_child(n)].right

\* bin_new up to the loop.
bin_new ==
  /\ pc = "loaded"
  /\ bin_num_treenodes' = bin_newnodes + Cardinality(GramNodes)
  /\ bin' = [n \in GramNodes |-> g.treenode_tbl[n]]
  /\ last' = Cardinality(GramNodes) /\ i' = 0
  /\ live' = live \cup Blocks("bin", {}) \cup Blocks("bin_treenode_tbl", {})
  /\ pc' = "binarise"
  /\ UNCHANGED <<project, files, g, hand>>

\* Fault: the last child stays linked to its old parent.
MovedLoose(rightnode, parent, rightmost) ==
  [n \in DOMAIN bin \cup {last} |->
     IF n = last THEN [leftchild |-> rightnode, right |-> parent, flag |-> PARENT,
                       label |-> -1, subscript |-> -1]
     ELSE IF n = i THEN [bin[n] EXCEPT !.right = last]
     ELSE bin[n]]

\* The table with a new node for the siblings from rightnode to rightmost.
Moved(rightnode, parent, rightmost) ==
  [n \in DOMAIN bin \cup {last} |->
     IF n = last THEN [leftchild |-> rightnode, right |-> parent, flag |-> PARENT,
                       label |-> -1, subscript |-> -1]
     ELSE IF n \in {i, rightmost} THEN [bin[n] EXCEPT !.right = last]
     ELSE bin[n]]

\* One round of the loop: a node with two siblings to the right, or another.
HasTwoToTheRight == bin[i].flag # PARENT /\ bin[bin[i].right].flag # PARENT

Binarize ==
  /\ pc = "binarise" /\ i \in GramNodes
  /\ HasTwoToTheRight
  /\ bin' = Moved(bin[i].right, bin_parent(i), bin_rightmost_child(bin[i].right))
  /\ last' = last + 1 /\ i' = i + 1
  /\ UNCHANGED <<fileVars, bin_num_treenodes, hand>>

Continue ==
  /\ pc = "binarise" /\ i \in GramNodes
  /\ ~HasTwoToTheRight
  /\ i' = i + 1
  /\ UNCHANGED <<fileVars, bin_num_treenodes, bin, last, hand>>

-----------------------------------------------------------------------------
(* What a node of the new tables is.                                        *)

Added(n) == n \notin GramNodes

bin_nodetype(n)        == IF Added(n) THEN "internal" ELSE gram_nodetype(g, n)
bin_adjoinable_node(n) == ~Added(n) /\ gram_adjoinable_node(g, n)

RECURSIVE bin_tree_from_node(_)
bin_tree_from_node(n) == IF Added(n) THEN bin_tree_from_node(bin_parent(n)) ELSE g.inverted_tree_tbl[n]

bin_leftnode(n)     == bin[bin_parent(n)].leftchild
bin_is_unarynode(n) == bin[n].right = n \/ bin[bin[n].right].leftchild = n
bin_is_leftnode(n)  == bin[n].flag # PARENT

\* hparse_headtype of a node's top, and the sibling the head is combined with.
hparse_headtype(n) ==
  IF bin_is_unarynode(n) THEN "only" ELSE IF bin_is_leftnode(n) THEN "left" ELSE "right"

HeadSibling(n) ==
  CASE hparse_headtype(n) = "only" -> NULL_T
    [] hparse_headtype(n) = "left" -> bin[n].right
    [] hparse_headtype(n) = "right" -> bin_leftnode(n)

-----------------------------------------------------------------------------
(* Headcorners.                                                             *)

\* Which types of leaf take over from the present candidate.
TakesOver(hctype) ==
  CASE hctype = "foot" -> {}
    [] hctype = "anchor" -> {"foot"}
    [] hctype = "terminal" -> {"foot", "anchor"}
    [] hctype = "subst" -> {"foot", "anchor", "terminal"}
    [] hctype = "eps" -> {"foot", "anchor", "subst", "terminal"}

\* Fault: a later candidate of the same type takes over too.
CmpHeadcornerEither(hctype, newtype) ==
  IF hctype = "internal" THEN 1
  ELSE IF newtype \in TakesOver(hctype) \cup {hctype} THEN 1 ELSE -1

hand_cmp_headcorner(hctype, newtype) ==
  IF hctype = "internal" THEN 1
  ELSE IF hctype = newtype THEN 0
  ELSE IF newtype \in TakesOver(hctype) THEN 1 ELSE -1

UNK_HEAD == -1

RECURSIVE hand_find_headcorner(_), HeadFrom(_, _, _)
hand_find_headcorner(root) ==
  IF bin[root].leftchild = NULL_T THEN root ELSE HeadFrom(bin[root].leftchild, root, UNK_HEAD)

HeadFrom(node, root, hc) ==
  IF node = root THEN hc
  ELSE LET new == hand_find_headcorner(node)
           type == IF hc = UNK_HEAD THEN "internal" ELSE bin_nodetype(hc)
       IN HeadFrom(bin[node].right, root,
                   IF hand_cmp_headcorner(type, bin_nodetype(new)) > 0 THEN new ELSE hc)

\* hand_new after bin_new: every node gets the headcorner that the search from
\* the root of its tree finds for it.
hand_new ==
  /\ pc = "binarise" /\ i \notin GramNodes
  /\ LET aux(n) == gram_auxiliary_tree(g, g.inverted_tree_tbl[n])
     IN hand' = [headcorner_tbl |-> [n \in DOMAIN bin |-> hand_find_headcorner(n)],
                 leftaux_tbl |-> [n \in GramNodes |-> aux(n) /\ gram_leftaux_tree(g, n)],
                 rightaux_tbl |-> [n \in GramNodes |-> aux(n) /\ gram_rightaux_tree(g, n)]]
  /\ live' = live \cup UNION {Blocks(t, {}) : t \in {"headcorner_tbl", "leftaux_tbl", "rightaux_tbl"}}
  /\ pc' = "ready"
  /\ UNCHANGED <<project, files, g, bin_num_treenodes, bin, i, last>>

\* The roots of the active trees of a type by label (hand_rootnode_tbl_new).
hand_rootnode_tbl(active, auxiliary) ==
  [l \in DOMAIN g.label_tbl |->
     LET trees == SelectSeq(TreesOfLabel(g, l), LAMBDA t : t \in active /\ gram_auxiliary_tree(g, t) = auxiliary)
     IN [k \in DOMAIN trees |-> g.tree_tbl[trees[k]]]]

\* hand_delete with bin_delete and gram_delete.
HandBlocks == UNION {Blocks(t, {}) : t \in {"bin", "bin_treenode_tbl", "headcorner_tbl",
                                            "leftaux_tbl", "rightaux_tbl"}}

hand_delete ==
  /\ pc = "ready"
  /\ live' = live \ (HandBlocks \cup FreedByAll)
  /\ pc' = "deleted"
  /\ UNCHANGED <<project, files, g, binVars>>

Init ==
  /\ project = <<>> /\ g = [pref |-> files.pref] /\ pc = "project" /\ live = {}
  /\ bin_num_treenodes = 0 /\ bin = <<>> /\ i = 0 /\ last = 0 /\ hand = <<>>

Next ==
  \/ Reading /\ UNCHANGED binVars
  \/ bin_new \/ Binarize \/ Continue \/ hand_new \/ hand_delete

vars == <<fileVars, binVars>>
=============================================================================
