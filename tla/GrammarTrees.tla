---------------------------- MODULE GrammarTrees ----------------------------
(***************************************************************************)
(* Trees as mathematical objects, and what the tables should say of them.  *)
(*                                                                         *)
(* A tree has the nodes 1 .. m, a parent before its children and siblings  *)
(* from left to right: up[v] is the parent of v (0 of the root), kind and  *)
(* label are functions of the nodes, na is the set with a null-adjunction  *)
(* constraint.  A forest is a sequence of trees; its nodes are pairs of a  *)
(* tree and a node.                                                        *)
(***************************************************************************)
EXTENDS Integers, Sequences, FiniteSets, SequencesExt

G == INSTANCE Grammar

Of(forest)      == UNION {{<<t, v>> : v \in DOMAIN forest[t].up} : t \in DOMAIN forest}
Kids(tree, v)   == SetToSortSeq({w \in DOMAIN tree.up : tree.up[w] = v}, <)
IsLeafOf(tree, v) == Kids(tree, v) = <<>>

\* The leaves below a node from left to right, and among all the nodes.
RECURSIVE Below(_, _)
Below(tree, v) == {v} \cup UNION {Below(tree, w) : w \in ToSet(Kids(tree, v))}

LeavesBelow(tree, v) == SetToSortSeq({w \in Below(tree, v) : IsLeafOf(tree, w)}, <)

IsAux(tree) == \E v \in DOMAIN tree.kind : tree.kind[v] = "foot"

\* The nodes of the binary branching tree below v, in order, each with its
\* parent: the siblings after the first come below an added node, which is
\* named by the first of them.
RECURSIVE Binary(_, _, _), BinaryRow(_, _, _)
Binary(tree, v, parent) == <<[name |-> <<"node", v>>, up |-> parent]>>
                             \o BinaryRow(tree, Kids(tree, v), <<"node", v>>)
BinaryRow(tree, row, parent) ==
  IF row = <<>> THEN <<>>
  ELSE Binary(tree, row[1], parent) \o
         (IF Len(row) <= 2 THEN BinaryRow(tree, Tail(row), parent)
          ELSE <<[name |-> <<"added", row[2]>>, up |-> parent]>>
                 \o BinaryRow(tree, Tail(row), <<"added", row[2]>>))

\* All nodes of the forest, [name, up, tree], in the order of Grammar.
Numbered(forest) ==
  FlattenSeq([t \in DOMAIN forest |->
    LET row == Binary(forest[t], 1, <<"none">>)
    IN [k \in DOMAIN row |-> [name |-> row[k].name, up |-> row[k].up, tree |-> t]]])

NumberOf(row, t, name) ==
  IF name = <<"none">> THEN 0 ELSE CHOOSE k \in DOMAIN row : row[k].tree = t /\ row[k].name = name

\* The forest as the chart parser's model has it, with the trees in active
\* lexicalised by their anchors.
AsGrammar(forest, pref, active) ==
  LET row  == Numbered(forest)
      tree(k) == forest[row[k].tree]
      real(k) == row[k].name[1] = "node"
      kind(k) == IF real(k) THEN tree(k).kind[row[k].name[2]] ELSE "internal"
  IN [up    |-> [k \in DOMAIN row |-> NumberOf(row, row[k].tree, row[k].up)],
      kind  |-> [k \in DOMAIN row |-> kind(k)],
      label |-> [k \in DOMAIN row |-> IF real(k) THEN tree(k).label[row[k].name[2]] ELSE "none"],
      na    |-> {k \in DOMAIN row : ~real(k) \/ row[k].name[2] \in tree(k).na},
      lexed |-> {<<1, k>> : k \in {n \in DOMAIN row : kind(n) = "anchor" /\ row[n].tree \in active}},
      eps   |-> {}, tops |-> {"S"}, words |-> 1, pref |-> [pref EXCEPT !.epsTrees = FALSE]]
=============================================================================
