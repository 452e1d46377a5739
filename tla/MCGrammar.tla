----------------------------- MODULE MCGrammar -----------------------------
(***************************************************************************)
(* Grammars of one or two trees, in every numbering of their nodes or in   *)
(* that of the grammar builder, read, binarised and given back.            *)
(***************************************************************************)
EXTENDS BinTables, GrammarTrees

VARIABLES forest, number   \* the trees, and the number of each node in the files

-----------------------------------------------------------------------------
(* The files, in the formats of src/data/README.data.                       *)

Trees == 1 .. Len(forest)
Labels == <<"S", "N", "t", "e">>
Name(t) == IF t = 1 THEN "alpha" ELSE "beta"

NodeLine(p) ==
  LET tree == forest[p[1]]
      kids == Kids(tree, p[2])
      up   == tree.up[p[2]]
      row  == IF up = 0 THEN <<p[2]>> ELSE Kids(tree, up)
      k    == CHOOSE j \in DOMAIN row : row[j] = p[2]
      isLast == k = Len(row)
  IN [leftchild |-> IF kids = <<>> THEN -1 ELSE number[<<p[1], kids[1]>>],
      right     |-> IF ~isLast THEN number[<<p[1], row[k + 1]>>]
                    ELSE IF up = 0 THEN number[p] ELSE number[<<p[1], up>>],
      flag      |-> IF isLast THEN 1 ELSE 0,
      label     |-> (CHOOSE l \in DOMAIN Labels : Labels[l] = tree.label[p[2]]) - 1,
      subscript |-> -1]

ListOf(t, S) == [k \in 1 .. Cardinality(S) |-> number[<<t, SetToSortSeq(S, >)[k]>>]]
OfKind(t, kind) == {v \in DOMAIN forest[t].kind : forest[t].kind[v] = kind}

TreeLine(t) ==
  [root |-> number[<<t, 1>>],
   foot |-> IF IsAux(forest[t]) THEN ListOf(t, OfKind(t, "foot"))[1] ELSE -1,
   subst |-> ListOf(t, OfKind(t, "subst")), anchor |-> ListOf(t, OfKind(t, "anchor")),
   NA |-> ListOf(t, forest[t].na)]

LinesOf ==
  [labels |-> Labels, subscripts |-> <<"0">>,
   treenodes |-> [k \in 1 .. Cardinality(Of(forest)) |-> NodeLine(CHOOSE p \in Of(forest) : number[p] = k - 1)],
   trees |-> [t \in Trees |-> TreeLine(t)],
   treenames |-> [t \in Trees |-> Name(t)], treefeatures |-> [t \in Trees |-> "f"],
   families |-> <<[name |-> "T", trees |-> Reverse([t \in Trees |-> Name(t)])]>>,
   epsilons |-> <<[empty_elt |-> "e", label |-> "N"]>>, toplabels |-> <<"S">>,
   syndefault |-> <<"d">>]

Counts(lines) == [k \in 1 .. 9 |-> [attr |-> Readers[k], value |-> Len(lines[Readers[k]])]]

\* A project file with an attribute it does not know and one given twice.
ProjectLines(lines) == <<[attr |-> "other", value |-> 7], [attr |-> "trees", value |-> 9]>> \o Reverse(Counts(lines))

FilesWith(lines, pref) == lines @@ [project |-> ProjectLines(lines), pref |-> pref]

-----------------------------------------------------------------------------
(* The instances.                                                           *)

Shapes(m) ==
  {up \in [1 .. m -> 0 .. m - 1] :
     /\ up[1] = 0
     /\ \A v \in 2 .. m : up[v] \in 1 .. v - 1
     /\ \A v, w \in 1 .. m : v < w /\ up[w] < v => up[v] >= up[w] }

Kinds == {"anchor", "terminal", "subst", "eps", "foot"}

\* A tree with given kinds of leaves; its root is labelled as a foot is.
TreeOf(up, leafKind, na) ==
  LET leaf(v) == \A w \in DOMAIN up : up[w] # v
      kind(v) == IF leaf(v) THEN leafKind[v] ELSE "internal"
  IN [up |-> up, kind |-> [v \in DOMAIN up |-> kind(v)], na |-> na,
      label |-> [v \in DOMAIN up |-> CASE kind(v) = "terminal" -> "t"
                                       [] kind(v) = "eps" -> "e"
                                       [] v = 1 \/ kind(v) = "foot" -> "S"
                                       [] OTHER -> "N"]]

\* Numbers in order, and those of the builder: children before their parent.
InOrder(f) == [p \in Of(f) |-> Cardinality({q \in Of(f) : q[1] < p[1] \/ (q[1] = p[1] /\ q[2] < p[2])})]

Before(f, q, p) ==
  \/ q[1] < p[1]
  \/ /\ q[1] = p[1] /\ q # p
     /\ \/ q[2] \in Below(f[p[1]], p[2])
        \/ q[2] < p[2] /\ p[2] \notin Below(f[q[1]], q[2])

FromBelow(f) == [p \in Of(f) |-> Cardinality({q \in Of(f) : Before(f, q, p)})]

\* The nodes of the two trees mixed.
Mixed(f) == [p \in Of(f) |-> Cardinality({q \in Of(f) : q[2] > p[2] \/ (q[2] = p[2] /\ q[1] > p[1])})]

Given == <<"none", "anchor", "subst", "foot", "terminal", "eps">>
Beta  == TreeOf(<<0, 1, 1>>, <<"none", "foot", "anchor">>, {2})

\* One tree of five nodes where one has three children or more, in every
\* numbering; and one of six nodes on two levels, its root numbered first or last.
Wide == {up \in Shapes(5) : \E v \in 1 .. 5 : Cardinality({w \in 1 .. 5 : up[w] = v}) >= 3}

Renumbered ==
  LET tree(up) == <<TreeOf(up, Given, {1})>>
  IN UNION {{<<tree(up), [p \in Of(tree(up)) |-> q[p[2]] - 1]>> : q \in Permutations(1 .. 5)} : up \in Wide}

Star ==
  LET f == <<TreeOf(<<0, 1, 1, 1, 1, 1>>, Given, {3})>>
  IN {<<f, [p \in Of(f) |-> q[p[2]] - 1]>> : q \in {r \in Permutations(1 .. 6) : r[1] \in {1, 6}}}

Pref(f, a) == [G!DefaultPref EXCEPT !.footAdjoin = f, !.anchorAdjoin = a]

\* Two trees, the first with leaves of all kinds.
Varied ==
  UNION {UNION {LET f == <<TreeOf(up, k, IF k[4] = "eps" THEN {1} ELSE {}), Beta>>
                IN {<<f, FromBelow(f), Pref(a, b)>> : a, b \in BOOLEAN} \cup {<<f, Mixed(f), G!DefaultPref>>} :
                  k \in {h \in [1 .. 4 -> Kinds] :
                           /\ Cardinality({v \in 1 .. 4 : h[v] = "foot" /\ (\A w \in 1 .. 4 : up[w] # v)}) <= 1
                           /\ \A v \in 1 .. 4 : (\E w \in 1 .. 4 : up[w] = v) => h[v] = "anchor"}} :
           up \in Shapes(4)}

\* A file that lacks its last line, or has a name that no other file has.
Faulty(lines) ==
  {[lines EXCEPT ![Readers[k]] = Front(@)] : k \in 1 .. 9}
    \cup {[lines EXCEPT !.families[1].trees = <<"gamma">>],
          [lines EXCEPT !.epsilons[1].label = "V"], [lines EXCEPT !.toplabels[1] = "V"]}

MCInit ==
  /\ \/ \E x \in Renumbered \cup Star :
          /\ forest = x[1] /\ number = x[2]
          /\ files = FilesWith(LinesOf, G!DefaultPref)
     \/ \E x \in Varied :
          /\ forest = x[1] /\ number = x[2]
          /\ files = FilesWith(LinesOf, x[3])
     \/ /\ forest = <<Beta>> /\ number = InOrder(<<Beta>>)
        /\ \E faulty \in Faulty(LinesOf) :
             files = [FilesWith(faulty, G!DefaultPref) EXCEPT !.project = ProjectLines(LinesOf)]
  /\ Init

MCNext == Next /\ UNCHANGED <<forest, number>>

MCSpec == MCInit /\ [][MCNext]_<<vars, forest, number>>

-----------------------------------------------------------------------------
Numbers(t, s) == [k \in DOMAIN s |-> number[<<t, s[k]>>]]

\* The leaves below a node in the table as it is.
RECURSIVE BinLeaves(_), BinRow(_)
BinLeaves(n) == IF bin[n].leftchild = NULL_T THEN <<n>> ELSE BinRow(bin[n].leftchild)
BinRow(n)    == BinLeaves(n) \o (IF bin[n].flag = PARENT THEN <<>> ELSE BinRow(bin[n].right))

\* Whatever the numbering, after every round of the loop of bin_binarize the
\* table is that of a tree, with the same leaves in the same order below every
\* node of the grammar; in the end no node has more than two children; and the new nodes are
\* as many as were counted ("myassert(last == bin->bin_num_treenodes)").
BinaryTrees ==
  pc \in {"binarise", "ready"} =>
    /\ \A n \in DOMAIN bin : bin[n].leftchild # NULL_T => bin_parent(bin[n].leftchild) = n
    /\ \A p \in Of(forest) :
         BinLeaves(number[p]) = Numbers(p[1], LeavesBelow(forest[p[1]], p[2]))
    /\ last <= bin_num_treenodes
    /\ i \notin GramNodes =>
         /\ last = bin_num_treenodes
         /\ \A n \in DOMAIN bin : bin[n].flag # PARENT => bin[bin[n].right].flag = PARENT

\* The tables that the parser reads say of the binary trees what the model of
\* the parser takes for granted (Hand of module Grammar): parents, siblings,
\* kinds, headcorners, feet, adjunction and lists of roots; and the order of
\* leaves that pruning compares is that of the tree.
TablesGiveHand ==
  pc = "ready" =>
    LET row == Numbered(forest)
        node(k) == LET t == row[k].tree
                       v == number[<<t, row[k].name[2]>>]
                   IN IF row[k].name[1] = "node" THEN v ELSE bin_parent(v)
        of(k) == IF k = 0 THEN NULL_T ELSE node(k)
        seq(s) == [k \in DOMAIN s |-> node(s[k])]
        H == G!Hand(AsGrammar(forest, files.pref, DOMAIN forest))
        l(k) == H.label[k]
    IN /\ {node(k) : k \in DOMAIN row} = DOMAIN bin
       /\ \A k \in DOMAIN row :
            /\ H.up[k] # 0 => bin_parent(node(k)) = of(H.up[k])
            /\ hparse_headtype(node(k)) = H.side[k] /\ HeadSibling(node(k)) = of(H.sibling[k])
            /\ bin_nodetype(node(k)) = H.kind[k]
            /\ hand.headcorner_tbl[node(k)] = node(H.head[k])
            /\ g.footnode_tbl[bin_tree_from_node(node(k))] = of(H.foot[k])
            /\ bin_adjoinable_node(node(k)) = (k \in H.adjoin)
            /\ ~Added(node(k)) => hand.leftaux_tbl[node(k)] = (k \in H.leftaux)
            /\ ~Added(node(k)) => hand.rightaux_tbl[node(k)] = (k \in H.rightaux)
       /\ \A active \in SUBSET DOMAIN forest :
            LET A == G!Hand(AsGrammar(forest, files.pref, active))
                on == {t - 1 : t \in active}
                lexical == \A t \in DOMAIN forest : OfKind(t, "anchor") # {}
            IN lexical => \A x \in {"S", "N"} \cap DOMAIN A.inits :
                 LET k == gram_index_from_label(g, x)
                 IN /\ hand_rootnode_tbl(on, FALSE)[k] = seq(A.inits[x])
                    /\ hand_rootnode_tbl(on, TRUE)[k] = seq(A.auxs[x])
       /\ \A t \in DOMAIN forest :
            LET leaves == LeavesBelow(forest[t], 1)
            IN /\ g.terminal_list_tbl[t - 1] =
                    Numbers(t, SelectSeq(leaves, LAMBDA v : forest[t].kind[v] = "terminal"))
               /\ \A j, k \in DOMAIN leaves :
                    gram_treenode_cmp(g, t - 1, number[<<t, leaves[j]>>], number[<<t, leaves[k]>>])
                      = (IF j < k THEN -1 ELSE IF k < j THEN 1 ELSE 0)

\* gram_delete and hand_delete free every block that was allocated, and none
\* of them twice.
AllFreed ==
  /\ pc = "ready" =>
       /\ FreedByAll \cup HandBlocks \subseteq live
       /\ \A f, h \in DOMAIN FreedBy : f # h => FreedBy[f] \cap FreedBy[h] = {}
  /\ pc = "deleted" => live = {}
=============================================================================
