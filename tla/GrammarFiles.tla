---------------------------- MODULE GrammarFiles ----------------------------
(***************************************************************************)
(* Reading a grammar (gram_new, src/src/parser/gram.c, and the readers of  *)
(* gram_slurp.c) and giving back its memory (gram_delete).                 *)
(*                                                                         *)
(* The files are sequences of lines, in the formats of README.data.  A     *)
(* reader takes as many lines as the project file says and aborts when     *)
(* there are fewer; it uses tables that earlier readers made.              *)
(***************************************************************************)
EXTENDS TreeTables

VARIABLES
  project,         \* the numbers of the project file
  files,           \* the other files, each a sequence of lines
  g,               \* the grammar read so far
  pc,              \* the reader whose turn it is
  live             \* the memory allocated for the grammar and not yet freed

fileVars == <<project, files, g, pc, live>>

\* The readers in their order.
Readers == <<"labels", "subscripts", "treenodes", "trees", "treenames", "treefeatures",
             "families", "epsilons", "toplabels", "syndefault">>

\* A table read from a file, by lines 1 .. n.
Table(n, Entry(_)) == [k \in 0 .. n - 1 |-> Entry(k + 1)]

\* A block for a table and one for each of some of its entries.
Blocks(name, entries) == {<<name, NULL_T>>} \cup {<<name, k>> : k \in entries}

\* The last value that the project file gives for an attribute.
Attribute(lines, a) ==
  lines[CHOOSE k \in DOMAIN lines :
          lines[k].attr = a /\ \A j \in k + 1 .. Len(lines) : lines[j].attr # a].value

\* gram_new: lines with other attributes are skipped with a warning.
read_project ==
  /\ pc = "project"
  /\ \A a \in ToSet(Readers) \ {"syndefault"} : \E k \in DOMAIN files.project : files.project[k].attr = a
  /\ project' = [a \in ToSet(Readers) \ {"syndefault"} |-> Attribute(files.project, a)]
  /\ pc' = "labels"
  /\ UNCHANGED <<files, g, live>>

Enough(name, n) == pc = name /\ Len(files[name]) >= n

\* err_abort: the file is too short.
Abort ==
  /\ \E name \in ToSet(Readers) :
       /\ pc = name /\ name # "syndefault"
       /\ Len(files[name]) < project[name]
  /\ pc' = "aborted"
  /\ UNCHANGED <<project, files, g, live>>

\* The grammar with one more table, the blocks it takes, and the next reader.
Add(fields, blocks, next) ==
  /\ g' = fields @@ g
  /\ live' = live \cup blocks
  /\ pc' = next
  /\ UNCHANGED <<project, files>>

read_labels ==
  LET n == project.labels
  IN /\ Enough("labels", n)
     /\ Add([label_tbl |-> Table(n, LAMBDA k : files.labels[k])],
            Blocks("label_tbl", 0 .. n - 1), "subscripts")

read_subscripts ==
  LET n == project.subscripts
  IN /\ Enough("subscripts", n)
     /\ Add([subscript_tbl |-> Table(n, LAMBDA k : files.subscripts[k])],
            Blocks("subscript_tbl", 0 .. n - 1), "treenodes")

read_treenodes ==
  LET n    == project.treenodes
      none == Table(n, LAMBDA k : NULL_T)
  IN /\ Enough("treenodes", n)
     /\ Add([treenode_tbl |-> Table(n, LAMBDA k : files.treenodes[k]),
             inverted_subst_tbl |-> none, inverted_foot_tbl |-> none,
             inverted_anchor_tbl |-> none, inverted_NA_tbl |-> none],
            UNION {Blocks(t, {}) : t \in {"treenode_tbl", "inverted_subst_tbl", "inverted_foot_tbl",
                                          "inverted_anchor_tbl", "inverted_NA_tbl"}},
            "trees")

\* The tree that last named a node in its list.
Inverted(n, lists) ==
  [v \in 0 .. n - 1 |->
     LET owners == {t \in DOMAIN lists : v \in ToSet(lists[t])}
     IN IF owners = {} THEN NULL_T ELSE CHOOSE t \in owners : \A u \in owners : u <= t]

read_trees ==
  LET n      == project.trees
      nodes  == project.treenodes
      substs == Table(n, LAMBDA k : files.trees[k].subst)
      anchors == Table(n, LAMBDA k : files.trees[k].anchor)
      nas    == Table(n, LAMBDA k : files.trees[k].NA)
      feet   == Table(n, LAMBDA k : files.trees[k].foot)
      listed(lists) == {t \in 0 .. n - 1 : lists[t] # <<>>}
  IN /\ Enough("trees", n)
     /\ Add([tree_tbl |-> Table(n, LAMBDA k : files.trees[k].root),
             footnode_tbl |-> feet,
             subst_list_tbl |-> substs, anchor_list_tbl |-> anchors, NA_list_tbl |-> nas,
             inverted_subst_tbl |-> Inverted(nodes, substs),
             inverted_anchor_tbl |-> Inverted(nodes, anchors),
             inverted_NA_tbl |-> Inverted(nodes, nas),
             inverted_foot_tbl |-> Inverted(nodes, [t \in 0 .. n - 1 |-> IF feet[t] = -1 THEN <<>> ELSE <<feet[t]>>])],
            UNION {Blocks(t, {}) : t \in {"tree_tbl", "footnode_tbl", "num_subst_tbl",
                                          "num_anchor_tbl", "num_NA_tbl"}}
              \cup Blocks("subst_list_tbl", listed(substs))
              \cup Blocks("anchor_list_tbl", listed(anchors))
              \cup Blocks("NA_list_tbl", listed(nas)),
            "treenames")

read_treenames ==
  LET n == project.treenames
  IN /\ Enough("treenames", n)
     /\ Add([treename_tbl |-> Table(n, LAMBDA k : files.treenames[k])],
            Blocks("treename_tbl", 0 .. n - 1), "treefeatures")

read_treefeatures ==
  LET n == project.treefeatures
  IN /\ Enough("treefeatures", n)
     /\ Add([treefeat_tbl |-> Table(n, LAMBDA k : files.treefeatures[k])],
            Blocks("treefeat_tbl", 0 .. n - 1), "families")

\* The trees of a family are given by name; an unknown name is fatal.
read_families ==
  LET n     == project.families
      known == \A k \in 1 .. n : \A t \in ToSet(files.families[k].trees) : gram_treeindex(g, t) # NULL_T
      trees(k) == [j \in DOMAIN files.families[k].trees |-> gram_treeindex(g, files.families[k].trees[j])]
  IN /\ Enough("families", n)
     /\ IF known
        THEN Add([family_tbl |-> Table(n, LAMBDA k : files.families[k].name), family_tree |-> Table(n, trees)],
                 Blocks("family_tbl", 0 .. n - 1) \cup Blocks("family_size", {})
                   \cup Blocks("family_tree", 0 .. n - 1),
                 "epsilons")
        ELSE pc' = "aborted" /\ UNCHANGED <<project, files, g, live>>

\* So is the unknown label of an empty element.
read_epsilons ==
  LET n     == project.epsilons
      known == \A k \in 1 .. n : gram_index_from_label(g, files.epsilons[k].label) # -1
      entry(k) == [empty_elt |-> files.epsilons[k].empty_elt,
                   label |-> gram_index_from_label(g, files.epsilons[k].label)]
  IN /\ Enough("epsilons", n)
     /\ IF known THEN Add([eps_tbl |-> Table(n, entry)], Blocks("eps_tbl", 0 .. n - 1), "toplabels")
        ELSE pc' = "aborted" /\ UNCHANGED <<project, files, g, live>>

read_toplabels ==
  LET n     == project.toplabels
      known == \A k \in 1 .. n : gram_index_from_label(g, files.toplabels[k]) # -1
  IN /\ Enough("toplabels", n)
     /\ IF known
        THEN Add([toplabel_tbl |-> Table(n, LAMBDA k : gram_index_from_label(g, files.toplabels[k]))],
                 Blocks("toplabel_tbl", 0 .. n - 1), "syndefault")
        ELSE pc' = "aborted" /\ UNCHANGED <<project, files, g, live>>

\* Every line that is ended by a line feed; the table has room for
\* _gram_max_default_entries.
read_syndefault ==
  /\ pc = "syndefault"
  /\ LET n == Len(files.syndefault)
     IN Add([syndefault |-> Table(n, LAMBDA k : files.syndefault[k])],
            Blocks("syndefault", 0 .. n - 1), "treeinfo")

gram_treeinfo ==
  LET terminals  == [t \in DOMAIN g.tree_tbl |-> Terminals(g, t)]
      adjoinable == [t \in DOMAIN g.tree_tbl |-> AdjoinableNodes(g, t)]
      listed(lists) == {t \in DOMAIN lists : lists[t] # <<>>}
  IN /\ pc = "treeinfo"
     /\ Add([labeltree_tbl |-> LabelTrees(g).head, labeltree_list_tbl |-> LabelTrees(g).next,
             inverted_tree_tbl |-> InvertedTrees(g),
             terminal_list_tbl |-> terminals, adjoinable_list_tbl |-> adjoinable],
            UNION {Blocks(t, {}) : t \in {"labeltree_tbl", "labeltree_list_tbl", "inverted_tree_tbl",
                                          "num_terminal_tbl", "num_adjoinable_tbl"}}
              \cup Blocks("terminal_list_tbl", listed(terminals))
              \cup Blocks("adjoinable_list_tbl", listed(adjoinable)),
            "loaded")

Reading ==
  \/ read_project \/ read_labels \/ read_subscripts \/ read_treenodes \/ read_trees \/ read_treenames
  \/ read_treefeatures \/ read_families \/ read_epsilons \/ read_toplabels \/ read_syndefault
  \/ gram_treeinfo \/ Abort

-----------------------------------------------------------------------------
(* gram_delete: what each of the functions it calls frees.                  *)

\* Fault: lists of one node are not freed.
FreedListsShort(name, lists) == Blocks(name, {t \in DOMAIN lists : Len(lists[t]) > 1})

FreedLists(name, lists) == Blocks(name, {t \in DOMAIN lists : lists[t] # <<>>})

FreedBy ==
  [delete_treeinfo |->
     UNION {Blocks(t, {}) : t \in {"labeltree_tbl", "labeltree_list_tbl", "inverted_tree_tbl",
                                   "num_terminal_tbl", "num_adjoinable_tbl"}}
       \cup FreedLists("terminal_list_tbl", g.terminal_list_tbl)
       \cup FreedLists("adjoinable_list_tbl", g.adjoinable_list_tbl),
   delete_labels |-> Blocks("label_tbl", 0 .. project.labels - 1),
   delete_subscripts |-> Blocks("subscript_tbl", 0 .. project.subscripts - 1),
   delete_treenodes |->
     UNION {Blocks(t, {}) : t \in {"treenode_tbl", "inverted_subst_tbl", "inverted_foot_tbl",
                                   "inverted_anchor_tbl", "inverted_NA_tbl"}},
   delete_trees |->
     UNION {Blocks(t, {}) : t \in {"tree_tbl", "footnode_tbl", "num_subst_tbl",
                                   "num_anchor_tbl", "num_NA_tbl"}}
       \cup FreedLists("subst_list_tbl", g.subst_list_tbl)
       \cup FreedLists("anchor_list_tbl", g.anchor_list_tbl)
       \cup FreedLists("NA_list_tbl", g.NA_list_tbl),
   delete_treenames |-> Blocks("treename_tbl", 0 .. project.treenames - 1),
   delete_treefeatures |-> Blocks("treefeat_tbl", 0 .. project.treefeatures - 1),
   delete_families |-> Blocks("family_tbl", 0 .. project.families - 1) \cup Blocks("family_size", {})
                         \cup Blocks("family_tree", 0 .. project.families - 1),
   delete_epsilons |-> Blocks("eps_tbl", 0 .. project.epsilons - 1),
   delete_toplabels |-> Blocks("toplabel_tbl", 0 .. project.toplabels - 1),
   delete_syndefault |-> Blocks("syndefault", DOMAIN g.syndefault)]

FreedByAll == UNION {FreedBy[f] : f \in DOMAIN FreedBy}
=============================================================================
