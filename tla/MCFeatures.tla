----------------------------- MODULE MCFeatures -----------------------------
(***************************************************************************)
(* The feature checker on small instances: either structures are read,     *)
(* combined and printed, or forests are checked one after the other.       *)
(***************************************************************************)
EXTENDS FeatStruct, FeatForest

CONSTANTS x, y, z

VARIABLE part

-----------------------------------------------------------------------------
(* Structures.                                                              *)

MCReads == [o \in {x, y, z} |-> IF o = x THEN 2 ELSE IF o = y THEN 1 ELSE 0]
MCAtoms == {<<<<"A", "t", "agr", "num">>, <<"sing">>>>,
            <<<<"A", "t", "agr", "num">>, <<"sing", "plur">>>>,
            <<<<"A", "b", "agr", "num">>, <<"plur">>>>,
            <<<<"B", "t", "agr", "num">>, <<"sing">>>>}
MCIds == {<<<<"A", "t", "agr">>, <<"B", "t", "agr">>>>,
          <<<<"A", "t", "agr">>, <<"A", "b", "agr">>>>,
          <<<<"Dn", "t">>, <<"A", "t">>>>}

-----------------------------------------------------------------------------
(* Forests.                                                                 *)

\* Features of trees.
Link(m, p, q) == Sem!WithIdentity(m, p, q)
SubjectVerb == Link(Link(Sem!Nothing, <<"NP", "t", "agr">>, <<"V", "t", "agr">>),
                  <<"S", "b", "agr">>, <<"V", "t", "agr">>)
MCGramFeats ==
  [t \in {"alphaS", "alphaS2", "alphaNP", "betaAd", "betaSing"} |->
     CASE t \in {"alphaS", "alphaS2"} -> SubjectVerb
       [] t = "alphaNP" -> Link(Sem!Nothing, <<"NP", "b", "agr">>, <<"N", "t", "agr">>)
       [] t = "betaAd"  -> Link(Sem!Nothing, <<"S_r", "b", "agr">>, <<"S_f", "t", "agr">>)
       [] t = "betaSing" ->
            Sem!WithAtoms(Link(Sem!Nothing, <<"S_r", "b", "agr">>, <<"S_f", "t", "agr">>),
                          <<"S_f", "b", "agr", "num">>, {"sing"})]

\* Features of words.
Num(node, atoms) == Sem!WithAtoms(Sem!Nothing, <<node, "b", "agr", "num">>, atoms)
Numbers == {<<{"sing"}>>, <<{"plur"}>>, <<{"sing"}, {"plur"}>>, <<{"sing", "plur"}>>}
Lexical(node, list) == [k \in DOMAIN list |-> Num(node, list[k])]

\* Lines.
RootOf(t) == IF t \in {"alphaS", "alphaS2"} THEN "S" ELSE IF t = "alphaNP" THEN "NP" ELSE "S_r"
FootOf(t) == IF t \in {"betaAd", "betaSing"} THEN "S_f" ELSE ""
Item(n, tree, node, type, ops, lexical) ==
  [kind |-> "item", name |-> n, tree |-> tree, root |-> RootOf(tree), foot |-> FootOf(tree),
   node |-> node, type |-> type, ops |-> ops, lexical |-> lexical]
Or(n, tree, node, type, ops) == Item(n, tree, node, type, ops, <<>>)
Leaf(n, tree, node, lexical) == Item(n, tree, node, "bot", <<>>, lexical)
Op(l, r) == [left |-> l, right |-> r]
Start(n, feats) == [kind |-> "start", name |-> n, feats |-> feats]

Noun(ns) ==
  <<Or(6, "alphaNP", "NP", "top", <<Op(5, 0)>>), Or(5, "alphaNP", "NP", "bot", <<Op(4, 0)>>),
    Or(4, "alphaNP", "N", "top", <<Op(3, 0)>>), Leaf(3, "alphaNP", "N", Lexical("N", ns))>>

Adverb(b, t) ==
  <<Or(b + 5, t, "S_r", "top", <<Op(b + 4, 0)>>),
    Or(b + 4, t, "S_r", "bot", <<Op(b + 3, b + 1)>>),
    Or(b + 3, t, "S_f", "top", <<Op(b + 2, 0)>>), Leaf(b + 2, t, "S_f", <<Sem!Nothing>>),
    Or(b + 1, t, "Ad", "top", <<Op(b, 0)>>), Leaf(b, t, "Ad", <<Sem!Nothing>>)>>

\* A sentence of a tree: its root item s + 9, below it the subject's item s + 7.
Sentence(s, tree, ops, adverbs, vs, noun) ==
  <<Or(s + 9, tree, "S", "top", ops)>> \o adverbs
    \o <<Or(s + 8, tree, "S", "bot", <<Op(s + 7, s + 2)>>),
         Or(s + 7, tree, "NP", "top", <<Op(6, 0)>>)>> \o noun
    \o <<Or(s + 2, tree, "V", "top", <<Op(s + 1, 0)>>), Leaf(s + 1, tree, "V", Lexical("V", vs))>>

Wants == {Sem!Nothing, Sem!WithAtoms(Sem!Nothing, <<"S", "t", "agr", "num">>, {"sing"})}

Plain(w, ns, vs) == <<Start(9, w)>> \o Sentence(0, "alphaS", <<Op(8, 0)>>, <<>>, vs, Noun(ns))
Modified(w, ns, vs) ==
  <<Start(9, w)>> \o Sentence(0, "alphaS", <<Op(25, 8), Op(35, 8)>>,
                              Adverb(20, "betaAd") \o Adverb(30, "betaSing"), vs, Noun(ns))
\* Two trees of the verb, with the same subject.
TwoTrees(w, ns, vs) ==
  <<Start(9, Sem!Nothing)>> \o Sentence(0, "alphaS", <<Op(8, 0)>>, <<>>, vs, Noun(ns))
    \o <<Start(49, w)>> \o Sentence(40, "alphaS2", <<Op(35, 48)>>, Adverb(30, "betaSing"), vs, <<>>)

Forests == UNION {{Plain(w, ns, vs), Modified(w, ns, vs), TwoTrees(w, ns, vs)} :
                    w \in Wants, ns \in Numbers, vs \in Numbers}

-----------------------------------------------------------------------------
MCInit ==
  \/ part = "structures" /\ Init /\ input = <<>> /\ line = 0 /\ items = <<>> /\ starts = <<>> /\ written = <<>>
  \/ part = "forests" /\ ForestInit /\ heap = EmptyHeap /\ root = <<>> /\ reads = <<>> /\ steps = 0 /\ sem = <<>>

MCNext ==
  \/ part = "structures" /\ Next /\ UNCHANGED <<part, forestVars>>
  \/ part = "forests" /\ ForestNext /\ UNCHANGED <<part, vars>>

MCSpec == MCInit /\ [][MCNext]_<<part, vars, forestVars>>

\* A derivation is written exactly when its noun, its verb, its adverb and the
\* start of the sentence admit a number in common.
RECURSIVE Leaves(_)
Leaves(d) == IF d = <<>> THEN {} ELSE IF Len(d) = 2 THEN {d} ELSE Leaves(d[2]) \cup Leaves(d[3])

NumbersOf(leaf) ==
  LET l == CHOOSE l \in ToSet(input) : l.name = leaf[1]
      path == <<l.node, "b", "agr", "num">>
      own == IF path \in DOMAIN l.lexical[leaf[2]] THEN l.lexical[leaf[2]][path].labels ELSE {"sing", "plur"}
  IN IF l.tree = "betaSing" /\ l.node = "S_f" THEN {"sing"} ELSE own

AgreeInNumber ==
  \A w \in ToSet(written) :
    LET printed == UNION {Unfolded(items, c) : c \in w.good}
        wanted  == IF items[w.item].want = Sem!Nothing THEN {"sing", "plur"} ELSE {"sing"}
    IN \A d \in Derivations(items, w.item) :
         d \in printed <=> \E a \in wanted : \A leaf \in Leaves(d) : a \in NumbersOf(leaf)
=============================================================================
