------------------------------ MODULE MCHParse ------------------------------
(***************************************************************************)
(* Small lexicalised grammars for checking HParse with TLC.                *)
(***************************************************************************)
EXTENDS HParseComplete, Grammar

\* A tree: <<parent, kind, label>> for each of its nodes, numbered from 1.
Initial(label, anchor) == <<<<0, "internal", label>>, <<1, "anchor", anchor>>>>

\* An auxiliary tree whose foot is on the left (the right) of its anchor.
RightAux(label, anchor) ==
  <<<<0, "internal", label>>, <<1, "foot", label>>, <<1, "anchor", anchor>>>>
LeftAux(label, anchor) ==
  <<<<0, "internal", label>>, <<1, "anchor", anchor>>, <<1, "foot", label>>>>

\* "S -> NP VP, VP -> V" and "S -> NP VP, VP -> V NP"
Intransitive == <<<<0, "internal", "S">>, <<1, "subst", "NP">>,
                  <<1, "internal", "VP">>, <<3, "anchor", "V">>>>
Transitive == <<<<0, "internal", "S">>, <<1, "subst", "NP">>,
                <<1, "internal", "VP">>, <<3, "anchor", "V">>, <<3, "subst", "NP">>>>
\* "S -> NP VP, VP -> V Prt", with two anchors
Particle == <<<<0, "internal", "S">>, <<1, "subst", "NP">>,
              <<1, "internal", "VP">>, <<3, "anchor", "V">>, <<3, "anchor", "Prt">>>>

\* The trees one after another, their nodes renumbered.
Forest(trees) ==
  LET lift(t, by) == [n \in DOMAIN t |->
                        <<IF t[n][1] = 0 THEN 0 ELSE t[n][1] + by, t[n][2], t[n][3]>>]
      add(done, t) == done \o lift(t, Len(done))
  IN FoldLeft(add, <<>>, trees)

\* The grammar of some trees for a sentence whose k-th word can be anything in
\* cats[k].
Lexicalised(trees, cats, pref) ==
  LET f == Forest(trees)
  IN [up    |-> [n \in DOMAIN f |-> f[n][1]],
      kind  |-> [n \in DOMAIN f |-> f[n][2]],
      label |-> [n \in DOMAIN f |-> f[n][3]],
      na    |-> {},
      lexed |-> {p \in (0 .. Len(cats) - 1) \X DOMAIN f :
                   f[p[2]][2] \in {"anchor", "terminal"} /\ f[p[2]][3] \in cats[p[1] + 1]},
      eps   |-> {n \in DOMAIN f : f[n][2] = "anchor" /\ f[n][3] \in {"e"}},
      tops  |-> <<"S">>, words |-> Len(cats), pref |-> pref]

Categories(words, cats) == [1 .. words -> cats]

-----------------------------------------------------------------------------
\* Every lexicalisation of subject, verb and modifiers by three words.
BasicTrees == <<Intransitive, Initial("NP", "N"), RightAux("VP", "Ad"), LeftAux("VP", "Ad")>>
BasicHands ==
  {Hand(Lexicalised(BasicTrees, c, DefaultPref)) :
     c \in Categories(3, {{"N"}, {"V"}, {"Ad"}, {"N", "V", "Ad"}})}

\* Verbs with an object or with a particle, and modifiers of noun phrases.
VerbTrees == <<Transitive, Particle, Initial("NP", "N"), LeftAux("NP", "Ad"), LeftAux("S", "Ad")>>
VerbHands ==
  {Hand(Lexicalised(VerbTrees, <<a, b, c>> \o d, DefaultPref)) :
     a \in {{"N"}, {"Ad"}}, b \in {{"V"}, {"N"}, {"V", "N"}},
     c \in {{"N"}, {"Ad", "Prt"}}, d \in {<<{"N"}>>, <<{"N", "Prt"}>>}}

\* Noun phrases that two words can head, wanted at two different times.
Late == <<<<0, "internal", "S">>, <<1, "subst", "NP">>>>
          \o [k \in 1 .. 9 |-> <<IF k = 1 THEN 1 ELSE k + 1, "internal", "VP">>]
          \o <<<<11, "anchor", "V">>>>
HeadlessTrees ==
  <<Intransitive, Initial("NP", "N"), LeftAux("NP", "Ad"), RightAux("NP", "Ad"), Late>>
HeadlessHands ==
  {Hand(Lexicalised(HeadlessTrees, <<{"N", "Ad"}, {"N", "Ad"}, {"V"}>>, DefaultPref))}

\* Unlexicalised trees, and a trace.
PRO == Initial("NP", "e")
Relative == <<<<0, "internal", "NP">>, <<1, "foot", "NP">>, <<1, "internal", "S">>,
              <<3, "internal", "T">>, <<4, "eps", "t">>,
              <<3, "internal", "VP">>, <<6, "anchor", "V">>>>
EmptyAdverb == <<<<0, "internal", "VP">>, <<1, "foot", "VP">>, <<1, "internal", "A">>,
                 <<3, "anchor", "e">>, <<3, "subst", "NP">>>>
EpsTrees == <<Intransitive, Initial("NP", "N"), PRO, Relative, LeftAux("VP", "Ad")>>
EpsPref(adjoin) == [DefaultPref EXCEPT !.epsTrees = TRUE, !.epsAdjoin = adjoin]
EpsilonHands ==
  {Hand(Lexicalised(EpsTrees, c, EpsPref(FALSE))) :
     c \in {<<{"N"}, {"V"}, {"V"}>>, <<{"Ad"}, {"V"}>>, <<{"N"}, {"V"}>>, <<{"V", "N"}, {"V", "Ad"}>>}}

\* Several adjunctions at one node.
MultipleHands ==
  {Hand(Lexicalised(BasicTrees, c, [DefaultPref EXCEPT !.multiple = TRUE])) :
     c \in Categories(3, {{"N"}, {"Ad"}, {"V", "Ad"}})}

\* Modifiers on both sides of a verb: one item with several derivations.
AmbiguousHands ==
  {Hand(Lexicalised(BasicTrees, <<{"N"}, {"Ad"}, {"V"}, v>>, [DefaultPref EXCEPT !.multiple = m])) :
     m \in BOOLEAN, v \in {{"Ad"}, {"V", "Ad"}}}

\* The grammars on which the parser keeps its promise.
CoreHands == BasicHands \cup VerbHands \cup MultipleHands \cup AmbiguousHands
               \cup EpsilonHands

\* AuxLexical holds of them: every auxiliary tree has a leaf that stands for
\* words.
Worded(h) ==
  {n \in h.nodes : \E m \in D!LeavesBelow(h, n) :
     \/ h.kind[m] \in {"anchor", "terminal"} /\ ~(h.pref.epsTrees /\ m \in h.eps)
     \/ h.kind[m] = "subst" /\ ~h.pref.epsTrees}

ASSUME CoreLexical == \A h \in CoreHands : NeverEmpty(h, Worded(h))

\* An unlexicalised initial tree with a substitution node.
Bare == <<<<0, "internal", "NP">>, <<1, "anchor", "e">>, <<1, "subst", "N">>>>
BareHands ==
  {Hand(Lexicalised(<<Intransitive, Bare, Initial("N", "N")>>, <<{"N"}, {"V"}>>, EpsPref(FALSE)))}

\* An unlexicalised auxiliary tree whose only yield is a substitution node.
EmptyAdverbHands ==
  {Hand(Lexicalised(Append(EpsTrees, EmptyAdverb), <<{"V"}, {"N"}>>, EpsPref(FALSE)))}

\* The wrapping preferences.
WrappingHands ==
  {Hand(Lexicalised(BasicTrees, <<{"N"}, {"Ad"}, {"V"}, {"Ad"}>>,
          [DefaultPref EXCEPT !.noLeftWrap = l, !.noRightWrap = ~l, !.multiple = m])) :
     l \in BOOLEAN, m \in BOOLEAN}
=============================================================================
