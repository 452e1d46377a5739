---------------------------- MODULE FeatureLogic ----------------------------
(***************************************************************************)
(* What a feature structure means, and what the operations of the feature  *)
(* checker should make of it, without pointers and without marks.          *)
(*                                                                         *)
(* A structure maps each of its paths to the atoms it admits there and to  *)
(* the paths that lead to the same place.  Two structures unify to the     *)
(* least one that has the paths and the identities of both.                *)
(***************************************************************************)
EXTENDS Naturals, Sequences, FiniteSets, SequencesExt

Error == "EET"

\* The structure whose places are the classes F of paths.
Structure(F, labels(_)) ==
  [p \in UNION F |-> LET c == CHOOSE c \in F : p \in c IN [labels |-> labels(c), same |-> c]]

Nothing == Structure({{<<>>}}, LAMBDA c : {})
Failure == Structure({{<<>>}}, LAMBDA c : {Error})

Classes(m) == {m[p].same : p \in DOMAIN m}

\* The places below a class, by one feature.
Below(F, c) ==
  {{Append(p, f) : p \in c} :
     f \in {Last(q) : q \in {q \in UNION F : q # <<>> /\ Front(q) \in c}}}

\* The least coarsening of F by which equal paths have equal features.
RECURSIVE Congruence(_)
Congruence(F) ==
  LET meeting == {v \in F \X F : v[1] # v[2] /\ v[1] \cap v[2] # {}}
      missing == {d \in UNION {Below(F, c) : c \in F} : \A c \in F : ~(d \subseteq c)}
  IN IF meeting # {}
     THEN LET v == CHOOSE v \in meeting : TRUE
          IN Congruence((F \ {v[1], v[2]}) \cup {v[1] \cup v[2]})
     ELSE IF missing # {} THEN Congruence(F \cup missing) ELSE F

\* The atoms admitted by places that become one; no atoms there admit all.
Meet(S) == LET T == S \ {{}} IN IF T = {} THEN {} ELSE {a \in UNION T : \A s \in T : a \in s}

Unify(m, n) ==
  LET F      == Congruence(Classes(m) \cup Classes(n))
      met(c) == {m[p].labels : p \in c \cap DOMAIN m} \cup {n[p].labels : p \in c \cap DOMAIN n}
      fails  == \E c \in F : UNION met(c) # {} /\ (Meet(met(c)) = {} \/ Below(F, c) # {})
  IN IF fails THEN Failure ELSE Structure(F, LAMBDA c : Meet(met(c)))

\* Just the identity of two paths, and of nothing else.
Identity(p, q) ==
  Structure(Congruence({{r} : r \in Prefixes(p) \cup Prefixes(q)} \cup {{p, q}}), LAMBDA c : {})

Path(p) == Identity(p, p)

\* Reading an atom adds it to those admitted.
WithAtoms(m, p, atoms) ==
  IF m = Failure THEN m
  ELSE LET n == Unify(m, Path(p))
       IN [q \in DOMAIN n |-> IF q \in n[p].same THEN [n[q] EXCEPT !.labels = @ \cup atoms] ELSE n[q]]

WithIdentity(m, p, q) == IF m = Failure THEN m ELSE Unify(m, Identity(p, q))

\* The structure at a path, and a structure moved below one.
At(m, p) ==
  LET paths == {q \in DOMAIN m : IsPrefix(p, q)}
      cut(q) == SubSeq(q, Len(p) + 1, Len(q))
  IN [r \in {cut(q) : q \in paths} |->
        [m[p \o r] EXCEPT !.same = {cut(q) : q \in @ \cap paths}]]

Under(m, f) ==
  LET down(c) == {<<f>> \o p : p \in c}
      label   == [d \in {down(c) : c \in Classes(m)} |-> m[Tail(CHOOSE p \in d : TRUE)].labels]
  IN Structure({{<<>>}} \cup DOMAIN label, LAMBDA c : IF c = {<<>>} THEN {} ELSE label[c])

\* m tells no more than n.
Subsumes(m, n) ==
  \A p \in DOMAIN m :
    /\ p \in DOMAIN n
    /\ m[p].same \subseteq n[p].same
    /\ m[p].labels # {} => n[p].labels # {} /\ n[p].labels \subseteq m[p].labels

-----------------------------------------------------------------------------
(* The operations of a tree-adjoining grammar on the structures of its      *)
(* trees: "Dn" stands for the node a tree is attached to.                   *)

Attached(m, n) == Under(At(m, <<"Dn">>), n)

Substituted(m, n) == Attached(m, n)
Adjoined(l, r, n) == Unify(l, Attached(r, n))
NotAdjoined(l, n) == Unify(l, Identity(<<n, "t">>, <<n, "b">>))
=============================================================================
