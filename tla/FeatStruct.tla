----------------------------- MODULE FeatStruct -----------------------------
(***************************************************************************)
(* Feature structures read from equations (FeatStruct::Read,               *)
(* src/src/featchecker/nl-feattable.cpp), unified, combined as the forest  *)
(* requires (ChartItem::AddChecked, nl-tagforest.cpp), copied and printed. *)
(*                                                                         *)
(* Each object is a variable of the program that holds a structure.        *)
(***************************************************************************)
EXTENDS FeatureNode

CONSTANTS
  Objects,       \* the structures the program holds
  Atoms,         \* the equations path = atom/atom, <<path, list of atoms>>
  Identities,    \* the equations path = path, <<path, path>>
  TreeNodes,     \* the nodes of elementary trees
  Results,       \* the objects operations are done on
  MaxReads,      \* bound: equations read into an object
  MaxSteps       \* bound: operations after the reading

VARIABLES
  heap,
  root,          \* the node each object is
  reads,         \* the equations read into each object
  steps,
  sem            \* history: what the logic of features makes of each object

vars == <<heap, root, reads, steps, sem>>

Logic == INSTANCE FeatureLogic

-----------------------------------------------------------------------------
(* Reading one equation.                                                    *)

AddLabels(h, x, atoms) == Each(LAMBDA g, l : AddLabel(g, x, l), h, atoms)

ReadAtoms(h, x, path, atoms) ==
  LET p == AddPath(h, x, path) IN AddLabels(p.h, p.at, atoms)

\* The paths without their last arcs are made first; when both paths exist
\* the structure is unified with a new one in which they are the same.
ReadIdentity(h, x, p, q) ==
  LET l == AddPath(h, x, Front(p))
      r == AddPath(l.h, x, Front(q))
      hasLeft  == GetFeature(r.h, l.at, Last(p)) # NULL
      hasRight == GetFeature(r.h, r.at, Last(q)) # NULL
      toRight  == AddFeature(r.h, r.at, Last(q))
      toLeft   == AddFeature(r.h, l.at, Last(p))
      new  == Fresh(r.h)
      newL == AddPath(New(r.h), new, Front(p))
      newR == AddPath(newL.h, new, Front(q))
      both == AddFeature(newR.h, newR.at, Last(q))
      made == AddFeatureTo(both.h, newL.at, Last(p), both.at)
      copy == Fresh(made)
      done == Unify(Copy(made, x), x, copy, new)
  IN IF ~hasLeft THEN AddFeatureTo(toRight.h, l.at, Last(p), toRight.at)
     ELSE IF ~hasRight THEN AddFeatureTo(toLeft.h, r.at, Last(q), toLeft.at)
     ELSE Delete(Delete(done, copy), new)

-----------------------------------------------------------------------------
(* The new structures of AddChecked.                                        *)

\* A tree node's features taken from what is attached there ("Dn").
AddAttached(h, x, node, y) ==
  LET c == Copy(h, GetFeature(h, y, "Dn"))
  IN AddFeatureTo(c, x, node, Fresh(h))

\* Substitution.
Substitute(h, x, y, node) == AddAttached(Clear(h, x), x, node, y)

\* Adjunction of y at a node of z, by way of a structure that is not freed:
\* it is unreachable from here on, and is left out of the heap.
Adjoin(h, x, z, y, node) ==
  LET child == Fresh(h)
      u == Unify(AddAttached(New(h), child, node, y), x, z, child)
  IN Delete(u, child)

\* Null adjunction: top and bottom of the node are the same.
NullAdjoin(h, x, z, node) ==
  LET child == Fresh(h)
      n == AddFeature(New(h), child, node)
      b == AddFeature(n.h, n.at, "b")
      u == Unify(AddFeatureTo(b.h, n.at, "t", b.at), x, z, child)
  IN Delete(u, child)

-----------------------------------------------------------------------------
(* FeatStruct::Write on a copy, whose nodes are given an arc back to where  *)
(* they were reached from.                                                  *)

Back == "@BACK@"

RECURSIVE BackPath(_, _)
BackPath(h, x) ==
  LET from == GetFeature(h, x, Back)
  IN IF from = NULL THEN <<>>
     ELSE Append(BackPath(h, from), SelectSeq(h[from].arcs, LAMBDA a : a.dest = x)[1].label)

\* Fault: what is reached again is not printed again.
RECURSIVE WriteDFSOnce(_, _, _)
WriteDFSOnce(h, out, x) ==
  LET atoms == IF h[x].labels = <<>> THEN <<>> ELSE <<[path |-> BackPath(h, x), atoms |-> h[x].labels]>>
      arc(r, a) ==
        IF a.label = Back \/ GetFeature(r.h, a.dest, Back) # NULL THEN r
        ELSE WriteDFSOnce(AddArc(r.h, a.dest, Back, x), r.out, a.dest)
  IN Each(arc, [h |-> h, out |-> out \o atoms], h[x].arcs)

\* [h, out]: the equations printed.
RECURSIVE WriteDFS(_, _, _)
WriteDFS(h, out, x) ==
  LET atoms == IF h[x].labels = <<>> THEN <<>> ELSE <<[path |-> BackPath(h, x), atoms |-> h[x].labels]>>
      arc(r, a) ==
        IF a.label = Back THEN r
        ELSE IF GetFeature(r.h, a.dest, Back) = NULL
          THEN WriteDFS(AddArc(r.h, a.dest, Back, x), r.out, a.dest)
        ELSE [r EXCEPT !.out = Append(@, [path |-> Append(BackPath(r.h, x), a.label),
                                          same |-> BackPath(r.h, a.dest)])]
  IN Each(arc, [h |-> h, out |-> out \o atoms], h[x].arcs)

Write(h, x) == WriteDFS(Copy(h, x), <<>>, Fresh(h)).out

-----------------------------------------------------------------------------
Addresses == SetToSeq(Objects)

Init ==
  /\ root  = [o \in Objects |-> CHOOSE a \in 2 .. Cardinality(Objects) + 1 : Addresses[a - 1] = o]
  /\ heap  = [a \in 1 .. Cardinality(Objects) + 1 |-> IF a = EET THEN EmptyHeap[a] ELSE Blank]
  /\ reads = [o \in Objects |-> 0]
  /\ steps = 0
  /\ sem   = [o \in Objects |-> Logic!Nothing]

Means(o, m) == sem' = [sem EXCEPT ![o] = m]

Reading(o) ==
  /\ steps = 0 /\ reads[o] < MaxReads[o]
  /\ reads' = [reads EXCEPT ![o] = @ + 1]
  /\ UNCHANGED <<root, steps>>

ReadAtom(o) ==
  /\ Reading(o)
  /\ \E e \in Atoms :
       /\ Means(o, Logic!WithAtoms(sem[o], e[1], ToSet(e[2])))
       /\ heap' = ReadAtoms(heap, root[o], e[1], e[2])

ReadEquality(o) ==
  /\ Reading(o)
  /\ \E e \in Identities :
       /\ Means(o, Logic!WithIdentity(sem[o], e[1], e[2]))
       /\ heap' = ReadIdentity(heap, root[o], e[1], e[2])

Step == steps < MaxSteps /\ steps' = steps + 1 /\ UNCHANGED <<root, reads>>

\* o.Set(a, b).
SetUnion(o, a, b) ==
  /\ Step /\ Cardinality({o, a, b}) = 3
  /\ Means(o, Logic!Unify(sem[a], sem[b]))
  /\ heap' = Unify(heap, root[o], root[a], root[b])

\* o = a.
SetCopy(o, a) ==
  /\ Step /\ o # a
  /\ Means(o, sem[a])
  /\ heap' = Assign(heap, root[o], root[a])

\* The structures of AddChecked, for an operand with an attachment.
HasDn(a) == GetFeature(heap, root[a], "Dn") # NULL

SetSubstituted(o, a, n) ==
  /\ Step /\ o # a /\ HasDn(a)
  /\ Means(o, Logic!Substituted(sem[a], n))
  /\ heap' = Substitute(heap, root[o], root[a], n)

SetAdjoined(o, l, r, n) ==
  /\ Step /\ Cardinality({o, l, r}) = 3 /\ HasDn(r)
  /\ Means(o, Logic!Adjoined(sem[l], sem[r], n))
  /\ heap' = Adjoin(heap, root[o], root[l], root[r], n)

SetNotAdjoined(o, a, n) ==
  /\ Step /\ o # a
  /\ Means(o, Logic!NotAdjoined(sem[a], n))
  /\ heap' = NullAdjoin(heap, root[o], root[a], n)

Next ==
  \/ \E o \in Objects : ReadAtom(o) \/ ReadEquality(o)
  \/ \E o \in Results, a \in Objects : SetCopy(o, a)
  \/ \E o \in Results, a, b \in Objects : SetUnion(o, a, b)
  \/ \E o \in Results, a \in Objects, n \in TreeNodes :
       SetSubstituted(o, a, n) \/ SetNotAdjoined(o, a, n)
  \/ \E o \in Results, a, b \in Objects, n \in TreeNodes : SetAdjoined(o, a, b, n)

Spec == Init /\ [][Next]_vars

-----------------------------------------------------------------------------
\* The paths from a node, with the node each leads to.
RECURSIVE PathsFrom(_, _, _)
PathsFrom(h, x, path) ==
  {<<path, x>>} \cup UNION {PathsFrom(h, a.dest, Append(path, a.label)) : a \in ToSet(h[x].arcs)}

\* What the graph at a node means; a node with the label EET is the failure.
Meaning(h, x) ==
  IF Error \in ToSet(h[x].labels)
  THEN [p \in {<<>>} |-> [labels |-> {Error}, same |-> {<<>>}]]
  ELSE LET paths == PathsFrom(h, x, <<>>)
           nodeAt == [p \in {v[1] : v \in paths} |-> (CHOOSE v \in paths : v[1] = p)[2]]
       IN [p \in DOMAIN nodeAt |->
             [labels |-> ToSet(h[nodeAt[p]].labels),
              same   |-> {q \in DOMAIN nodeAt : nodeAt[q] = nodeAt[p]}]]

\* Unification by marks in place does what the logic of features says, to the
\* structure it is for and to no other.
Agrees == \A o \in DOMAIN root : Meaning(heap, root[o]) = sem[o]

\* Between operations all marks are null, no node belongs to two structures
\* and none is dangling or lost.
Tidy ==
  LET owned == [o \in DOMAIN root |-> Reach(heap, {root[o]})]
  IN /\ \A a \in DOMAIN heap : ~Marked(heap, a)
     /\ \A o, p \in DOMAIN root : o # p => owned[o] \cap owned[p] = {}
     /\ UNION {owned[o] : o \in DOMAIN root} = DOMAIN heap \ {EET}

\* operator<= compares as the logic does, reentrancy included, and leaves no
\* marks behind.
Compares ==
  \A o, p \in DOMAIN root :
    LET l == Leq(heap, root[o], root[p])
    IN /\ l.h = heap
       /\ l.ok = Logic!Subsumes(sem[o], sem[p])

\* What is printed of a structure has all of its atoms and identities: read
\* again, it gives the structure but for paths on which nothing is said.
Printed(o) ==
  LET read(h, e) == IF "atoms" \in DOMAIN e THEN ReadAtoms(h, 2, e.path, e.atoms)
                    ELSE ReadIdentity(h, 2, e.path, e.same)
  IN Each(read, [a \in {1, 2} |-> IF a = EET THEN EmptyHeap[a] ELSE Blank],
              Write(heap, root[o]))

PrintedInFull ==
  \A o \in DOMAIN root :
    LET said == Meaning(heap, root[o])
        back == Meaning(Printed(o), 2)
    IN /\ DOMAIN back \subseteq DOMAIN said
       /\ \A p \in DOMAIN said :
            IF p \in DOMAIN back
            THEN back[p] = [said[p] EXCEPT !.same = @ \cap DOMAIN back]
            ELSE /\ said[p].labels = {}
                 /\ \A q \in said[p].same :
                      Last(q) = Last(p) /\ Front(q) \in said[Front(p)].same
=============================================================================
