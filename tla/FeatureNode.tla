----------------------------- MODULE FeatureNode -----------------------------
(***************************************************************************)
(* The graphs of the feature checker                                       *)
(* (src/src/featchecker/nl-featurenode.cpp, nl-list.h).                    *)
(*                                                                         *)
(* A heap h maps the address of every FeatureNode allocated to             *)
(*                                                                         *)
(*   labels   the list of its atoms, read as a disjunction                 *)
(*   arcs     the list of its features, [label, dest]                      *)
(*   mark     pfnMark: a pointer that each algorithm uses in its own way   *)
(*            and has to leave null                                        *)
(*                                                                         *)
(* The class template List is a sequence: a list is appended to (Add),     *)
(* walked (foreach), compared and copied.  An algorithm is an operator     *)
(* from a heap to a heap; [h, ok] is a heap and the boolean returned.      *)
(***************************************************************************)
EXTENDS Naturals, FiniteSets, Sequences, SequencesExt

\* A foreach loop: op is applied to what the loop has so far and an element.
Each(op(_, _), base, list) ==
  LET so[k \in 0 .. Len(list)] == IF k = 0 THEN base ELSE op(so[k - 1], list[k])
  IN so[Len(list)]

NULL  == 0
EET   == 1                    \* the constant FeatureNode::EET
Error == "EET"                \* and its label, which no atom equals

Arc(label, dest) == [label |-> label, dest |-> dest]
Blank == [labels |-> <<>>, arcs |-> <<>>, mark |-> NULL]

\* The heap before anything is read.
EmptyHeap == [a \in {EET} |-> [Blank EXCEPT !.labels = <<Error>>]]

\* An address not in use.
Fresh(h) == CHOOSE a \in 1 .. Cardinality(DOMAIN h) + 1 : a \notin DOMAIN h

\* new FeatureNode.
New(h) == [a \in DOMAIN h \cup {Fresh(h)} |-> IF a \in DOMAIN h THEN h[a] ELSE Blank]

Marked(h, x) == h[x].mark # NULL
Mark(h, x, y) == [h EXCEPT ![x].mark = y]

IsWildcard(n) == n.labels = <<>> /\ n.arcs = <<>>

\* The destination of the arc labelled f, null when there is none.
GetFeature(h, x, f) ==
  LET found == SelectSeq(h[x].arcs, LAMBDA a : a.label = f)
  IN IF found = <<>> THEN NULL ELSE found[1].dest

\* Every node that can be reached from x.
RECURSIVE Reach(_, _)
Reach(h, X) ==
  LET next == X \cup UNION {{a.dest : a \in ToSet(h[x].arcs)} : x \in X}
  IN IF next = X THEN X ELSE Reach(h, next)

-----------------------------------------------------------------------------
(* Marking, copying, erasing.                                              *)

RECURSIVE MarkDFS(_, _)
MarkDFS(h, x) ==
  Each(LAMBDA g, a : IF Marked(g, a.dest) THEN g ELSE MarkDFS(g, a.dest),
           Mark(h, x, x), h[x].arcs)

\* Fault: the node's own mark only.
UnmarkTop(h, x) == Mark(h, x, NULL)

RECURSIVE UnmarkDFS(_, _)
UnmarkDFS(h, x) ==
  Each(LAMBDA g, a : IF Marked(g, a.dest) THEN UnmarkDFS(g, a.dest) ELSE g,
           Mark(h, x, NULL), h[x].arcs)

AddArc(h, x, f, y) == [h EXCEPT ![x].arcs = Append(@, Arc(f, y))]

\* x becomes a copy of orig; a marked node has a copy already, its mark.
RECURSIVE CopyDFS(_, _, _)
CopyDFS(h, x, orig) ==
  LET step(g, a) ==
        IF Marked(g, a.dest) THEN AddArc(g, x, a.label, g[a.dest].mark)
        ELSE CopyDFS(AddArc(New(g), x, a.label, Fresh(g)), Fresh(g), a.dest)
  IN Each(step, [Mark(h, orig, x) EXCEPT ![x].labels = h[orig].labels], h[orig].arcs)

\* The nodes EraseDFS puts on the free list.
RECURSIVE EraseDFS(_, _)
EraseDFS(r, x) ==
  Each(LAMBDA s, a : IF Marked(s.h, a.dest) THEN s ELSE EraseDFS(s, a.dest),
       [h |-> Mark(r.h, x, x), free |-> r.free \cup {x}], r.h[x].arcs)

Erased(h, x) == EraseDFS([h |-> h, free |-> {}], x).free

Without(h, X) == [a \in DOMAIN h \ X |-> h[a]]

\* delete x.
Delete(h, x) == Without(h, Erased(h, x))

\* What operator= and Set do first: the graph goes, and its root stays.
Clear(h, x) == [Without(h, Erased(h, x) \ {x}) EXCEPT ![x] = Blank]

\* operator=, and the copy constructor on a new node.
Assign(h, x, y) == UnmarkDFS(CopyDFS(Clear(h, x), x, y), y)

Copy(h, y) == Assign(New(h), Fresh(h), y)

-----------------------------------------------------------------------------
(* Unification.  The nodes unified with each other are linked by their     *)
(* marks in a loop.                                                        *)

\* The nodes from x along the marks, as far as the one before stop.
RECURSIVE Walk(_, _, _)
Walk(h, x, stop) ==
  IF x = stop THEN <<>> ELSE <<x>> \o Walk(h, h[x].mark, stop)

\* Once around the loop of x, and the same from its first labelled node.
Loop(h, x) == <<x>> \o Walk(h, h[x].mark, x)

FirstLabelled(h, x) ==
  LET loop  == Loop(h, x)
      named == SelectSeq(loop, LAMBDA y : h[y].labels # <<>>)
  IN IF named = <<>> THEN Last(loop) ELSE named[1]

\* The two loops become one.
Twist(h, x, y) == [h EXCEPT ![x].mark = h[y].mark, ![y].mark = h[x].mark]

HasLabel(n, l) == l \in ToSet(n.labels)

\* The atoms of a loop agree on one, and where there are atoms there are no
\* features in the other nodes.
Compatible(h, x) ==
  LET first  == FirstLabelled(h, x)
      others == ToSet(Walk(h, h[first].mark, first))
  IN \/ h[first].labels = <<>>
     \/ \E l \in ToSet(h[first].labels) :
          \A y \in others : /\ HasLabel(h[y], l) \/ h[y].labels = <<>>
                            /\ h[y].arcs = <<>>

\* The pairs of destinations of equally labelled arcs, in the order of the
\* four loops.
ArcPairs(h, p, q) ==
  FlattenSeq([k \in DOMAIN h[p].arcs |->
    LET same == SelectSeq(h[q].arcs, LAMBDA a : a.label = h[p].arcs[k].label)
    IN [m \in DOMAIN same |-> <<h[p].arcs[k].dest, same[m].dest>>]])

\* Fault: of two loops only the nodes given are compared.
RECURSIVE UnifyDFSPair(_, _, _)
UnifyDFSPair(h, x, y) ==
  IF y \in ToSet(Loop(h, x)) THEN [h |-> h, ok |-> TRUE]
  ELSE
    LET t == Twist(h, x, y)
        below(r, pair) == LET u == UnifyDFSPair(r.h, pair[1], pair[2])
                          IN [h |-> u.h, ok |-> r.ok /\ u.ok]
    IN Each(below, [h |-> t, ok |-> Compatible(t, x)], ArcPairs(t, x, y))

\* The walks around the former loop of x, which begins after y now, and inside
\* it around that of y read the marks anew, which unifying below may have
\* changed.
RECURSIVE UnifyDFS(_, _, _)
UnifyDFS(h, x, y) ==
  IF y \in ToSet(Loop(h, x)) THEN [h |-> h, ok |-> TRUE]
  ELSE
    LET t == Twist(h, x, y)
        below(r, pair) == LET u == UnifyDFS(r.h, pair[1], pair[2])
                          IN [h |-> u.h, ok |-> r.ok /\ u.ok]
        RECURSIVE Along(_, _, _)
        Along(r, p, q) ==
          IF p = r.h[x].mark THEN r
          ELSE IF q = r.h[y].mark THEN Along(r, r.h[p].mark, r.h[x].mark)
          ELSE LET s == Each(below, r, ArcPairs(r.h, p, q))
               IN Along(s, p, s.h[q].mark)
    IN Along([h |-> t, ok |-> Compatible(t, x)], t[y].mark, t[x].mark)

-----------------------------------------------------------------------------
(* The copy of a unified graph: every loop is copied once, and becomes a    *)
(* chain of marks that ends at its copy.                                    *)

\* From a node to the end of its chain, or once around its loop.
RECURSIVE ChainEnd(_, _, _)
ChainEnd(h, x, at) ==
  IF h[at].mark \in {NULL, x} THEN at ELSE ChainEnd(h, x, h[at].mark)

RECURSIVE CopyUnionDFS(_, _, _)
CopyUnionDFS(h, x, loop) ==
  LET first  == FirstLabelled(h, loop)
      others == ToSet(Walk(h, h[first].mark, loop))
      shared == SelectSeq(h[first].labels,
                  LAMBDA l : \A y \in others : HasLabel(h[y], l) \/ h[y].labels = <<>>)
      nodes  == Append(Walk(h, h[loop].mark, loop), loop)
      step(g, a) ==
        LET end == ChainEnd(g, a.dest, a.dest)
        IN IF GetFeature(g, x, a.label) # NULL THEN g
           ELSE IF ~Marked(g, end) THEN AddArc(g, x, a.label, end)
           ELSE CopyUnionDFS(AddArc(New(g), x, a.label, Fresh(g)), Fresh(g), a.dest)
  IN Each(step, [Mark(h, loop, x) EXCEPT ![x].labels = shared],
              FlattenSeq([k \in DOMAIN nodes |-> h[nodes[k]].arcs]))

\* Set(fn1, fn2): x becomes what a and b have in common, or EET.
Unify(h, x, a, b) ==
  LET marked == MarkDFS(MarkDFS(Clear(h, x), a), b)
      u      == UnifyDFS(marked, a, b)
      g      == IF u.ok THEN CopyUnionDFS(u.h, x, a) ELSE Assign(u.h, x, EET)
  IN UnmarkDFS(UnmarkDFS(g, a), b)

-----------------------------------------------------------------------------
(* Comparison: x <= y when x tells no more than y.                          *)

RECURSIVE SubsumeDFS(_, _, _)
SubsumeDFS(h, x, y) ==
  LET n == h[x]
      m == h[y]
      g == Mark(h, x, y)
      arc(r, a) ==
        LET counterpart == GetFeature(r.h, y, a.label)
            s == SubsumeDFS(r.h, a.dest, counterpart)
        IN IF counterpart = NULL THEN [r EXCEPT !.ok = FALSE]
           ELSE [h |-> s.h, ok |-> r.ok /\ s.ok]
  IN IF n.mark # NULL THEN [h |-> h, ok |-> n.mark = y]
     ELSE IF IsWildcard(n) THEN [h |-> g, ok |-> TRUE]
     ELSE IF IsWildcard(m) THEN [h |-> g, ok |-> FALSE]
     ELSE IF n.labels # <<>> /\ m.labels # <<>>
       THEN [h |-> g, ok |-> ToSet(m.labels) \subseteq ToSet(n.labels)]
     ELSE IF n.arcs # <<>> /\ m.arcs # <<>>
       THEN Each(arc, [h |-> g, ok |-> TRUE], n.arcs)
     ELSE [h |-> g, ok |-> FALSE]

\* Fault: a node met again is not compared with the node it was met as.
RECURSIVE SubsumeTree(_, _, _)
SubsumeTree(h, x, y) ==
  IF h[x].labels # <<>> \/ h[x].arcs = <<>> \/ h[y].labels # <<>>
  THEN IsWildcard(h[x]) \/ (h[y].labels # <<>> /\ ToSet(h[y].labels) \subseteq ToSet(h[x].labels))
  ELSE \A a \in ToSet(h[x].arcs) :
         GetFeature(h, y, a.label) # NULL /\ SubsumeTree(h, a.dest, GetFeature(h, y, a.label))
LeqTree(h, x, y) == [h |-> h, ok |-> SubsumeTree(h, x, y)]

\* operator<= and operator==.
Leq(h, x, y) == LET s == SubsumeDFS(h, x, y) IN [h |-> UnmarkDFS(s.h, x), ok |-> s.ok]

Eq(h, x, y) ==
  LET l == Leq(h, x, y)
      r == Leq(l.h, y, x)
  IN IF l.ok THEN r ELSE l

-----------------------------------------------------------------------------
(* Building.                                                                *)

AddLabel(h, x, l) ==
  IF HasLabel(h[x], l) THEN h ELSE [h EXCEPT ![x].labels = Append(@, l)]

\* AddFeature: the heap, and the feature's node, which is new if need be.
AddFeature(h, x, f) ==
  LET d == GetFeature(h, x, f)
  IN IF d # NULL THEN [h |-> h, at |-> d]
     ELSE [h |-> AddArc(New(h), x, f, Fresh(h)), at |-> Fresh(h)]

\* AddFeature of a node that exists: not if the feature does.
AddFeatureTo(h, x, f, y) == IF GetFeature(h, x, f) # NULL THEN h ELSE AddArc(h, x, f, y)

\* The calls of AddFeature along a path.
AddPath(h, x, path) == Each(LAMBDA r, f : AddFeature(r.h, r.at, f), [h |-> h, at |-> x], path)
=============================================================================
