------------------------------ MODULE CircList ------------------------------
(***************************************************************************)
(* The class template List of the feature checker                          *)
(* (src/src/featchecker/nl-list.h): a circle of objects, with a pointer to *)
(* the last one.  The lists of labels, arcs and productions are such lists.*)
(***************************************************************************)
EXTENDS Integers, Sequences, FiniteSets, Null

CONSTANTS
  Lists,           \* the lists of the program
  Listables,       \* what is put into them
  MaxListed        \* bound: the objects in all the lists

VARIABLES
  plotLast,        \* the last object of each list, null when it is empty
  objects,         \* the objects allocated: [value, plotNext]
  listed           \* history: what each list should hold

listVars == <<plotLast, objects, listed>>

ListInit ==
  /\ plotLast = [l \in Lists |-> null]
  /\ objects = << >>
  /\ listed = [l \in Lists |-> <<>>]

\* Iterate from one object to the next until NULL.
RECURSIVE From(_, _, _)
From(o, p, last) ==
  IF p = last THEN <<o[p].value>> ELSE <<o[p].value>> \o From(o, o[p].plotNext, last)

Content(o, last) == IF last = null THEN <<>> ELSE From(o, o[last].plotNext, last)

NewObject(o) == CHOOSE a \in 1 .. Cardinality(DOMAIN o) + 1 : a \notin DOMAIN o

\* Fault: the new object is not linked to the first.
AddedOpen(o, last, v) ==
  LET a == NewObject(o)
      next(p) == IF p = a THEN IF last = null THEN a ELSE last
                 ELSE IF p = last THEN a ELSE o[p].plotNext
  IN [p \in DOMAIN o \cup {a} |-> [value |-> IF p = a THEN v ELSE o[p].value, plotNext |-> next(p)]]

\* Add() = v: the new object, NewObject, becomes the last one.
Added(o, last, v) ==
  LET a == NewObject(o)
      next(p) == IF p = a THEN IF last = null THEN a ELSE o[last].plotNext
                 ELSE IF p = last THEN a ELSE o[p].plotNext
  IN [p \in DOMAIN o \cup {a} |-> [value |-> IF p = a THEN v ELSE o[p].value, plotNext |-> next(p)]]

Add(l, v) ==
  /\ Cardinality(DOMAIN objects) < MaxListed
  /\ objects' = Added(objects, plotLast[l], v)
  /\ plotLast' = [plotLast EXCEPT ![l] = NewObject(objects)]
  /\ listed' = [listed EXCEPT ![l] = Append(@, v)]

\* ~List: the objects from the last one around the circle.
RECURSIVE Circle(_, _, _)
Circle(o, p, last) == {p} \cup (IF o[p].plotNext = last THEN {} ELSE Circle(o, o[p].plotNext, last))

Freed(o, last) ==
  LET gone == IF last = null THEN {} ELSE Circle(o, last, last)
  IN [p \in DOMAIN o \ gone |-> o[p]]

RECURSIVE AddAll(_, _, _)
AddAll(o, last, vs) ==
  IF vs = <<>> THEN [objects |-> o, last |-> last]
  ELSE AddAll(Added(o, last, Head(vs)), NewObject(o), Tail(vs))

\* operator=: the list is emptied, and the other's objects are added to it.
\* A list that is assigned to itself is empty by the time it is read.
AssignList(l, m) ==
  LET left == Freed(objects, plotLast[l])
      copy == AddAll(left, null, IF m = l THEN <<>> ELSE Content(left, plotLast[m]))
  IN /\ Cardinality(DOMAIN copy.objects) <= MaxListed
     /\ objects' = copy.objects
     /\ plotLast' = [plotLast EXCEPT ![l] = copy.last]
     /\ listed' = [listed EXCEPT ![l] = IF m = l THEN <<>> ELSE listed[m]]

ListNext ==
  \/ \E l \in Lists, v \in Listables : Add(l, v)
  \/ \E l, m \in Lists : AssignList(l, m)

-----------------------------------------------------------------------------
\* A walk over a list gives what was added to it in order, a copy is a list of
\* its own that later additions to the original leave alone, and no object is
\* lost or in two lists.
ListsKeep ==
  /\ \A l \in Lists : Content(objects, plotLast[l]) = listed[l]
  /\ LET nodes(l) == IF plotLast[l] = null THEN {} ELSE Circle(objects, plotLast[l], plotLast[l])
     IN /\ UNION {nodes(l) : l \in Lists} = DOMAIN objects
        /\ \A l, m \in Lists : l # m => nodes(l) \cap nodes(m) = {}
=============================================================================
