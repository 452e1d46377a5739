--------------------------- MODULE HParseComplete ---------------------------
(***************************************************************************)
(* The other half of what the chart parser promises: once it is done, it   *)
(* has missed nothing that TagDeduction derives.  The reference is the     *)
(* least fixed point of the deduction rules.                               *)
(***************************************************************************)
EXTENDS HParseProps

Pairs(A, B) == (A \X B) \cup (B \X A)

\* F closed under the rules; the premises of what is new are in new.
RECURSIVE Close(_, _, _)
Close(h, new, F) ==
  LET all  == F \cup new
      next == (UNION {D!FromOne(h, x) : x \in new}
                 \cup UNION {D!FromTwo(h, v[1], v[2]) : v \in Pairs(new, all)}) \ all
  IN IF next = {} THEN all ELSE Close(h, next, all)

\* Every fact derivable from a grammar.
Closure(h) == Close(h, D!Axioms(h), {})

\* The steps of derivations from the facts F that end in f: <<f, premises>>.
StepsTo(h, f, F) ==
  {<<f, {x}>> : x \in {y \in F : f \in D!FromOne(h, y)}}
    \cup
  {<<f, {v[1], v[2]}>> : v \in {u \in F \X F : f \in D!FromTwo(h, u[1], u[2])}}

RECURSIVE StepsBelow(_, _, _, _)
StepsBelow(h, new, old, F) ==
  IF new = {} THEN {}
  ELSE LET steps == UNION {StepsTo(h, f, F) : f \in new}
           next  == UNION {s[2] : s \in steps} \ (old \cup new)
       IN steps \cup StepsBelow(h, next, old \cup new, F)

Accepted(h, F) == {f \in F : D!Accepting(h, f)}

\* The steps of all the derivations of the sentence.
Derivations(h) ==
  LET F == Closure(h) IN StepsBelow(h, Accepted(h, F), {}, F)

-----------------------------------------------------------------------------
\* The same step on the back pointers of the chart.
Recorded ==
  UNION {{<<Content(states[p]),
            {Content(states[b]) : b \in {states[p].bp[k].b, states[p].bp[k].c} \ {0}}>> :
            k \in DOMAIN states[p].bp} : p \in ItemIds}

ValidStarts == {p \in Ids : ValidStart(states[p])}

\* The analyses of the whole sentence are exactly those that can be derived
\* (hparse_valid_start on the states that span it).
Recognises ==
  stage = "done" =>
    {Content(states[p]) : p \in ValidStarts} = Accepted(hand, Closure(hand))

\* The derivation forest has every step of every derivation.
FindsAllParses == stage = "done" => Derivations(hand) \subseteq Recorded
=============================================================================
