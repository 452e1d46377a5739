---------------------------- MODULE MCParserServer ----------------------------
(***************************************************************************)
(* Small loads for checking ParserServer with TLC.                         *)
(***************************************************************************)
EXTENDS ParserServer

Plain == [nbest |-> FALSE, unify |-> FALSE]
Unify == [nbest |-> FALSE, unify |-> TRUE]
NBest == [nbest |-> TRUE, unify |-> FALSE]

Pipelines == {Unify, NBest}

Load(ask, prefs, err) == [ask |-> ask, prefs |-> prefs, err |-> err]

Alone(l) == [c \in Conns |-> IF c = 1 THEN l ELSE Load(0, 0, 0)]

\* One client whose processes are silent, and one whose processes complain.
QuietLoads == {Alone(Load(2, 1, 0))}
NoisyLoads == {Alone(Load(1, 1, 1))}

\* One client with two sentences, one with two preferences, one with error
\* output, and two that share a moment.
SmallLoads ==
  {Alone(Load(2, 1, 0)), Alone(Load(1, 2, 0)), Alone(Load(1, 1, 1)),
   [c \in Conns |-> IF c = 1 THEN Load(1, 1, 0) ELSE Load(0, 1, 0)]}
=============================================================================
