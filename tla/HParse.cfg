SPECIFICATION Spec
CONSTANT Hands <- CoreHands
INVARIANTS
  TypeOK
  ChartIndexesStates
  AgendaComplete
  GoalsAreSpines
  NothingSubsumed
  BackpointersJustify
  AskersAdjoin
  NoAbort
  ChartClosed
  Recognises
  FindsAllParses
PROPERTIES
  Implements
  Terminates
CHECK_DEADLOCK FALSE
