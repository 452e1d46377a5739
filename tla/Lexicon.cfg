SPECIFICATION MCSpec
CONSTANTS
  NL = "NL"
  MaxSentlen = 6
  Lexicons <- SmallLexicons
  Cases <- AllCases
INVARIANTS
  ReadingsSurvive
  OnePassEnough
  ReadingsOffered
  NothingElse
  NoneSkipped
CHECK_DEADLOCK FALSE
