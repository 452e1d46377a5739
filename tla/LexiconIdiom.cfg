SPECIFICATION MCSpec
CONSTANTS
  NL = "NL"
  MaxSentlen = 6
  Lexicons = {}
  Cases <- SoonCases
INVARIANT ReadingsKept
CHECK_DEADLOCK FALSE
