SPECIFICATION MCSpec
CONSTANTS
  x = x
  y = y
  z = z
  Objects = {x, y, z}
  Atoms <- MCAtoms
  Identities <- MCIds
  TreeNodes = {"A"}
  Results = {z}
  MaxReads <- MCReads
  MaxSteps = 2
  Inputs <- Forests
  GramFeats <- MCGramFeats
INVARIANTS
  Agrees
  Tidy
  Compares
  PrintedInFull
  ExactlyTheUnifying
  AgreeInNumber
CHECK_DEADLOCK FALSE
