SPECIFICATION MCSpec
INVARIANTS
  BinaryTrees
  TablesGiveHand
  AllFreed
CHECK_DEADLOCK FALSE
