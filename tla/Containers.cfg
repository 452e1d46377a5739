SPECIFICATION MCSpec
CONSTANTS
  e1 = e1
  e2 = e2
  e3 = e3
  null = null
  C = 3
  R = 1
  Size = 1
  Incr = 2
  Values = {v1, v2}
  IaBlocsize = 2
  IaValues = {v1, v2}
  MaxIndex = 4
  Elements = {e1, e2, e3}
  Rank <- MCRank
  Capacity = 7
  Names = {1, 2, 3, 4}
  nhash <- MCnhash
  HashValues = {v1, v2}
  Sizes = {1, 3, 4}
  MaxEntries = 3
  iMax = 3
  Lists = {l, m}
  Listables = {v1, v2}
  MaxListed = 5
INVARIANTS
  SparInv
  HeapInv
  TablesFind
  ListsKeep
PROPERTIES
  Implements
  ArrayImplements
  HeapImplements
CHECK_DEADLOCK FALSE
