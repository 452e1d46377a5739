SPECIFICATION Spec
CONSTANTS
  Conns = {1, 2}
  Options <- Pipelines
  Stamps = {1, 2}
  Loads <- SmallLoads
  Unwritable = TRUE
INVARIANTS
  TypeOK
  Lockstep
  OwnPrefs
PROPERTIES
  OwnReplies
  RepliesCome
  ConnectionsEnd
CHECK_DEADLOCK FALSE
