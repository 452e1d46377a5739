SPECIFICATION Spec
CONSTANTS
  Conns = {1}
  Options <- Pipelines
  Stamps = {1}
  Loads <- QuietLoads
  Unwritable = FALSE
PROPERTIES
  AlwaysReplies
CHECK_DEADLOCK FALSE
