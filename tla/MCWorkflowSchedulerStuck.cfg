CONSTANTS
  Nodes <- MCNodes
  Graphs <- AllDefinitions
  PreserveCancellation = FALSE
  NoNode = 0
SPECIFICATION Spec
INVARIANT DeadlockOnlyWhileWaiting
CHECK_DEADLOCK FALSE
