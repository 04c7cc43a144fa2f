CONSTANTS
  Nodes <- MCNodes
  Graphs <- AllDefinitions
  PreserveCancellation = TRUE
  NoNode = 0
SPECIFICATION FairSpec
INVARIANTS TypeOK StartSound ContextNamesItsCause FailuresAccountedFor CancellationNotMasked
PROPERTIES ImplementsJoinContract Terminates
CHECK_DEADLOCK FALSE
