CONSTANTS
  Invocations = {op, comp}
  Outbound = {op}
  Attempts = 2
  MaxFaults = 1
SPECIFICATION FairSpec
INVARIANTS
  TypeOK
  DeclinedNeverRuns
  ConfirmedMeansRan
  ToldWhatIsRecorded
PROPERTY ResultIsFinal FinalizationEnds
CHECK_DEADLOCK FALSE
