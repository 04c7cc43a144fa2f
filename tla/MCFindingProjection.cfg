CONSTANTS
  Findings <- MCFindings
  PageSize = 1
  MaxVersion = 2
  MaxClock = 2
  MaxIncidents = 2
  MaxBeforeLoss = 0
SPECIFICATION FairSpec
INVARIANTS TypeOK HealthIsTrue
PROPERTY Recovers
CHECK_DEADLOCK FALSE
