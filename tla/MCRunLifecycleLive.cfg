CONSTANTS
  Runs <- TwoRuns
  Callers = {c1}
  PageSize = 1
  MaxExecutions = 1
  MaxFaults = 1
SPECIFICATION FairSpec
PROPERTY EventuallyFinalized
