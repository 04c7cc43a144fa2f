CONSTANTS
  Runs <- OneRun
  Callers = {c1}
  PageSize = 1
  MaxExecutions = 2
  MaxFaults = 1
SPECIFICATION Spec
INVARIANT AtMostOneExecution
