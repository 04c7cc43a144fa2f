CONSTANTS
  Runs <- OneRun
  Callers = {c1, c2}
  PageSize = 1
  MaxExecutions = 2
  MaxFaults = 2
SPECIFICATION Spec
SYMMETRY Symmetry
INVARIANTS
  TypeOK
  HandlesAgree
  CountedOnce
  Truthful
PROPERTY TerminalIsFinal
