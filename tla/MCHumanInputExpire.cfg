CONSTANTS
  Gates = {g1}
  Timed = {g1}
  Requests <- TwoRequests
  Resolvers = {c1}
  MaxFaults = 0
SPECIFICATION Spec
PROPERTY OnlyPendingExpires
CHECK_DEADLOCK FALSE
