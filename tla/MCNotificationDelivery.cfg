CONSTANTS
  Dispatches = {d1, d2}
  Operators = {o1, o2}
  Resends = {1}
  MaxTries = 3
  MaxFaults = 2
SPECIFICATION Spec
INVARIANTS TypeOK RepeatNeedsGround SentMeansConfirmed
SYMMETRY Symmetry
CHECK_DEADLOCK FALSE
