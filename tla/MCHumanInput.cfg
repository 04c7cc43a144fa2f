CONSTANTS
  Gates = {g1, g2}
  Timed = {g1}
  Requests <- TwoRequests
  Resolvers = {c1, c2}
  MaxFaults = 1
SPECIFICATION FairSpec
INVARIANTS
  TypeOK
  OneWinner
  AnswerCommitted
  TimedOutIsExpired
PROPERTY AnswerArrives
CHECK_DEADLOCK FALSE
