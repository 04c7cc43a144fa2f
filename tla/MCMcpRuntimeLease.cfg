CONSTANTS
  Processes = {p1}
  Holders = {h1}
  Ops = {o1}
  NoProcess = NoProcess
  NoHolder = NoHolder
  MaxGenerations = 2
  Called <- FirstGeneration
  MaxFaults = 1
SPECIFICATION FairSpec
INVARIANTS
  TypeOK
  ReapsOnlyLost
PROPERTIES
  DisposedLast
  LossIsAmbiguous
  LostMeansGone
CHECK_DEADLOCK FALSE
