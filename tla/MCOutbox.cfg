SPECIFICATION FairSpec
CONSTANTS
  Events <- TwoEvents
  AggregateOf <- OneAggregate
  Workers = {w1, w2}
  NoWorker = NoWorker
  MaxAttempts = 2
  MaxFaults = 2
  MaxRequeues = 1
INVARIANTS TypeOK DeliveredInOrder
PROPERTIES ImplementsOrderedDelivery OnlyOwnerSettles EventuallySettled
CHECK_DEADLOCK FALSE
