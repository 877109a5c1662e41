SPECIFICATION FairSpec
CONSTANTS
  o1 = o1
  o2 = o2
  o3 = o3
  Orders <- MCOrders
  BatchLimit = 2
  MaxCrashes = 2
  MaxBrokerErrors = 1
  MaxStops = 1
INVARIANTS TypeOK NothingLostNoGhost PublishedInCommitOrder DuplicatesNeedFaults
PROPERTIES ImplementsAtLeastOnce EveryOrderRelayed
