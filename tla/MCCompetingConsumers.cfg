SPECIFICATION FairSpec
CONSTANTS
  c1 = c1
  c2 = c2
  NoOwner = NoOwner
  Consumers <- MCConsumers
  Count = 2
  MaxTasks = 3
  MaxCrashes = 1
  MaxOverruns = 1
  MaxRestarts = 1
INVARIANTS TypeOK NoTaskLost OneHandlingPerDelivery
PROPERTIES ImplementsAtLeastOnce EveryTaskCompleted
CHECK_DEADLOCK FALSE
