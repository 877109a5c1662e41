SPECIFICATION FairSpec
CONSTANTS
  deleter = deleter
  keeper = keeper
  Consumers <- Both
  Deleting <- TheDeleter
  MaxPayloads = 4
  MaxFaults = 2
  MaxCrashes = 1
  MaxStops = 2
INVARIANTS ClaimsHonoured OrphansNeedFault
PROPERTIES StopObserved
