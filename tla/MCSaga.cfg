SPECIFICATION SagaFairSpec
CONSTANTS
  o1 = o1
  o2 = o2
  o3 = o3
  NoOrder = NoOrder
  Orders <- MCOrders
  Declined <- MCDeclined
  Count = 3
  MaxCrashes = 2
  MaxStops = 1
INVARIANTS OutcomeIsOnStreams
PROPERTIES SagaReachesTerminal
CHECK_DEADLOCK FALSE
