SPECIFICATION Spec
CONSTANTS
  c1 = c1
  c2 = c2
  p1 = p1
  p2 = p2
  NoOwner = NoOwner
  Consumers <- OneConsumer
  Payments <- OnePayment
  Undecodable <- NoPayment
  Count = 2
  MaxAttempts = 2
  MaxMessages = 1
  MaxCrashes = 1
  MaxStops = 0
  MaxLateFailures = 0
INVARIANTS FailuresPreserved
