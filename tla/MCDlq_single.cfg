SPECIFICATION FairSpec
CONSTANTS
  c1 = c1
  c2 = c2
  p1 = p1
  p2 = p2
  NoOwner = NoOwner
  Consumers <- OneConsumer
  Payments <- TwoPayments
  Undecodable <- SecondPayment
  Count = 2
  MaxAttempts = 2
  MaxMessages = 3
  MaxCrashes = 1
  MaxStops = 1
  MaxLateFailures = 1
PROPERTIES ProcessedNeverCharged RetriedUntilLanded
