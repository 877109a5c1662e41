SPECIFICATION FairSpec
CONSTANTS
  c1 = c1
  c2 = c2
  k1 = k1
  k2 = k2
  Absent = Absent
  NoTTL = NoTTL
  Callers <- TwoCallers
  Keys <- TwoKeys
  TTL = 2
  Milli = 1
  MaxFires = 2
  MaxInterrupts = 2
INVARIANTS OneClaimPerWindow
PROPERTIES UnboundedNeedsInterruption DictHoldsOneWindow EveryWindowEnds
