SPECIFICATION FairSpec
CONSTANTS
  s1 = s1
  s2 = s2
  a1 = a1
  a2 = a2
  Common = Common
  Searches <- TwoSearches
  Airlines <- TwoAirlines
CHECK_DEADLOCK FALSE
INVARIANTS OwnQuotesOnly NoQuoteMissed
PROPERTIES FinishedAbsorbsNothing EverySearchEnds
