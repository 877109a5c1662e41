SPECIFICATION EsFairSpec
CONSTANTS
  w1 = w1
  w2 = w2
  NoEvent = NoEvent
  Writers <- TwoWriters
  Amounts = {1}
  PageSize = 2
  MaxEvents = 4
  MaxFailures = 1
INVARIANTS InvalidEntryNeedsDivergence SummaryIsReplay
PROPERTIES ProjectorCatchesUp
CHECK_DEADLOCK FALSE
