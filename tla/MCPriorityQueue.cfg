SPECIFICATION FairSpec
CONSTANTS
  strict = strict
  urgent = urgent
  Consumers <- Pool
  ScanOrder <- PoolScan
  Count = 2
  MaxTickets = 3
  MaxFaults = 1
  MaxStops = 1
INVARIANTS SettledOnce StrandedNeedFault InversionBounded
PROPERTIES EveryTicketClaimed
