SPECIFICATION FairSpec
CONSTANTS
  a = a
  b = b
  pyth = pyth
  live = live
  None = None
  Cex <- MCCex
  Pyth = pyth
  Live = live
  Days <- MCDays
  MonthOf <- MCMonthOf
  Today = 4
  From = 1
  To = 3
  MaxWindow = 3
  Archive <- MCArchive
  Seeds <- MCSeeds
  Flags <- MCFlags
  MaxRuns = 2
  MaxFaults = 1
INVARIANTS
  StagingPurged
  OkIsBuilt
PROPERTIES
  FoldedIsBuilt
  TickerEnds
CHECK_DEADLOCK FALSE
