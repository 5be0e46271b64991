SPECIFICATION Spec
CONSTANTS
  Sources <- MCSources
  Times <- MCTimes
  Logs <- MCLogs
  Cycle = 2
  Stale = 3
  Window = 2
  DayMs = 3
  Today = 2
  Seeds <- MCSeeds
  None = None
  MaxRuns = 2
INVARIANTS
  MatchesReference
  ShardsAreOutput
CHECK_DEADLOCK FALSE
