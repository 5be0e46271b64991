SPECIFICATION Spec
CONSTANTS
  Worlds <- MCWorlds
  Ids = {"old", "new", "usdc", "usdt", "usd"}
  Trees <- MCTrees
  LiveTrees = {"indexes"}
  FirstDay = 2
  LastDay = 4
  MaxRuns = 3
INVARIANTS
  NothingDestroyed
  LeavesOnlySkippedOrLate
  TwinNeverMixed
CHECK_DEADLOCK FALSE
