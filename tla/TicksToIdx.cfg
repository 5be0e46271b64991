SPECIFICATION Spec
CONSTANTS
  Times <- MCTimes
  Inputs <- MCInputs
  Cycle = 2
  None = None
INVARIANTS
  EachTickOnce
  RemovedIsSynced
  MatchesReference
CHECK_DEADLOCK FALSE
