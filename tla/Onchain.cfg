SPECIFICATION Spec
CONSTANTS
  Runs = {r1, r2}
  Worlds <- MCWorlds
  Legs <- MCLegs
  LegOrder <- MCOrder
  Args <- MCArgs
  PageSizes = {3, 9}
  Today = 3
  DayLen = 4
  Lookback = 4
  Twap = 1
  Warmup = 2
  HoldCap = 4
  Heartbeat = 2
  QuoteGap = 4
  MinLegs = 1
  Band = {10, 11, 12, 13}
  MaxTries = 2
SYMMETRY MCSymmetry
INVARIANTS
  RecordsAreWarm
  WarmIsRecorded
  SuccessIsWhole
PROPERTY
  OnlyForceReplaces
CHECK_DEADLOCK FALSE
