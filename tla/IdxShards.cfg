SPECIFICATION Spec
CONSTANTS
  Slots <- MCSlots
  Days <- MCDays
  DayOf <- MCDayOf
  Files = {f1, f2, f3, f4}
  NoFile = NoFile
  MaxEmit = 3
  MaxRuns = 2
SYMMETRY Symmetry
INVARIANTS
  LiveTailReachable
  ReplacedIsOwnOutput
PROPERTIES
  ImplementsDayLog
CHECK_DEADLOCK FALSE
