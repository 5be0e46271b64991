SPECIFICATION Spec
CONSTANTS
  Slots <- MCSlots
  Days <- MCDays
  DayOf <- MCDayOf
  Bin <- MCBin
  Start = 2
  Seeds <- MCSeeds
  NoDir = NoDir
  MaxHeals = 2
INVARIANTS
  NoDeadBackupWrites
  NothingDestroyed
PROPERTY ClosedDaysKept
CHECK_DEADLOCK FALSE
