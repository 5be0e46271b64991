SPECIFICATION Spec
CONSTANTS
  Month <- MCMonth
  Published <- MCPublished
  Parts = 2
  MonthlyAttempts = 2
  DailyAttempts = 1
  LastDay = 4
  None = None
INVARIANTS
  CacheWhole
  FaultFreeRunIsComplete
PROPERTY FetchEnds
