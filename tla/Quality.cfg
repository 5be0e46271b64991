CONSTANTS
  Bar = 2
  DayLen = 6
  NaN <- MCNaN
  None = None
  JumpDen = 5
  ReseedAfter = 2
  Bootstrap = 2
  WarnGap = 3
  MinPx = 2
  Epoch = 0
  FutureSlack = 0
  MaxAccepted = 64
  IdxMaxGap = 2
  JumpIn = 10
  CiIn = 20
  StuckRun = 3
  StuckSample = 6
  StuckShare = 2
  ConfFloor = 1
  ActiveFloor = 2
  BrickIn = 200
  DensitySlack = 3
  VolMax = 5
  MaxGap = 3
  QuietTol = 5
  ZeroRun = 2
  Rollups = {4, 6}
  CalmBelow = 2
  Target = 5
  KLo = 2
  KHi = 30
  CurrentDay = 2
  Since = 0
  LiveRow <- MCLive
  Worlds <- MCWorlds
SPECIFICATION QualitySpec
INVARIANTS
  BarsAreTheGrid
  BarsPassTheChecks
  ChecksLookBack
  SilenceFails
  PassedIsSeamless
PROPERTIES
  PromotionLosesOnlyUnseen
