CONSTANTS
  Target = 3
  Tol = 10
  KFloor = 1
  KMax = 16
  KSeed = 4
  KCold = 2
  MinPct = 6
  Iters = 8
  Roster = {"a", "q", "u"}
  Configured = {"u"}
  SynthWork <- MCSynthWork
  Legs <- MCLegs
  UsdcLegs <- MCUsdcLegs
  Forced <- MCForced
  Files <- MCFiles
  Volumes <- MCVolumes
  Windows = {3, 4}
  MaxResume = 1
  LastNight = 2
  MaxFaults = 2
  MaxWeights = 1
  None = None
SPECIFICATION CalSpec
INVARIANTS
  CoverageHonest
  PublishedIsBest
PROPERTIES
  PromotedIsThisRun
  WeightsKept
  RunCompletes
