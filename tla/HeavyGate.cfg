SPECIFICATION GateFairSpec
CONSTANTS
  Threads = {t1, t2, t3, t4}
  Cap = 2
  MaxSteps = 2
INVARIANTS
  NoLostWakeup
PROPERTY EveryStepRuns
