SPECIFICATION ResampleSpec
CONSTANTS
  Shards <- MCShards
  Targets = {2, 4}
  None = None
INVARIANTS
  CommittedIsLastOfBin
  MissingIsRecoverable
CHECK_DEADLOCK FALSE
