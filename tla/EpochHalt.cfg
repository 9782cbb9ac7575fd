SPECIFICATION PacemakerSpec
CONSTANTS
  None = None
  N = 5
  SignerOf <- MCSignerOf
  CrashAfter = 2
  SnapshotInterval = 2
  MaxSteps = 60
  Faulty = {}
  MaxFaulty = 0
  MayCrash = FALSE
  MayResume = FALSE
  MaxRestarts = 0
  Commands <- MCRemoval
  EnqueueBy = 1
  Drought = 25
CHECK_DEADLOCK FALSE
INVARIANTS
  RunsOnAfterChange
