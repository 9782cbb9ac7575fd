SPECIFICATION Spec
CONSTANTS
  None = None
  N = 8
  SignerOf <- MCSignerOf
  CrashAfter = 5
  SnapshotInterval = 100
  MaxSteps = 9
  Faulty = {0, 5}
  MaxFaulty = 2
  MayCrash = TRUE
  MayResume = FALSE
  MaxRestarts = 0
CHECK_DEADLOCK FALSE
INVARIANTS
  NoFork
