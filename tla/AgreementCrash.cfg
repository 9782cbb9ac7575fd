SPECIFICATION Spec
CONSTANTS
  None = None
  N = 4
  SignerOf <- MCSignerOf
  CrashAfter = 2
  SnapshotInterval = 2
  MaxSteps = 9
  Faulty = {1}
  MaxFaulty = 1
  MayCrash = TRUE
  MayResume = FALSE
  MaxRestarts = 0
CHECK_DEADLOCK FALSE
INVARIANTS
  Agreement
