SPECIFICATION SteadySpec
CONSTANTS
  None = None
  N = 4
  SignerOf <- MCSignerOf
  CrashAfter = 2
  SnapshotInterval = 2
  MaxSteps = 11
  Faulty = {1}
  MaxFaulty = 1
  MayCrash = FALSE
  MayResume = FALSE
  MaxRestarts = 0
  Patience = 6
CHECK_DEADLOCK FALSE
INVARIANTS
  ToleratesFaults
