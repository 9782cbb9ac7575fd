SPECIFICATION SteadySpec
CONSTANTS
  None = None
  N = 5
  SignerOf <- MCSignerOf
  CrashAfter = 2
  SnapshotInterval = 2
  MaxSteps = 10
  Faulty = {1, 2}
  MaxFaulty = 1
  MayCrash = FALSE
  MayResume = FALSE
  MaxRestarts = 0
  Patience = 6
CHECK_DEADLOCK FALSE
INVARIANTS
  TypeOK
  RecoversLiveness
  ToleratesFaults
PROPERTIES
  ImplementsLedger
  CorrectLedger
  CorrectRoundCertifies
