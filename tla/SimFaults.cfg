SPECIFICATION Spec
CONSTANTS
  None = None
  N = 4
  SignerOf <- MCSignerOf
  CrashAfter = 2
  SnapshotInterval = 2
  MaxSteps = 6
  Faulty = {2}
  MaxFaulty = 1
  MayCrash = TRUE
  MayResume = TRUE
  MaxRestarts = 1
CHECK_DEADLOCK FALSE
INVARIANTS
  NoFork
  DiskMirrorsMemory
  CertifiedIsDurable
  OneBlockPerView
  CorrectInLockstep
  CorrectHonoured
PROPERTIES
  DurableLogAppendOnly
  ViewsNeverFall
