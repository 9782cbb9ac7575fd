SPECIFICATION PacemakerSpec
CONSTANTS
  None = None
  N = 5
  SignerOf <- MCSignerOf
  CrashAfter = 2
  SnapshotInterval = 2
  MaxSteps = 9
  Faulty = {1}
  MaxFaulty = 1
  MayCrash = TRUE
  MayResume = FALSE
  MaxRestarts = 0
  Commands <- MCRemoval
  EnqueueBy = 1
  Drought = 6
CHECK_DEADLOCK FALSE
INVARIANTS
  PacemakerTypeOK
  CommandOnce
  NoStalls
  StateFollowsLog
PROPERTIES
  CommandsCommitted
