SPECIFICATION Spec
CONSTANTS
  None = None
  Blocks = {1, 2}
  CommandOf <- MCCommandOf
  Keys = {"k"}
  Values = {"v"}
  Views = {1}
  Keep = 1
  Remote = TRUE
  AttachFirst = FALSE
  Tears = TRUE
  MayImport = TRUE
  Donor <- MCDonor
  MaxFaults = 2
  MaxFailures = 1
  MaxSnapshots = 2
CHECK_DEADLOCK FALSE
INVARIANTS
  TypeOK
  QuietIsDurable
  NothingCommittedLost
  RecoveredIsPrefix
  AppInOrder
