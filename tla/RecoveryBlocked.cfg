SPECIFICATION Spec
CONSTANTS
  None = None
  Blocks = {1, 2}
  CommandOf <- MCCommandOf
  Keys = {"k"}
  Values = {"v"}
  Views = {1}
  Keep = 1
  Remote = FALSE
  AttachFirst = TRUE
  Tears = FALSE
  MayImport = FALSE
  Donor <- MCDonor
  MaxFaults = 2
  MaxFailures = 0
  MaxSnapshots = 1
CHECK_DEADLOCK FALSE
INVARIANTS
  AlwaysRecovers
