CONSTANTS
  Archived = {"t1", "t2", "t3"}
  Unsupported = {"t3"}
  Brief = {}
  Unresolved = {"u1"}
  MinRows = 2
  MaxFailing = 1
  MaxDetours = 2
  MaxCrashes = 1
SPECIFICATION Spec
INVARIANTS
  UpToDateFilesAgree
  NothingUnreadIsReady
CHECK_DEADLOCK FALSE
