SPECIFICATION FairSpec
CONSTANTS
  src = src
  test = test
  edit = edit
  commit = commit
  Files = {src, test}
  Contents = {old, new}
  Actions = {edit}
  EditActions = {edit}
  Target <- MCTarget
  Tests <- MCTests
  Risk <- MCEscalate
  Ids = {d1}
  Procs = {p1}
  ReadModes = {"full"}
  None = None
  MaxEdits = 1
  MaxAgings = 0
  MaxFaults = 1
  MaxTears = 0
  MaxSupersedes = 0
PROPERTY FileDeferralsResolve
CHECK_DEADLOCK FALSE
