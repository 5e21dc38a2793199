SPECIFICATION FairSpec
CONSTANTS
  src = src
  test = test
  edit = edit
  commit = commit
  Files = {src}
  Contents = {old}
  Actions = {edit, commit}
  EditActions = {edit}
  Target <- MCTarget
  Tests <- MCTests
  Risk <- MCProceed
  Ids = {d1}
  Procs = {p1}
  ReadModes = {"full"}
  None = None
  MaxEdits = 0
  MaxAgings = 0
  MaxFaults = 0
  MaxTears = 0
  MaxSupersedes = 0
PROPERTY LandingDeferralsResolve
CHECK_DEADLOCK FALSE
