SPECIFICATION Spec
CONSTANTS
  src = src
  test = test
  edit = edit
  commit = commit
  Files = {src}
  Contents = {old, new}
  Actions = {edit, commit}
  EditActions = {edit}
  Target <- MCTarget
  Tests <- MCTests
  Risk <- MCProceed
  Ids = {d1, d2}
  Procs = {p1}
  ReadModes = {"full", "metadata"}
  None = None
  MaxEdits = 1
  MaxAgings = 1
  MaxFaults = 1
  MaxTears = 1
  MaxSupersedes = 0
SYMMETRY MCSymmetry
INVARIANTS
  VerdictRestsOnObservation
  AuditNamesKnownDeferrals
PROPERTIES
  NoRetryAfterReturn
  ContractSpec
CHECK_DEADLOCK FALSE
