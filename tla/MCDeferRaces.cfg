SPECIFICATION Spec
CONSTANTS
  src = src
  test = test
  edit = edit
  commit = commit
  Files = {src, test}
  Contents = {old, new}
  Actions = {edit}
  EditActions = {edit}
  Target <- MCTarget
  Tests <- MCTests
  Risk <- MCProceed
  Ids = {d1}
  Procs = {p1, p2}
  ReadModes = {"full"}
  None = None
  MaxEdits = 1
  MaxAgings = 0
  MaxFaults = 0
  MaxTears = 0
  MaxSupersedes = 1
SYMMETRY MCSymmetry
INVARIANTS
  TypeOK
  VerdictRestsOnObservation
PROPERTIES
  ContractSpec
CHECK_DEADLOCK FALSE
