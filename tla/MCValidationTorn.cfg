SPECIFICATION Spec
CONSTANTS
  test = test
  lint = lint
  Commands = {test}
  Procs = {p1, p2}
  Children <- MCChildren
  Earlier <- MCPassed
  None = None
  MaxRuns = 2
  MaxAgings = 0
  MaxTears = 1
INVARIANTS
  RecordedFailuresBlock
CHECK_DEADLOCK FALSE
