SPECIFICATION FairSpec
CONSTANTS
  test = test
  lint = lint
  Commands = {test, lint}
  Procs = {p1, p2}
  Children <- MCChildren
  Earlier <- MCEarlier
  None = None
  MaxRuns = 2
  MaxAgings = 1
  MaxTears = 1
INVARIANTS
  TypeOK
  VerdictReflectsRuns
PROPERTIES
  TimeoutsLeaveNoResult
  ObedientRunsSettle
CHECK_DEADLOCK FALSE
