SPECIFICATION Spec
CONSTANTS
  Ops = {o1, o2, o3, o4}
  MaxTears = 2
  None = None
SYMMETRY OpSymmetry
INVARIANTS
  TypeOK
  BrokenLinkMeansOverlap
  LostRecordsAreTorn
PROPERTIES
  DamageStopsTheLog
CHECK_DEADLOCK FALSE
