SPECIFICATION Spec
CONSTANTS
  Proposals <- MCCertificates
  Target = "module"
  TestFiles <- MCTestFiles
  Contents <- MCContents
  MaxDrift = 2
INVARIANTS
  TargetReadOnceSuffices
CHECK_DEADLOCK FALSE
