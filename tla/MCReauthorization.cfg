SPECIFICATION Spec
CONSTANTS
  Proposals <- MCProposals
  Target = "module"
  TestFiles <- MCTestFiles
  Contents <- MCContents
  MaxDrift = 2
INVARIANTS
  TypeOK
  EvidenceBeforeApproval
  SummaryAgrees
PROPERTIES
  PlanSuffices
  OutcomeForetold
  EvidenceOnlyLifts
CHECK_DEADLOCK FALSE
