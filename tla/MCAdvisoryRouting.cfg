SPECIFICATION Spec
CONSTANTS
  Proposals <- MCProposals
  Target = "module"
  TestFiles <- MCTestFiles
  Contents <- MCContents
  Provided <- MCProvided
  Reports <- MCReports
  MaxReports = 1
  MaxDrift = 1
INVARIANTS
  TypeOK
  AdviceNeverLaxer
  AdviceAgrees
  SecretsAreNotRead
  PlanForetells
  ExceededBudgetStops
PROPERTIES
  ReportsKeepAdvice
CHECK_DEADLOCK FALSE
