CONSTANTS
  ExactUpper <- MCExactUpper
  ExactLower <- MCExactLower
  HoeffdingSlack <- MCHoeffdingSlack
  WilsonUpper <- MCWilsonUpper
  Epsilon <- MCEpsilon
  StableUnit <- MCStableUnit
  Evidence <- MCEvidence
  MaxTrials = 5
  MaxComparisons = 8
  MaxRows = 3
  ReportFiles = {"paper", "readme"}
  Parts <- MCParts
  Layouts <- MCLayouts
  MaxTurns = 3
  MaxLabels = 2
  MaxStudyRows = 4
  RowScores <- MCRowScores
  MaxTrajectories = 3
  MaxTimedRows = 4
  TimedScores <- MCTimedScores
  Trains <- MCTrains
  Tests <- MCTests
  MaxLines = 2
SPECIFICATION Spec
INVARIANTS
  CleanTargetsAreNextSteps
  SelectionsKeepTheirTarget
  RolesKeepPositives
PROPERTIES
  FeaturesIgnoreTheFuture
  DisclaimersNeverHurt
  WarningsAreCausal
  VetoIsSound
  CorrectionsOnlyTighten
  AcceptedPoliciesAreSound
CHECK_DEADLOCK FALSE
