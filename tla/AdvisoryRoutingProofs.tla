------------------------ MODULE AdvisoryRoutingProofs ------------------------
(***************************************************************************)
(* What the uncertainty router promises, whatever signals callers provide, *)
(* whatever a tracker reports, and for all proposals, files and contents.  *)
(*                                                                         *)
(* The argument: an assessment is always that of the present world and     *)
(* budget, the drivers of a profile are those of its findings, and the     *)
(* router's rules look at little more than which lists these drivers are   *)
(* on.  So each mapping's findings are related to the drivers they bring,  *)
(* and each list to the steps its drivers ask for.  Of a file action of a  *)
(* trusted origin the findings can be told one by one, and the advice be   *)
(* compared with what the 22 rules decide (FileVerdict).                   *)
(***************************************************************************)
EXTENDS AdvisoryRouting, DecisionEngineProofs

-----------------------------------------------------------------------------
(* The drivers of a profile *)

LEMMA FindingShows ==
  ASSUME NEW F, NEW f \in F
  PROVE  f.drivers \subseteq DriversOf(F)
  BY DEF DriversOf

\* The drivers each mapping may bring.
LEMMA ContextDrivers ==
  ASSUME NEW s
  PROVE  DriversOf(ContextFindings(s)) \subseteq
           {"target_file_not_observed", "related_tests_not_observed",
            "context_completeness_low", "context_completeness_medium"}
  BY DEF DriversOf, ContextFindings, On, Missing, Finding

LEMMA FreshnessDrivers ==
  ASSUME NEW s
  PROVE  DriversOf(FreshnessFindings(s)) \subseteq
           {"target_file_stale", "target_file_hash_changed",
            "target_file_freshness_unknown", "target_file_missing"}
  BY DEF DriversOf, FreshnessFindings, On, Entry, Missing, Finding

LEMMA ValidationDrivers ==
  ASSUME NEW s
  PROVE  DriversOf(ValidationFindings(s)) \subseteq
           {"validation_failed", "validation_missing", "validation_stale",
            "validation_running", "validation_unknown", "validation_target_unclear"}
  BY DEF DriversOf, ValidationFindings, On, Entry, Missing, Finding

LEMMA CommandDrivers ==
  ASSUME NEW s
  PROVE  DriversOf(CommandFindings(s)) \subseteq
           {"command_risk_critical", "command_risk_high", "command_classification_unknown",
            "pipe_to_shell_detected", "privileged_command_detected",
            "destructive_command_detected", "deployment_command_detected",
            "package_script_unknown", "package_script_classification_missing"}
  BY DEF DriversOf, CommandFindings, On, Entry, Missing, Detected, Finding

LEMMA GitDrivers ==
  ASSUME NEW s
  PROVE  DriversOf(GitFindings(s)) \subseteq
           {"force_push_detected", "hook_bypass_detected", "protected_branch_risk",
            "direct_mainline_risk", "landing_action_detected", "dirty_worktree_detected",
            "git_workflow_risk_critical", "git_workflow_risk_high", "git_state_unknown"}
  BY DEF DriversOf, GitFindings, On, Entry, Missing, Detected, Finding

LEMMA EnvironmentDrivers ==
  ASSUME NEW s
  PROVE  DriversOf(EnvironmentFindings(s)) \subseteq
           {"production_environment_detected", "environment_risk_critical",
            "environment_risk_high", "environment_unknown", "deploy_target_ambiguous",
            "landing_action_detected", "deployment_command_detected",
            "release_surface_detected", "publish_surface_detected",
            "package_publish_detected"}
  BY DEF DriversOf, EnvironmentFindings, On, Entry, Missing, Detected, Finding

LEMMA SensitivityDrivers ==
  ASSUME NEW s
  PROVE  DriversOf(SensitivityFindings(s)) \subseteq
           {"sensitive_path_detected", "sensitive_surface_detected",
            "sensitive_context_missing", "sensitive_surface_context_incomplete",
            "sensitive_change_review_required", "sensitive_validation_missing",
            "secret_path_detected", "secret_pattern_detected",
            "secret_material_detected", "secret_material_possible"}
  BY DEF DriversOf, SensitivityFindings, ReviewFindings, On, Entry, Detected, Finding

LEMMA BoundaryDrivers ==
  ASSUME NEW s
  PROVE  DriversOf(BoundaryFindings(s)) \subseteq
           {"workspace_boundary_violation", "workspace_boundary_unknown"}
  BY DEF DriversOf, BoundaryFindings, Entry, Missing, Detected, Finding

LEMMA RecoveryDrivers ==
  ASSUME NEW s
  PROVE  DriversOf(RecoveryFindings(s)) \subseteq
           {"workspace_recovery_boundary_unknown", "validation_recovery_evidence_missing",
            "irreversible_operation_risk", "recovery_state_unknown",
            "rollback_confidence_unknown", "destructive_operation_recovery_unknown",
            "recovery_checkpoint_missing", "git_tracking_unknown"}
  BY DEF DriversOf, RecoveryFindings, On, Missing, Finding

LEMMA ProvenanceDrivers ==
  ASSUME NEW s
  PROVE  DriversOf(ProvenanceFindings(s)) \subseteq
           {"provenance_untrusted", "provenance_partial", "provenance_unknown",
            "delegated_action_provenance_unknown"}
  BY DEF DriversOf, ProvenanceFindings, Entry, Missing, Finding

\* What only the budget brings.
LEMMA BudgetFindingsDrivers ==
  ASSUME NEW s, NEW b
  PROVE  DriversOf(BudgetFindings(s, b)) \subseteq
           {"autonomy_budget_exceeded", "autonomy_budget_warning",
            "autonomy_budget_unknown", "autonomy_budget_not_tracked",
            "retry_budget_exceeded", "retry_budget_warning", "retry_count_unknown",
            "retry_count_high"}
  BY DEF DriversOf, BudgetFindings, On, Entry, Exhausted, Strained, Untracked, Missing,
         Finding

LEMMA ProgressDrivers ==
  ASSUME NEW b
  PROVE  DriversOf(ProgressFindings(b)) \subseteq
           {"repeated_defer_detected", "repeated_defer_limit_reached",
            "no_net_progress_detected", "no_progress_evidence_missing",
            "action_scope_too_broad", "diff_churn_high", "diff_churn_unknown",
            "context_budget_exceeded", "context_budget_warning", "context_budget_unknown"}
  BY DEF DriversOf, ProgressFindings, On, Entry, Exhausted, Strained, Untracked, Missing,
         Detected, Finding

\* What the signals bring, and what the budget adds.
SignalDrivers(s) ==
  DriversOf(ContextFindings(s)) \cup DriversOf(FreshnessFindings(s))
    \cup DriversOf(ValidationFindings(s)) \cup DriversOf(CommandFindings(s))
    \cup DriversOf(SensitivityFindings(s)) \cup DriversOf(BoundaryFindings(s))
    \cup DriversOf(GitFindings(s)) \cup DriversOf(EnvironmentFindings(s))
    \cup DriversOf(RecoveryFindings(s)) \cup DriversOf(ProvenanceFindings(s))
TrackedDrivers(s, b) ==
  DriversOf(BudgetFindings(s, b)) \cup DriversOf(ProgressFindings(b))

LEMMA ProfileDrivers ==
  ASSUME NEW s, NEW b
  PROVE  DriversOf(Profile(s, b)) = SignalDrivers(s) \cup TrackedDrivers(s, b)
  BY DEF DriversOf, Profile, SignalDrivers, TrackedDrivers

-----------------------------------------------------------------------------
(* The steps drivers ask for *)

LEMMA JoinDomain == \A a, b : DOMAIN (a ++ b) = DOMAIN a \cup DOMAIN b
  BY DEF ++

\* The drivers with a step.
LEMMA StepsDomain ==
  DOMAIN StepsOf = DOMAIN EvidenceSteps \cup DOMAIN CommandSteps \cup DOMAIN SensitivitySteps
    \cup DOMAIN LandingSteps \cup DOMAIN RecoverySteps \cup DOMAIN ProvenanceSteps
    \cup DOMAIN BudgetSteps \cup DOMAIN ProgressSteps
<1> DEFINE a == EvidenceSteps ++ CommandSteps
           b == a ++ SensitivitySteps
           c == b ++ LandingSteps
           d == c ++ RecoverySteps
           e == d ++ ProvenanceSteps
           f == e ++ BudgetSteps
<1>1. StepsOf = f ++ ProgressSteps
  BY DEF StepsOf
<1>2. DOMAIN a = DOMAIN EvidenceSteps \cup DOMAIN CommandSteps
  BY JoinDomain
<1>3. DOMAIN b = DOMAIN a \cup DOMAIN SensitivitySteps
  BY JoinDomain
<1>4. DOMAIN c = DOMAIN b \cup DOMAIN LandingSteps
  BY JoinDomain
<1>5. DOMAIN d = DOMAIN c \cup DOMAIN RecoverySteps
  BY JoinDomain
<1>6. DOMAIN e = DOMAIN d \cup DOMAIN ProvenanceSteps
  BY JoinDomain
<1>7. DOMAIN f = DOMAIN e \cup DOMAIN BudgetSteps
  BY JoinDomain
<1>8. DOMAIN (f ++ ProgressSteps) = DOMAIN f \cup DOMAIN ProgressSteps
  BY JoinDomain
<1> HIDE DEF a, b, c, d, e, f
<1> QED
  BY <1>1, <1>2, <1>3, <1>4, <1>5, <1>6, <1>7, <1>8

\* No driver is unknown to both the plan and the router's lists.
KnownDrivers == DOMAIN StepsOf \cup BlockingDrivers \cup EscalationDrivers \cup DeferDrivers

LEMMA DriversAreKnown ==
  ASSUME NEW s, NEW b
  PROVE  DriversOf(Profile(s, b)) \subseteq KnownDrivers
<1>1. /\ DriversOf(ContextFindings(s)) \subseteq KnownDrivers
      /\ DriversOf(FreshnessFindings(s)) \subseteq KnownDrivers
  BY ContextDrivers, FreshnessDrivers
  DEF KnownDrivers, DeferDrivers, SensitiveMissingDrivers
<1>2. DriversOf(ValidationFindings(s)) \subseteq KnownDrivers
  BY ValidationDrivers
  DEF KnownDrivers, DeferDrivers, SensitiveMissingDrivers, EscalationDrivers
<1>3. DriversOf(CommandFindings(s)) \subseteq KnownDrivers
  BY CommandDrivers DEF KnownDrivers, DeferDrivers, BlockingDrivers, EscalationDrivers
<1>4. DriversOf(GitFindings(s)) \subseteq KnownDrivers
  <2>1. "landing_action_detected" \in DOMAIN StepsOf
    BY StepsDomain DEF LandingSteps
  <2> QED
    BY <2>1, GitDrivers DEF KnownDrivers, DeferDrivers, BlockingDrivers, EscalationDrivers
<1>5. DriversOf(EnvironmentFindings(s)) \subseteq KnownDrivers
  <2>1. "landing_action_detected" \in DOMAIN StepsOf
    BY StepsDomain DEF LandingSteps
  <2> QED
    BY <2>1, EnvironmentDrivers
    DEF KnownDrivers, DeferDrivers, BlockingDrivers, EscalationDrivers
<1>6. DriversOf(SensitivityFindings(s)) \subseteq KnownDrivers
  BY SensitivityDrivers
  DEF KnownDrivers, DeferDrivers, SensitiveMissingDrivers, BlockingDrivers, EscalationDrivers
<1>7. DriversOf(BoundaryFindings(s)) \subseteq KnownDrivers
  BY BoundaryDrivers DEF KnownDrivers, DeferDrivers, BlockingDrivers
<1>8. DriversOf(RecoveryFindings(s)) \subseteq KnownDrivers
  BY RecoveryDrivers
  DEF KnownDrivers, DeferDrivers, RecoveryUnknownDrivers, EscalationDrivers
<1>9. DriversOf(ProvenanceFindings(s)) \subseteq KnownDrivers
  BY ProvenanceDrivers DEF KnownDrivers, DeferDrivers, EscalationDrivers
<1>10. DriversOf(BudgetFindings(s, b)) \subseteq KnownDrivers
  BY BudgetFindingsDrivers DEF KnownDrivers, DeferDrivers, EscalationDrivers
<1>11. DriversOf(ProgressFindings(b)) \subseteq KnownDrivers
  BY ProgressDrivers DEF KnownDrivers, DeferDrivers, EscalationDrivers
<1> QED
  BY <1>1, <1>2, <1>3, <1>4, <1>5, <1>6, <1>7, <1>8, <1>9, <1>10, <1>11, ProfileDrivers
  DEF SignalDrivers, TrackedDrivers

\* Only what a secret forbids has a file, a test or a context read.
IsQuiet(table) ==
  \A d \in DOMAIN table \ SecretUnsafeDrivers : table[d] \cap ReadingSteps = {}

LEMMA QuietJoin ==
  ASSUME NEW a, NEW b, IsQuiet(a), IsQuiet(b)
  PROVE  IsQuiet(a ++ b)
  BY DEF IsQuiet, ++

LEMMA StepsAreQuiet == IsQuiet(StepsOf)
<1>1. IsQuiet(EvidenceSteps)
  BY DEF IsQuiet, EvidenceSteps, SecretUnsafeDrivers, ReadingSteps
<1>2. IsQuiet(CommandSteps)
  BY DEF IsQuiet, CommandSteps, SecretUnsafeDrivers, ReadingSteps, Stop
<1>3. IsQuiet(SensitivitySteps)
  BY DEF IsQuiet, SensitivitySteps, SecretUnsafeDrivers, ReadingSteps, Stop
<1>4. IsQuiet(LandingSteps)
  BY DEF IsQuiet, LandingSteps, SecretUnsafeDrivers, ReadingSteps, Stop
<1>5. IsQuiet(RecoverySteps)
  BY DEF IsQuiet, RecoverySteps, SecretUnsafeDrivers, ReadingSteps, Stop
<1>6. IsQuiet(ProvenanceSteps)
  BY DEF IsQuiet, ProvenanceSteps, SecretUnsafeDrivers, ReadingSteps
<1>7. IsQuiet(BudgetSteps)
  BY DEF IsQuiet, BudgetSteps, SecretUnsafeDrivers, ReadingSteps, Stop
<1>8. IsQuiet(ProgressSteps)
  BY DEF IsQuiet, ProgressSteps, SecretUnsafeDrivers, ReadingSteps, Stop
<1>9. IsQuiet((EvidenceSteps ++ CommandSteps) ++ SensitivitySteps)
  BY <1>1, <1>2, <1>3, QuietJoin
<1>10. IsQuiet((((EvidenceSteps ++ CommandSteps) ++ SensitivitySteps) ++ LandingSteps)
                 ++ RecoverySteps)
  BY <1>4, <1>5, <1>9, QuietJoin
<1> QED
  BY <1>6, <1>7, <1>8, <1>10, QuietJoin DEF StepsOf

\* A plan for drivers among which there is a secret reads nothing.
LEMMA SecretPlanIsQuiet ==
  ASSUME NEW D, D \cap SecretDrivers # {}
  PROVE  Plan(D) \cap ReadingSteps = {}
<1>1. NormalizedDrivers(D) \cap SecretUnsafeDrivers = {}
  BY DEF NormalizedDrivers
<1>2. \A d \in NormalizedDrivers(D) \cap DOMAIN StepsOf : StepsOf[d] \cap ReadingSteps = {}
  BY <1>1, StepsAreQuiet DEF IsQuiet
<1> QED
  BY <1>2 DEF Plan, StepsFor

-----------------------------------------------------------------------------
(* Secrets and exceeded budgets show among the drivers *)

LEMMA SecretShows ==
  ASSUME NEW s, HasSecretSurface(s)
  PROVE  DriversOf(SensitivityFindings(s)) \cap SecretDrivers # {}
<1>1. CASE IsSet(s, "secret_path_match")
  <2> DEFINE f == Detected(85, "critical", {"secret_path_detected"})
  <2>1. f \in On(IsSet(s, "secret_path_match"), {f})
    BY <1>1, Zenon DEF On
  <2>2. f \in SensitivityFindings(s)
    BY <2>1 DEF SensitivityFindings
  <2>3. "secret_path_detected" \in f.drivers
    BY DEF Detected, Finding
  <2> QED
    BY <2>2, <2>3, FindingShows DEF SecretDrivers
<1>2. CASE HasSecretPattern(s)
  <2> DEFINE f == Detected(85, "critical", {"secret_pattern_detected"})
  <2>1. f \in On(HasSecretPattern(s), {f})
    BY <1>2, Zenon DEF On
  <2>2. f \in SensitivityFindings(s)
    BY <2>1 DEF SensitivityFindings
  <2>3. "secret_pattern_detected" \in f.drivers
    BY DEF Detected, Finding
  <2> QED
    BY <2>2, <2>3, FindingShows DEF SecretDrivers
<1>3. CASE SignalOf(s, "secret_touch") \in {"probable", "confirmed"}
  <2>1. "secret_material_detected" \in DriversOf(SensitivityFindings(s))
    BY <1>3 DEF DriversOf, SensitivityFindings, Entry, Detected, Finding
  <2> QED
    BY <2>1 DEF SecretDrivers
<1> QED
  BY <1>1, <1>2, <1>3 DEF HasSecretSurface

\* The drivers of a budget that is used up.
ExceededDrivers ==
  {"autonomy_budget_exceeded", "retry_budget_exceeded", "context_budget_exceeded",
   "repeated_defer_limit_reached", "no_net_progress_detected"}

\* What each of them says of the budget.
LEMMA ExceededMeans ==
  ASSUME NEW s, NEW b
  PROVE  LET T == TrackedDrivers(s, b) IN
         /\ "autonomy_budget_exceeded" \in T
              <=> (IF "autonomyBudgetStatus" \in DOMAIN b THEN b.autonomyBudgetStatus
                   ELSE SignalOf(s, "autonomy_budget_status")) = "exceeded"
         /\ "retry_budget_exceeded" \in T <=> SignalOf(b, "retryBudgetStatus") = "exceeded"
         /\ "context_budget_exceeded" \in T
              <=> SignalOf(b, "contextBudgetStatus") = "exceeded"
         /\ "repeated_defer_limit_reached" \in T <=> IsSet(b, "repeatedDeferLimitReached")
         /\ "no_net_progress_detected" \in T
              <=> IsSet(b, "noNetProgress") \/ SignalOf(b, "progressState") = "no_progress"
<1> DEFINE T == TrackedDrivers(s, b)
           B == DriversOf(BudgetFindings(s, b))
           P == DriversOf(ProgressFindings(b))
<1>1. /\ T \cap {"autonomy_budget_exceeded", "retry_budget_exceeded"} \subseteq B
      /\ T \cap {"context_budget_exceeded", "repeated_defer_limit_reached",
                 "no_net_progress_detected"} \subseteq P
      /\ B \subseteq T /\ P \subseteq T
  BY BudgetFindingsDrivers, ProgressDrivers DEF TrackedDrivers
<1>2. "autonomy_budget_exceeded" \in B
        <=> (IF "autonomyBudgetStatus" \in DOMAIN b THEN b.autonomyBudgetStatus
             ELSE SignalOf(s, "autonomy_budget_status")) = "exceeded"
  BY DEF DriversOf, BudgetFindings, On, Entry, Exhausted, Strained, Untracked, Missing,
         Finding
<1>3. "retry_budget_exceeded" \in B <=> SignalOf(b, "retryBudgetStatus") = "exceeded"
  BY DEF DriversOf, BudgetFindings, On, Entry, Exhausted, Strained, Untracked, Missing,
         Finding
<1>4. "context_budget_exceeded" \in P <=> SignalOf(b, "contextBudgetStatus") = "exceeded"
  BY DEF DriversOf, ProgressFindings, On, Entry, Exhausted, Strained, Untracked, Missing,
         Detected, Finding
<1>5. "repeated_defer_limit_reached" \in P <=> IsSet(b, "repeatedDeferLimitReached")
  <2>1. ASSUME "repeated_defer_limit_reached" \in P
        PROVE  IsSet(b, "repeatedDeferLimitReached")
    BY <2>1 DEF DriversOf, ProgressFindings, On, Entry, Exhausted, Strained, Untracked,
                Missing, Detected, Finding
  <2>2. ASSUME IsSet(b, "repeatedDeferLimitReached")
        PROVE  "repeated_defer_limit_reached" \in P
    <3> DEFINE f == Exhausted({"repeated_defer_limit_reached"})
    <3>1. f \in On(IsSet(b, "repeatedDeferLimitReached"), {f})
      BY <2>2, Zenon DEF On
    <3>2. f \in ProgressFindings(b)
      BY <3>1 DEF ProgressFindings
    <3>3. "repeated_defer_limit_reached" \in f.drivers
      BY DEF Exhausted, Finding
    <3> QED
      BY <3>2, <3>3, FindingShows
  <2> QED
    BY <2>1, <2>2
<1>6. "no_net_progress_detected" \in P
        <=> IsSet(b, "noNetProgress") \/ SignalOf(b, "progressState") = "no_progress"
  <2> DEFINE progress == SignalOf(b, "progressState")
  <2>1. ASSUME "no_net_progress_detected" \in P
        PROVE  IsSet(b, "noNetProgress") \/ progress = "no_progress"
    BY <2>1 DEF DriversOf, ProgressFindings, On, Entry, Exhausted, Strained, Untracked,
                Missing, Detected, Finding
  <2>2. ASSUME IsSet(b, "noNetProgress") \/ progress = "no_progress"
        PROVE  "no_net_progress_detected" \in P
    <3> DEFINE f == Finding(75, "high", "partially_reducible", {"no_net_progress_detected"},
                            TRUE)
    <3>1. f \in (IF IsSet(b, "noNetProgress") \/ progress = "no_progress" THEN {f}
                 ELSE On(progress = "unknown",
                         {Missing(45, "medium", {"no_progress_evidence_missing"})}))
      BY <2>2, Zenon
    <3>2. f \in ProgressFindings(b)
      BY <3>1 DEF ProgressFindings
    <3>3. "no_net_progress_detected" \in f.drivers
      BY DEF Finding
    <3> QED
      BY <3>2, <3>3, FindingShows
  <2> QED
    BY <2>1, <2>2
<1> HIDE DEF T, B, P
<1> QED
  BY <1>1, <1>2, <1>3, <1>4, <1>5, <1>6 DEF T

LEMMA ExceededShows ==
  ASSUME NEW s, NEW b,
         \/ "exceeded" \in {SignalOf(b, "retryBudgetStatus"),
                            SignalOf(b, "contextBudgetStatus"),
                            SignalOf(b, "autonomyBudgetStatus")}
         \/ SignalOf(s, "autonomy_budget_status") = "exceeded"
              /\ "autonomyBudgetStatus" \notin DOMAIN b
         \/ IsSet(b, "repeatedDeferLimitReached") \/ IsSet(b, "noNetProgress")
  PROVE  TrackedDrivers(s, b) \cap ExceededDrivers # {}
  BY ExceededMeans DEF ExceededDrivers, SignalOf

-----------------------------------------------------------------------------
(* What the lists make of the drivers *)

LEMMA RouteTypes == ASSUME NEW F PROVE Route(F) \in Postures
  BY DEF Route, Postures

\* A driver that asks for a human, other than that of a destructive operation, is
\* deferred only for the evidence a sensitive surface lacks.
LEMMA EscalationRoutes ==
  ASSUME NEW F,
         DriversOf(F) \cap (EscalationDrivers \ {"destructive_command_detected"}) # {}
  PROVE  Route(F) \in {"ESCALATE", "BLOCK"} \/ LacksSensitiveEvidence(DriversOf(F))
<1>1. ~LacksRecovery(DriversOf(F))
  BY DEF LacksRecovery
<1>2. NeedsHuman(F)
  BY DEF NeedsHuman
<1> QED
  BY <1>1, <1>2 DEF Route

-----------------------------------------------------------------------------
(* An assessment is that of the present world and budget *)

\* What the inductive step needs: proposal, world and budget have their types, and
\* the last assessment is that of the world and the budget as they are.
StandingInv ==
  /\ proposal \in Proposals /\ provided \in Provided /\ world \in World
  /\ DOMAIN budget \subseteq {r.field : r \in Reports}
  /\ IsFiniteSet(DOMAIN budget) /\ Cardinality(DOMAIN budget) <= MaxReports
  /\ drift \in 0..MaxDrift
  /\ \/ assessed = NotAssessed /\ budget = << >>
     \/ assessed = Assess(world, budget)

LEMMA InitStands == Init => StandingInv
<1> SUFFICES ASSUME Init PROVE StandingInv
  OBVIOUS
<1>1. proposal \in Proposals /\ provided \in Provided /\ world \in World
  BY FreshIsWorld DEF Init
<1>2. DOMAIN budget = {}
  BY DEF Init
<1>3. IsFiniteSet(DOMAIN budget) /\ Cardinality(DOMAIN budget) = 0
  BY <1>2, FS_EmptySet
<1> QED
  BY <1>1, <1>2, <1>3, AdvisoryBounds DEF Init, StandingInv

\* One more report: one more field.
LEMMA ReportGrows ==
  ASSUME NEW r \in Reports, Report(r), StandingInv
  PROVE  /\ DOMAIN budget' \subseteq {q.field : q \in Reports}
         /\ IsFiniteSet(DOMAIN budget')
         /\ Cardinality(DOMAIN budget') <= MaxReports
<1>1. DOMAIN budget' = DOMAIN budget \cup {r.field}
  BY DEF Report, ++
<1>2. IsFiniteSet(DOMAIN budget) /\ r.field \notin DOMAIN budget
  BY DEF Report, StandingInv
<1>3. /\ IsFiniteSet(DOMAIN budget')
      /\ Cardinality(DOMAIN budget') = Cardinality(DOMAIN budget) + 1
  BY <1>1, <1>2, FS_AddElement
<1>4. Cardinality(DOMAIN budget) \in Nat
  BY <1>2, FS_CardinalityType
<1>5. Cardinality(DOMAIN budget) < MaxReports
  BY DEF Report
<1> QED
  BY <1>1, <1>3, <1>4, <1>5, AdvisoryBounds DEF StandingInv

LEMMA StandingStep == StandingInv /\ [Next]_vars => StandingInv'
<1> SUFFICES ASSUME StandingInv, [Next]_vars
             PROVE  StandingInv'
  OBVIOUS
<1>1. CASE FirstDecision
  BY <1>1 DEF FirstDecision, Reassess, StandingInv, Assess
<1>2. ASSUME NEW f \in Files, NEW mode, ReadFile(f, mode)
      PROVE  StandingInv'
  <2>1. world' \in World
    BY <1>2, ReadingKeepsWorld DEF ReadFile, StandingInv
  <2> QED
    BY <1>2, <2>1 DEF ReadFile, Reassess, StandingInv, Assess
<1>3. ASSUME NEW c \in Commands, NEW status \in {"passed", "failed"}, RunCommand(c, status)
      PROVE  StandingInv'
  <2>1. world' \in World
    BY <1>3, ResultKeepsWorld DEF RunCommand, StandingInv, CommandStatuses
  <2> QED
    BY <1>3, <2>1 DEF RunCommand, Reassess, StandingInv, Assess
<1>4. CASE Drift
  <2>1. world' \in World
    BY <1>4, DriftKeepsWorld DEF Drift, StandingInv
  <2>2. drift' \in 0..MaxDrift
    BY <1>4, AdvisoryBounds DEF Drift, StandingInv
  <2> QED
    BY <1>4, <2>1, <2>2 DEF Drift, Reassess, StandingInv, Assess
<1>5. ASSUME NEW r \in Reports, Report(r)
      PROVE  StandingInv'
  BY <1>5, ReportGrows DEF Report, Reassess, StandingInv, Assess
<1>6. CASE UNCHANGED vars
  BY <1>6 DEF vars, StandingInv, Assess
<1> QED
  BY <1>1, <1>2, <1>3, <1>4, <1>5, <1>6 DEF Next

\* The parts of an assessment.
LEMMA AssessParts ==
  LET a == Assess(world, budget)
      s == provided ++ Signals(proposal, world)
  IN /\ a.signals = s
     /\ a.verdict = DecisionOf(DefaultRules, s)
     /\ a.advice = Route(Profile(s, budget))
     /\ a.drivers = DriversOf(Profile(s, budget))
     /\ a.plan = Plan(DriversOf(Profile(s, budget)))
     /\ a.expected = ExpectedAfter(DriversOf(Profile(s, budget)))
  BY DEF Assess

-----------------------------------------------------------------------------
(* One more report *)

\* Of not knowing how to recover there is always something to be done about.
LEMMA RecoveryStepsStand ==
  ASSUME NEW d \in DOMAIN RecoverySteps
  PROVE  d \in DOMAIN StepsOf /\ StepsOf[d] = RecoverySteps[d]
<1> DEFINE a == EvidenceSteps ++ CommandSteps
           b == a ++ SensitivitySteps
           c == b ++ LandingSteps
           e == c ++ RecoverySteps
           f == e ++ ProvenanceSteps
           g == f ++ BudgetSteps
<1>1. StepsOf = g ++ ProgressSteps
  BY DEF StepsOf
<1>2. DOMAIN c = DOMAIN EvidenceSteps \cup DOMAIN CommandSteps
                   \cup DOMAIN SensitivitySteps \cup DOMAIN LandingSteps
  <2>1. DOMAIN a = DOMAIN EvidenceSteps \cup DOMAIN CommandSteps
    BY JoinDomain
  <2>2. DOMAIN b = DOMAIN a \cup DOMAIN SensitivitySteps
    BY JoinDomain
  <2>3. DOMAIN c = DOMAIN b \cup DOMAIN LandingSteps
    BY JoinDomain
  <2> HIDE DEF a, b, c
  <2> QED
    BY <2>1, <2>2, <2>3
<1>3. d \notin DOMAIN c
  <2>1. d \notin DOMAIN EvidenceSteps
    BY DEF RecoverySteps, EvidenceSteps
  <2>2. d \notin DOMAIN CommandSteps
    BY DEF RecoverySteps, CommandSteps
  <2>3. d \notin DOMAIN SensitivitySteps
    BY DEF RecoverySteps, SensitivitySteps
  <2>4. d \notin DOMAIN LandingSteps
    BY DEF RecoverySteps, LandingSteps
  <2> HIDE DEF c
  <2> QED
    BY <1>2, <2>1, <2>2, <2>3, <2>4
<1>4. /\ e = c ++ RecoverySteps /\ f = e ++ ProvenanceSteps
      /\ g = f ++ BudgetSteps /\ StepsOf = g ++ ProgressSteps
  BY <1>1
<1> HIDE DEF a, b, c, e, f, g
<1>5. d \in DOMAIN e /\ e[d] = RecoverySteps[d]
  BY <1>3, <1>4 DEF ++
<1>6. d \in DOMAIN f /\ f[d] = e[d]
  BY <1>4, <1>5 DEF ++
<1>7. d \in DOMAIN g /\ g[d] = f[d]
  BY <1>4, <1>6 DEF ++
<1>8. d \in DOMAIN StepsOf /\ StepsOf[d] = g[d]
  BY <1>4, <1>7 DEF ++
<1> QED
  BY <1>5, <1>6, <1>7, <1>8

LEMMA RecoveryIsOrdinary ==
  ASSUME NEW s, NEW b,
         DriversOf(Profile(s, b)) \cap RecoveryUnknownDrivers # {}
  PROVE  HasOrdinaryStep(Plan(DriversOf(Profile(s, b))))
<1> DEFINE D == DriversOf(Profile(s, b))
           stepped == RecoveryUnknownDrivers \ {"rollback_confidence_unknown"}
<1>1. PICK d \in D : d \in stepped
  <2>1. CASE "rollback_confidence_unknown" \in D
    <3>1. "rollback_confidence_unknown" \in DriversOf(RecoveryFindings(s))
      BY <2>1, ProfileDrivers, ContextDrivers, FreshnessDrivers, ValidationDrivers,
         CommandDrivers, SensitivityDrivers, BoundaryDrivers, GitDrivers,
         EnvironmentDrivers, ProvenanceDrivers, BudgetFindingsDrivers, ProgressDrivers
      DEF SignalDrivers, TrackedDrivers
    <3>2. "recovery_state_unknown" \in DriversOf(RecoveryFindings(s))
      BY <3>1 DEF DriversOf, RecoveryFindings, On, Missing, Finding
    <3>3. "recovery_state_unknown" \in D
      BY <3>2, ProfileDrivers DEF SignalDrivers
    <3> QED
      BY <3>3 DEF RecoveryUnknownDrivers
  <2>2. CASE "rollback_confidence_unknown" \notin D
    BY <2>2
  <2> QED
    BY <2>1, <2>2
<1>2. d \in NormalizedDrivers(D)
  BY <1>1 DEF NormalizedDrivers, RecoveryUnknownDrivers, SecretUnsafeDrivers,
              SensitiveReviewDrivers
<1>3. d \in DOMAIN RecoverySteps
  BY <1>1 DEF RecoveryUnknownDrivers, RecoverySteps
<1>4. RecoverySteps[d] \ Stop # {}
  BY <1>1 DEF RecoveryUnknownDrivers, RecoverySteps, Stop
<1> HIDE DEF D
<1>5. StepsOf[d] \subseteq Plan(D) /\ StepsOf[d] = RecoverySteps[d]
  BY <1>2, <1>3, RecoveryStepsStand DEF Plan, StepsFor
<1> QED
  BY <1>4, <1>5 DEF HasOrdinaryStep, D

\* A tracker's report leaves the drivers that ask for a human in place.
LEMMA ReportKeepsExceeded ==
  ASSUME NEW s, NEW b, NEW r, r.field \notin DOMAIN b,
         ~("autonomy_budget_status" \in DOMAIN s /\ r.field = "autonomyBudgetStatus")
  PROVE  TrackedDrivers(s, b) \cap ExceededDrivers
           \subseteq TrackedDrivers(s, [f \in {r.field} |-> r.value] ++ b)
<1> DEFINE c == [f \in {r.field} |-> r.value] ++ b
<1>1. /\ DOMAIN c = DOMAIN b \cup {r.field}
      /\ \A x \in DOMAIN b : c[x] = b[x]
  BY DEF ++
<1> HIDE DEF c
<1>2. \A x : SignalOf(b, x) # "undefined" => SignalOf(c, x) = SignalOf(b, x)
  BY <1>1 DEF SignalOf
<1>3. \A x : IsSet(b, x) => IsSet(c, x)
  BY <1>1, Zenon DEF IsSet
<1>4. "autonomy_budget_exceeded" \in TrackedDrivers(s, b)
        => "autonomy_budget_exceeded" \in TrackedDrivers(s, c)
  BY <1>1, ExceededMeans DEF SignalOf
<1>5. "retry_budget_exceeded" \in TrackedDrivers(s, b)
        => "retry_budget_exceeded" \in TrackedDrivers(s, c)
  BY <1>2, ExceededMeans
<1>6. "context_budget_exceeded" \in TrackedDrivers(s, b)
        => "context_budget_exceeded" \in TrackedDrivers(s, c)
  BY <1>2, ExceededMeans
<1>7. "repeated_defer_limit_reached" \in TrackedDrivers(s, b)
        => "repeated_defer_limit_reached" \in TrackedDrivers(s, c)
  BY <1>3, ExceededMeans
<1>8. "no_net_progress_detected" \in TrackedDrivers(s, b)
        => "no_net_progress_detected" \in TrackedDrivers(s, c)
  BY <1>2, <1>3, ExceededMeans
<1> QED
  BY <1>4, <1>5, <1>6, <1>7, <1>8 DEF ExceededDrivers, c

\* The budget's drivers are on none of the lists but those that ask for a human and
\* those that defer.
LEMMA BudgetIsNoEvidence ==
  ASSUME NEW s, NEW b
  PROVE  /\ TrackedDrivers(s, b) \cap (BlockingDrivers \cup SensitiveSurfaceDrivers
                \cup SensitiveMissingDrivers \cup RecoveryUnknownDrivers) = {}
         /\ TrackedDrivers(s, b) \cap EscalationDrivers \subseteq ExceededDrivers
<1> DEFINE known == {"autonomy_budget_exceeded", "autonomy_budget_warning",
                     "autonomy_budget_unknown", "autonomy_budget_not_tracked",
                     "retry_budget_exceeded", "retry_budget_warning",
                     "retry_count_unknown", "retry_count_high",
                     "repeated_defer_detected", "repeated_defer_limit_reached",
                     "no_net_progress_detected", "no_progress_evidence_missing",
                     "action_scope_too_broad", "diff_churn_high", "diff_churn_unknown",
                     "context_budget_exceeded", "context_budget_warning",
                     "context_budget_unknown"}
<1>1. TrackedDrivers(s, b) \subseteq known
  BY BudgetFindingsDrivers, ProgressDrivers DEF TrackedDrivers
<1>2. /\ known \cap BlockingDrivers = {}
      /\ known \cap SensitiveSurfaceDrivers = {}
      /\ known \cap SensitiveMissingDrivers = {}
      /\ known \cap RecoveryUnknownDrivers = {}
  BY DEF BlockingDrivers, SensitiveSurfaceDrivers, SensitiveMissingDrivers,
         RecoveryUnknownDrivers
<1>3. known \cap EscalationDrivers \subseteq ExceededDrivers
  BY DEF EscalationDrivers, ExceededDrivers
<1> HIDE DEF known
<1> QED
  BY <1>1, <1>2, <1>3

\* Two profiles that block, lack evidence and know how to recover alike: with as much
\* to ask a human for, the second gets no laxer advice.
LEMMA AdviceStands ==
  ASSUME NEW F, NEW G,
         \A list \in {BlockingDrivers, SensitiveSurfaceDrivers, SensitiveMissingDrivers,
                     RecoveryUnknownDrivers} :
           DriversOf(G) \cap list = DriversOf(F) \cap list,
         DriversOf(F) \cap EscalationDrivers \subseteq DriversOf(G),
         LacksRecovery(DriversOf(F)) => HasOrdinaryStep(Plan(DriversOf(F))),
         \/ Route(F) = "BLOCK"
         \/ /\ Route(F) = "ESCALATE"
            /\ DriversOf(F) \cap EscalationDrivers # {}
            /\ ~(LacksSensitiveEvidence(DriversOf(F))
                   /\ ~HasOrdinaryStep(Plan(DriversOf(F))))
  PROVE  Route(G) = Route(F)
<1> DEFINE D == DriversOf(F)
           E == DriversOf(G)
<1>1. /\ E \cap BlockingDrivers = D \cap BlockingDrivers
      /\ E \cap SensitiveSurfaceDrivers = D \cap SensitiveSurfaceDrivers
      /\ E \cap SensitiveMissingDrivers = D \cap SensitiveMissingDrivers
      /\ E \cap RecoveryUnknownDrivers = D \cap RecoveryUnknownDrivers
  OBVIOUS
<1>2. CASE D \cap BlockingDrivers # {}
  <2>1. Route(F) = "BLOCK" /\ Route(G) = "BLOCK"
    BY <1>1, <1>2 DEF Route
  <2> QED
    BY <2>1
<1>3. CASE D \cap BlockingDrivers = {}
  <2>1. Route(F) # "BLOCK"
    BY <1>3 DEF Route
  <2>2. ~(HasOrdinaryStep(Plan(D)) /\ (LacksSensitiveEvidence(D) \/ LacksRecovery(D)))
    BY <1>3, <2>1 DEF Route
  <2>3. ~LacksSensitiveEvidence(D) /\ ~LacksRecovery(D)
    BY <2>1, <2>2
  <2>4. ~LacksSensitiveEvidence(E) /\ ~LacksRecovery(E)
    BY <1>1, <2>3 DEF LacksSensitiveEvidence, LacksRecovery
  <2>5. NeedsHuman(G)
    BY <2>1 DEF NeedsHuman
  <2>6. Route(G) = "ESCALATE"
    BY <1>1, <1>3, <2>4, <2>5 DEF Route
  <2> QED
    BY <2>1, <2>6
<1> QED
  BY <1>2, <1>3

-----------------------------------------------------------------------------
(* A file action whose origin its caller vouches for *)

\* The signals of a file action whose origin its caller vouches for.
Vouched(p, w) == [delegation_provenance |-> "trusted"] ++ Signals(p, w)

\* What they say.
LEMMA VouchedParts ==
  ASSUME NEW p, NEW w, IsFileAction(p)
  PROVE  LET s == Vouched(p, w) IN
         /\ DOMAIN s \subseteq FileNames
         /\ FileRiskNames \cup ReadNames \subseteq DOMAIN s
         /\ DOMAIN s \cap ContextNames = IF p.type = "delete_file" THEN {} ELSE ContextNames
         /\ SignalOf(s, "delegation_provenance") = "trusted"
         /\ \A x \in FileRiskNames : s[x] = FileRiskSignals(p)[x]
         /\ \A x \in ReadNames : s[x] = ReadBeforeWriteSignals(p, w)[x]
         /\ p.type # "delete_file" =>
              \A x \in ContextNames : s[x] = RelatedContextSignals(p, w)[x]
         /\ "landing_action" \in DOMAIN s => s["landing_action"] = FALSE
<1> DEFINE d == [delegation_provenance |-> "trusted"]
           u == Signals(p, w)
           s == Vouched(p, w)
<1>1. s = d ++ u
  BY DEF Vouched
<1>2. DOMAIN d = {"delegation_provenance"} /\ d["delegation_provenance"] = "trusted"
  OBVIOUS
<1>3. /\ DOMAIN u \subseteq FileNames
      /\ FileRiskNames \cup ReadNames \subseteq DOMAIN u
      /\ DOMAIN u \cap ContextNames = IF p.type = "delete_file" THEN {} ELSE ContextNames
      /\ \A x \in FileRiskNames : u[x] = FileRiskSignals(p)[x]
      /\ \A x \in ReadNames : u[x] = ReadBeforeWriteSignals(p, w)[x]
      /\ p.type # "delete_file" =>
           \A x \in ContextNames : u[x] = RelatedContextSignals(p, w)[x]
  BY FileValues
<1>4. u["landing_action"] = FALSE
  BY FileLands
<1> HIDE DEF s, d, u
<1>5. /\ DOMAIN (d ++ u) = DOMAIN d \cup DOMAIN u
      /\ \A x \in DOMAIN d : (d ++ u)[x] = d[x]
      /\ \A x \in DOMAIN u \ DOMAIN d : (d ++ u)[x] = u[x]
  BY JoinFacts
<1>6. /\ DOMAIN s = {"delegation_provenance"} \cup DOMAIN u
      /\ s["delegation_provenance"] = "trusted"
      /\ \A x \in DOMAIN u \ {"delegation_provenance"} : s[x] = u[x]
  BY <1>1, <1>2, <1>5
<1>7. /\ "delegation_provenance" \in FileNames
      /\ "delegation_provenance" \notin FileRiskNames \cup ReadNames \cup ContextNames
  BY DEF FileNames, FileRiskNames, ReadNames, ContextNames
<1>8. "landing_action" \in DOMAIN s => s["landing_action"] = FALSE
  BY <1>4, <1>6
<1>9. SignalOf(s, "delegation_provenance") = "trusted"
  BY <1>6 DEF SignalOf
<1>10. /\ DOMAIN s \subseteq FileNames
       /\ FileRiskNames \cup ReadNames \subseteq DOMAIN s
       /\ DOMAIN s \cap ContextNames = DOMAIN u \cap ContextNames
  BY <1>3, <1>6, <1>7
<1>11. /\ \A x \in FileRiskNames : s[x] = u[x]
       /\ \A x \in ReadNames : s[x] = u[x]
       /\ \A x \in DOMAIN u \cap ContextNames : s[x] = u[x]
  BY <1>3, <1>6, <1>7
<1> QED
  BY <1>3, <1>8, <1>9, <1>10, <1>11 DEF s

\* What the detectors find of its risks, and of what was read for it.
LEMMA VouchedRisk ==
  ASSUME NEW p, NEW w, IsFileAction(p), ~IsSecretPath(p), p.outside \in BOOLEAN
  PROVE  LET s == Vouched(p, w) IN
         /\ IsSet(s, "destructive_operation") <=> IsDestructive(p)
         /\ IsSet(s, "workspace_boundary_violation") <=> p.outside \in Yes
         /\ p.outside \notin Yes => SignalOf(s, "workspace_boundary_status") = "inside"
         /\ SignalOf(s, "workspace_boundary_status") \in {"inside", "outside"}
         /\ SignalOf(s, "path_sensitivity") = PathSensitivity(p)
         /\ ~IsSet(s, "secret_path_match")
         /\ IsSet(s, "secret_pattern_match") <=> SecretTouch(p) = "probable"
         /\ SignalOf(s, "secret_touch") = SecretTouch(p)
         /\ SecretTouch(p) \in {"probable", "none"}
<1> DEFINE s == Vouched(p, w)
           a == FileRiskSignals(p)
<1>1. FileRiskNames \subseteq DOMAIN s /\ \A x \in FileRiskNames : s[x] = a[x]
  BY VouchedParts
<1>2. a["destructive_operation"] = IsDestructive(p)
  BY DEF FileRiskSignals, When, ++
<1>3. a["workspace_boundary_violation"] = p.outside
  BY DEF FileRiskSignals, When, ++
<1>4. a["workspace_boundary_status"] = IF p.outside THEN "outside" ELSE "inside"
  BY DEF FileRiskSignals, When, ++
<1>5. a["path_sensitivity"] = PathSensitivity(p) /\ a["secret_touch"] = SecretTouch(p)
  BY FileRiskValues
<1>6. a["secret_path_match"] = IsSecretPath(p)
  BY DEF FileRiskSignals, When, ++
<1>7. a["secret_pattern_match"] = (p.secret = "content")
  BY DEF FileRiskSignals, When, ++
<1> HIDE DEF s, a
<1>8. IsSet(s, "destructive_operation") <=> IsDestructive(p)
  <2>1. s["destructive_operation"] = IsDestructive(p)
    BY <1>1, <1>2 DEF FileRiskNames
  <2> QED
    BY <1>1, <2>1 DEF IsSet, FileRiskNames
<1>9. IsSet(s, "workspace_boundary_violation") <=> p.outside \in Yes
  <2>1. s["workspace_boundary_violation"] = p.outside
    BY <1>1, <1>3 DEF FileRiskNames
  <2>2. "workspace_boundary_violation" \in DOMAIN s
    BY <1>1 DEF FileRiskNames
  <2> QED
    BY <2>1, <2>2 DEF IsSet, Yes
<1>10. SignalOf(s, "workspace_boundary_status") = IF p.outside THEN "outside" ELSE "inside"
  <2>1. s["workspace_boundary_status"] = IF p.outside THEN "outside" ELSE "inside"
    BY <1>1, <1>4 DEF FileRiskNames
  <2>2. "workspace_boundary_status" \in DOMAIN s
    BY <1>1 DEF FileRiskNames
  <2> QED
    BY <2>1, <2>2, Zenon DEF SignalOf
<1>11. p.outside \notin Yes => ~p.outside
  BY DEF Yes
<1>12. /\ SignalOf(s, "path_sensitivity") = PathSensitivity(p)
       /\ SignalOf(s, "secret_touch") = SecretTouch(p)
  BY <1>1, <1>5 DEF FileRiskNames, SignalOf
<1>13. ~IsSet(s, "secret_path_match")
  <2>1. s["secret_path_match"] = IsSecretPath(p)
    BY <1>1, <1>6 DEF FileRiskNames
  <2> QED
    BY <2>1 DEF IsSet
<1>14. SecretTouch(p) = "probable" <=> p.secret = "content"
  BY DEF SecretTouch, IsSecretPath
<1>15. IsSet(s, "secret_pattern_match") <=> SecretTouch(p) = "probable"
  <2>1. s["secret_pattern_match"] = (p.secret = "content")
    BY <1>1, <1>7 DEF FileRiskNames
  <2> QED
    BY <1>1, <1>14, <2>1 DEF IsSet, FileRiskNames
<1>16. SecretTouch(p) \in {"probable", "none"}
  BY DEF SecretTouch, IsSecretPath
<1>17. /\ p.outside \notin Yes => SignalOf(s, "workspace_boundary_status") = "inside"
       /\ SignalOf(s, "workspace_boundary_status") \in {"inside", "outside"}
  BY <1>10, <1>11
<1> QED
  BY <1>8, <1>9, <1>12, <1>13, <1>15, <1>16, <1>17 DEF s

LEMMA VouchedEvidence ==
  ASSUME NEW p, NEW w, IsFileAction(p)
  PROVE  LET s == Vouched(p, w)
             st == TargetFreshness(p, w)
         IN /\ IsSet(s, "target_file_read_recently") <=> st = "fresh"
            /\ IsCleared(s, "target_file_read_recently") <=> st # "fresh"
            /\ SignalOf(s, "target_file_freshness") = st
            /\ st \in {"fresh", "stale", "unknown", "missing"}
            /\ IsSet(s, "related_tests_found") /\ IsCleared(s, "related_tests_read")
                 <=> LacksTests(p, w)
            /\ IsBelow(s, "context_completeness_score", 70) <=> LacksTests(p, w)
            /\ ~IsBelow(s, "context_completeness_score", 50)
<1> DEFINE s == Vouched(p, w)
           st == TargetFreshness(p, w)
           b == ReadBeforeWriteSignals(p, w)
           c == RelatedContextSignals(p, w)
           found == ExistingTests(p, w)
<1>1. /\ {"target_file_read_recently", "target_file_freshness"} \subseteq DOMAIN s
      /\ s["target_file_read_recently"] = b["target_file_read_recently"]
      /\ s["target_file_freshness"] = b["target_file_freshness"]
      /\ DOMAIN s \cap ContextNames = IF p.type = "delete_file" THEN {} ELSE ContextNames
      /\ p.type # "delete_file" =>
           /\ s["related_tests_found"] = c["related_tests_found"]
           /\ s["related_tests_read"] = c["related_tests_read"]
           /\ s["context_completeness_score"] = c["context_completeness_score"]
  <2>1. /\ DOMAIN s \subseteq FileNames
        /\ FileRiskNames \cup ReadNames \subseteq DOMAIN s
        /\ DOMAIN s \cap ContextNames = IF p.type = "delete_file" THEN {} ELSE ContextNames
        /\ SignalOf(s, "delegation_provenance") = "trusted"
        /\ \A x \in FileRiskNames : s[x] = FileRiskSignals(p)[x]
        /\ \A x \in ReadNames : s[x] = b[x]
        /\ p.type # "delete_file" => \A x \in ContextNames : s[x] = c[x]
        /\ "landing_action" \in DOMAIN s => s["landing_action"] = FALSE
    BY VouchedParts, ZenonT(30)
  <2>2. /\ {"target_file_read_recently", "target_file_freshness"} \subseteq ReadNames
        /\ {"related_tests_found", "related_tests_read", "context_completeness_score"}
             \subseteq ContextNames
    BY DEF ReadNames, ContextNames
  <2> HIDE DEF s, b, c
  <2> QED
    BY <2>1, <2>2
<1>2. b["target_file_read_recently"] = (st = "fresh")
  <2>1. b["target_file_read_recently"]
          = ((IF IsSecretPath(p) THEN "unknown"
              ELSE Freshness(w.obs[p.target], w.disk[p.target])) = "fresh")
    BY DEF ReadBeforeWriteSignals, When, ++
  <2> QED
    BY <2>1 DEF TargetFreshness
<1>3. b["target_file_freshness"] = st
  BY ReadBeforeWriteFacts DEF TargetFreshness
<1>4. st \in {"fresh", "stale", "unknown", "missing"}
  BY DEF TargetFreshness, Freshness
<1>5. p.type # "delete_file" =>
        c["context_completeness_score"] = IF LacksTests(p, w) THEN 50 ELSE 100
  BY RelatedContextFacts DEF LacksTests
<1>6. p.type # "delete_file" => c["related_tests_found"] = (found # {})
  BY DEF RelatedContextSignals
<1>7. p.type # "delete_file" =>
        c["related_tests_read"] = (\E t \in found : IsFresh(t, w))
  BY DEF RelatedContextSignals
<1> HIDE DEF s, st, b, c
<1>8. /\ IsSet(s, "target_file_read_recently") <=> st = "fresh"
      /\ IsCleared(s, "target_file_read_recently") <=> st # "fresh"
  <2>1. s["target_file_read_recently"] = (st = "fresh")
    BY <1>1, <1>2
  <2>2. "target_file_read_recently" \in DOMAIN s
    BY <1>1
  <2> QED
    BY <2>1, <2>2 DEF IsSet, IsCleared
<1>9. SignalOf(s, "target_file_freshness") = st
  BY <1>1, <1>3 DEF SignalOf
<1>10. CASE p.type = "delete_file"
  <2>1. DOMAIN s \cap ContextNames = {}
    BY <1>1, <1>10
  <2>2. ~IsSet(s, "related_tests_found")
    BY <2>1, Zenon DEF IsSet, ContextNames
  <2>3. /\ ~IsBelow(s, "context_completeness_score", 70)
        /\ ~IsBelow(s, "context_completeness_score", 50)
    BY <2>1 DEF IsBelow, ContextNames
  <2> QED
    BY <1>4, <1>8, <1>9, <1>10, <2>2, <2>3 DEF LacksTests, s, st
<1>11. CASE p.type # "delete_file"
  <2>1. ContextNames \subseteq DOMAIN s
    BY <1>1, <1>11
  <2>2. /\ "context_completeness_score" \in DOMAIN s
        /\ s["context_completeness_score"] = IF LacksTests(p, w) THEN 50 ELSE 100
    BY <1>1, <1>5, <1>11, <2>1 DEF ContextNames
  <2>3. /\ IsBelow(s, "context_completeness_score", 70) <=> LacksTests(p, w)
        /\ ~IsBelow(s, "context_completeness_score", 50)
    BY <2>2 DEF IsBelow
  <2>4. s["related_tests_found"] = (found # {})
    BY <1>1, <1>6, <1>11
  <2>5. s["related_tests_read"] = (\E t \in found : IsFresh(t, w))
    BY <1>1, <1>7, <1>11
  <2>6. IsSet(s, "related_tests_found") <=> found # {}
    BY <2>1, <2>4 DEF IsSet, ContextNames
  <2>7. IsCleared(s, "related_tests_read") <=> ~(\E t \in found : IsFresh(t, w))
    BY <2>1, <2>5 DEF IsCleared, ContextNames
  <2> QED
    BY <1>4, <1>8, <1>9, <1>11, <2>3, <2>6, <2>7 DEF LacksTests, s, st
<1> QED
  BY <1>10, <1>11

\* Of a file action the profile has neither commands nor landing to speak of, and with
\* a trusted origin and no report no budget and no provenance.
LEMMA VouchedQuiet ==
  ASSUME NEW p, NEW w, IsFileAction(p)
  PROVE  LET s == Vouched(p, w) IN
         /\ ValidationFindings(s) = {} /\ GitFindings(s) = {} /\ EnvironmentFindings(s) = {}
         /\ BudgetFindings(s, << >>) = {} /\ ProgressFindings(<< >>) = {}
         /\ ProvenanceFindings(s) = {}
<1> DEFINE s == Vouched(p, w)
<1>1. /\ DOMAIN s \subseteq FileNames
      /\ SignalOf(s, "delegation_provenance") = "trusted"
      /\ "landing_action" \in DOMAIN s => s["landing_action"] = FALSE
  BY VouchedParts
<1> HIDE DEF s
<1>2. DOMAIN s \cap {"validation_required", "validation_status", "requires_validation",
                     "force_push", "hook_bypass", "protected_branch",
                     "direct_mainline_commit", "direct_mainline_push",
                     "is_dirty_worktree", "branch_risk", "landing_action_type",
                     "environment_classification", "autonomy_budget_status"} = {}
  BY <1>1 DEF FileNames, FileRiskNames, SeverityNames, FreshnessNames, ReadNames,
              ContextNames
<1>3. ~IsSet(s, "landing_action")
  BY <1>1 DEF IsSet
<1>4. \A x \in {"requires_validation", "force_push", "hook_bypass", "protected_branch",
                "direct_mainline_commit", "direct_mainline_push", "is_dirty_worktree"} :
        ~IsSet(s, x)
  BY <1>2, Zenon DEF IsSet
<1>5. \A x \in {"validation_status", "branch_risk", "landing_action_type",
                "environment_classification", "autonomy_budget_status"} :
        SignalOf(s, x) = "undefined"
  BY <1>2 DEF SignalOf
<1>6. ValidationFindings(s) = {}
  BY <1>4, <1>5 DEF ValidationFindings, On, Entry
<1>7. GitFindings(s) = {}
  BY <1>3, <1>4, <1>5 DEF GitFindings, On, Entry
<1>8. EnvironmentFindings(s) = {}
  BY <1>3, <1>5 DEF EnvironmentFindings, On, Entry
<1>9. /\ SignalOf(<< >>, "retryBudgetStatus") = "undefined"
      /\ SignalOf(<< >>, "progressState") = "undefined"
      /\ SignalOf(<< >>, "actionScope") = "undefined"
      /\ SignalOf(<< >>, "diffChurn") = "undefined"
      /\ SignalOf(<< >>, "contextBudgetStatus") = "undefined"
  BY DEF SignalOf
<1>10. /\ ~IsSet(<< >>, "relevant") /\ ~IsSet(<< >>, "repeatedDeferLimitReached")
       /\ ~IsSet(<< >>, "noNetProgress")
       /\ DOMAIN << >> = {}
  BY DEF IsSet
<1>11. BudgetFindings(s, << >>) = {}
  BY <1>5, <1>9, <1>10 DEF BudgetFindings, On, Entry
<1>12. ProgressFindings(<< >>) = {}
  BY <1>9, <1>10 DEF ProgressFindings, On, Entry
<1>13. ProvenanceFindings(s) = {}
  BY <1>1 DEF ProvenanceFindings, Entry
<1> QED
  BY <1>6, <1>7, <1>8, <1>11, <1>12, <1>13 DEF s

\* A finding of what can be reduced because it lacks.
IsMissing(f) == \E n, i, d : f = Missing(n, i, d)

\* What lacks shows as such.
LEMMA VouchedContext ==
  ASSUME NEW p, NEW w, IsFileAction(p)
  PROVE  LET F == ContextFindings(Vouched(p, w)) \cup FreshnessFindings(Vouched(p, w))
             stale == TargetFreshness(p, w) # "fresh"
         IN /\ \A f \in F : IsMissing(f)
            /\ stale => "target_file_not_observed" \in DriversOf(F)
            /\ LacksTests(p, w) => "related_tests_not_observed" \in DriversOf(F)
            /\ ~stale /\ ~LacksTests(p, w) => F = {}
<1> DEFINE s == Vouched(p, w)
           st == TargetFreshness(p, w)
           F == ContextFindings(s) \cup FreshnessFindings(s)
<1>1. /\ IsCleared(s, "target_file_read_recently") <=> st # "fresh"
      /\ SignalOf(s, "target_file_freshness") = st
      /\ IsSet(s, "related_tests_found") /\ IsCleared(s, "related_tests_read")
           <=> LacksTests(p, w)
      /\ IsBelow(s, "context_completeness_score", 70) <=> LacksTests(p, w)
      /\ ~IsBelow(s, "context_completeness_score", 50)
  BY VouchedEvidence
<1> HIDE DEF s, st
<1>2. \A f \in ContextFindings(s) : IsMissing(f)
  BY DEF ContextFindings, On, IsMissing
<1>3. \A f \in FreshnessFindings(s) : IsMissing(f)
  BY DEF FreshnessFindings, Entry, IsMissing
<1>4. ASSUME st # "fresh" PROVE "target_file_not_observed" \in DriversOf(F)
  <2> DEFINE f == Missing(65, "medium", {"target_file_not_observed"})
  <2>1. f \in ContextFindings(s)
    BY <1>1, <1>4 DEF ContextFindings, On
  <2> QED
    BY <2>1 DEF DriversOf, Missing, Finding
<1>5. ASSUME LacksTests(p, w) PROVE "related_tests_not_observed" \in DriversOf(F)
  <2> DEFINE f == Missing(55, "medium", {"related_tests_not_observed"})
  <2>1. f \in ContextFindings(s)
    BY <1>1, <1>5 DEF ContextFindings, On
  <2> QED
    BY <2>1 DEF DriversOf, Missing, Finding
<1>6. ASSUME st = "fresh", ~LacksTests(p, w) PROVE F = {}
  <2>1. ContextFindings(s) = {}
    BY <1>1, <1>6 DEF ContextFindings, On
  <2>2. FreshnessFindings(s) = {}
    BY <1>1, <1>6 DEF FreshnessFindings, Entry
  <2> QED
    BY <2>1, <2>2
<1> QED
  BY <1>2, <1>3, <1>4, <1>5, <1>6 DEF s, st

\* What changes destructively shows, and nothing unknown about its recovery does.
LEMMA VouchedDestruction ==
  ASSUME NEW p, NEW w, IsFileAction(p), ~IsSecretPath(p), p.outside \in BOOLEAN
  PROVE  LET F == CommandFindings(Vouched(p, w)) \cup RecoveryFindings(Vouched(p, w)) IN
         /\ ~IsDestructive(p) => F = {}
         /\ IsDestructive(p) => "destructive_command_detected" \in DriversOf(F)
         /\ DriversOf(F) \subseteq {"destructive_command_detected",
                                    "irreversible_operation_risk"}
<1> DEFINE s == Vouched(p, w)
           C == CommandFindings(s)
           R == RecoveryFindings(s)
<1>1. DOMAIN s \subseteq FileNames
  BY VouchedParts
<1>2. /\ IsSet(s, "destructive_operation") <=> IsDestructive(p)
      /\ SignalOf(s, "workspace_boundary_status") \in {"inside", "outside"}
  BY VouchedRisk
<1> HIDE DEF s
<1>3. DOMAIN s \cap {"command_risk_score", "pipe_to_shell", "uses_sudo",
                     "landing_action_type", "deployment_risk", "mutates_cloud",
                     "command_category", "validation_required",
                     "requires_validation"} = {}
  BY <1>1 DEF FileNames, FileRiskNames, SeverityNames, FreshnessNames, ReadNames,
              ContextNames
<1>4. \A x \in {"pipe_to_shell", "uses_sudo", "mutates_cloud", "validation_required",
                "requires_validation"} : ~IsSet(s, x)
  BY <1>3, Zenon DEF IsSet
<1>5. \A x \in {"command_risk_score", "landing_action_type", "command_category"} :
        SignalOf(s, x) = "undefined"
  BY <1>3 DEF SignalOf
<1>6. "deployment_risk" \notin DOMAIN s
  BY <1>3
<1>7. HasBoundaryEvidence(s) /\ HasRecoveryEvidence(s)
  BY <1>2 DEF HasBoundaryEvidence, HasRecoveryEvidence
<1>8. ASSUME ~IsDestructive(p) PROVE C = {} /\ R = {}
  <2>1. C = {}
    BY <1>2, <1>4, <1>5, <1>6, <1>8 DEF CommandFindings, On, Entry
  <2>2. R = {}
    BY <1>2, <1>8 DEF RecoveryFindings, On
  <2> QED
    BY <2>1, <2>2
<1>9. DriversOf(C) \subseteq {"destructive_command_detected"}
  BY <1>4, <1>5, <1>6 DEF DriversOf, CommandFindings, On, Entry, Detected, Finding
<1>10. DriversOf(R) \subseteq {"irreversible_operation_risk"}
  BY <1>4, <1>7 DEF DriversOf, RecoveryFindings, On, Missing, Finding
<1>11. ASSUME IsDestructive(p) PROVE "destructive_command_detected" \in DriversOf(C)
  <2> DEFINE critical == "critical" \in {SignalOf(s, "destructive_severity"),
                                         SignalOf(s, "command_risk_score")}
             f == Detected(IF critical THEN 85 ELSE 65,
                           IF critical THEN "critical" ELSE "high",
                           {"destructive_command_detected"})
  <2>1. f \in C
    BY <1>2, <1>11 DEF CommandFindings, On
  <2>2. f.drivers = {"destructive_command_detected"}
    BY DEF Detected, Finding
  <2> HIDE DEF f, C
  <2> QED
    BY <2>1, <2>2, FindingShows
<1> HIDE DEF C, R
<1>12. DriversOf(C \cup R) = DriversOf(C) \cup DriversOf(R)
  BY DEF DriversOf
<1> QED
  BY <1>8, <1>9, <1>10, <1>11, <1>12 DEF C, R, s

\* To leave the workspace and to touch a secret is to block, and nothing else.
Blocks(p) == p.outside \in Yes \/ SecretTouch(p) = "probable"
LacksEither(p, w) == TargetFreshness(p, w) # "fresh" \/ LacksTests(p, w)

LEMMA VouchedBoundary ==
  ASSUME NEW p, NEW w, IsFileAction(p), ~IsSecretPath(p), p.outside \in BOOLEAN
  PROVE  LET F == SensitivityFindings(Vouched(p, w)) \cup BoundaryFindings(Vouched(p, w))
         IN Blocks(p) => DriversOf(F) \cap BlockingDrivers # {}
<1> DEFINE s == Vouched(p, w)
           S == SensitivityFindings(s)
           B == BoundaryFindings(s)
<1>1. /\ IsSet(s, "workspace_boundary_violation") <=> p.outside \in Yes
      /\ IsSet(s, "secret_pattern_match") <=> SecretTouch(p) = "probable"
  BY VouchedRisk
<1> HIDE DEF s
<1>2. ASSUME p.outside \in Yes PROVE DriversOf(B) \cap BlockingDrivers # {}
  <2> DEFINE f == Detected(90, "critical", {"workspace_boundary_violation"})
  <2>1. f \in B
    BY <1>1, <1>2 DEF BoundaryFindings
  <2>2. "workspace_boundary_violation" \in f.drivers
    BY DEF Detected, Finding
  <2> HIDE DEF f, B
  <2> QED
    BY <2>1, <2>2, FindingShows DEF BlockingDrivers
<1>3. ASSUME SecretTouch(p) = "probable" PROVE DriversOf(S) \cap BlockingDrivers # {}
  <2>1. HasSecretSurface(s)
    BY <1>1, <1>3 DEF HasSecretSurface, HasSecretPattern, SecretFlags
  <2>2. DriversOf(S) \cap SecretDrivers # {}
    BY <2>1, SecretShows
  <2> HIDE DEF S
  <2> QED
    BY <2>2 DEF SecretDrivers, BlockingDrivers
<1> HIDE DEF S, B
<1>4. DriversOf(S \cup B) = DriversOf(S) \cup DriversOf(B)
  BY DEF DriversOf
<1> QED
  BY <1>2, <1>3, <1>4 DEF S, B, s, Blocks

\* Where nothing is to block, only a sensitive path shows: as one that lacks evidence,
\* or as one that is ready for review.
LEMMA VouchedSensitivity ==
  ASSUME NEW p, NEW w, IsFileAction(p), ~IsSecretPath(p), p.outside \in BOOLEAN,
         ~Blocks(p)
  PROVE  LET F == SensitivityFindings(Vouched(p, w)) \cup BoundaryFindings(Vouched(p, w))
             sensitive == PathSensitivity(p) \in High
             surface == {"sensitive_path_detected", "sensitive_surface_detected"}
         IN /\ ~sensitive => F = {}
            /\ sensitive => surface \subseteq DriversOf(F)
            /\ DriversOf(F) \subseteq surface \cup
                 IF LacksEither(p, w)
                 THEN {"sensitive_context_missing", "sensitive_surface_context_incomplete"}
                 ELSE {"sensitive_change_review_required"}
<1> DEFINE s == Vouched(p, w)
           S == SensitivityFindings(s)
           B == BoundaryFindings(s)
           level == PathSensitivity(p)
           surface == {"sensitive_path_detected", "sensitive_surface_detected"}
<1>1. DOMAIN s \subseteq FileNames
  BY VouchedParts
<1>2. /\ ~IsSet(s, "workspace_boundary_violation")
      /\ SignalOf(s, "workspace_boundary_status") = "inside"
      /\ SignalOf(s, "path_sensitivity") = level
      /\ ~IsSet(s, "secret_path_match")
      /\ ~IsSet(s, "secret_pattern_match")
      /\ SignalOf(s, "secret_touch") = "none"
  BY VouchedRisk DEF Blocks
<1>3. /\ IsSet(s, "target_file_read_recently") <=> TargetFreshness(p, w) = "fresh"
      /\ IsCleared(s, "target_file_read_recently") <=> TargetFreshness(p, w) # "fresh"
      /\ SignalOf(s, "target_file_freshness") = TargetFreshness(p, w)
      /\ IsSet(s, "related_tests_found") /\ IsCleared(s, "related_tests_read")
           <=> LacksTests(p, w)
      /\ IsBelow(s, "context_completeness_score", 70) <=> LacksTests(p, w)
  BY VouchedEvidence
<1> HIDE DEF s, level
<1>4. DOMAIN s \cap {"matched_sensitive_path_level", "entropy_anomaly",
                     "command_contains_secret", "diff_contains_secret",
                     "prompt_context_contains_secret", "validation_required",
                     "requires_validation"} = {}
  BY <1>1 DEF FileNames, FileRiskNames, SeverityNames, FreshnessNames, ReadNames,
              ContextNames
<1>5. \A x \in {"entropy_anomaly", "command_contains_secret", "diff_contains_secret",
                "prompt_context_contains_secret", "validation_required",
                "requires_validation"} : ~IsSet(s, x)
  BY <1>4, Zenon DEF IsSet
<1>6. B = {}
  BY <1>2 DEF BoundaryFindings, Entry
<1>7. ~HasSecretPattern(s) /\ ~HasSecretSurface(s) /\ ~HasMissingValidation(s)
  <2>1. ~HasSecretPattern(s)
    BY <1>2, <1>5 DEF HasSecretPattern, SecretFlags
  <2> QED
    BY <1>2, <1>5, <2>1 DEF HasSecretSurface, HasMissingValidation
<1>8. HasReviewableSurface(s) <=> level \in High
  <2>1. SignalOf(s, "matched_sensitive_path_level") = "undefined"
    BY <1>4 DEF SignalOf
  <2> QED
    BY <1>2, <2>1 DEF HasReviewableSurface, High
<1>9. HasMissingContext(s) <=> LacksEither(p, w)
  BY <1>3 DEF HasMissingContext, LacksEither
<1>10. S = Entry([critical |-> Detected(75, "critical", surface),
                  high     |-> Detected(60, "high", surface)], level)
             \cup On(level \in High, ReviewFindings(s))
  BY <1>2, <1>7, <1>8 DEF SensitivityFindings, On, Entry
<1>11. DriversOf(ReviewFindings(s)) \subseteq
         IF LacksEither(p, w)
         THEN {"sensitive_context_missing", "sensitive_surface_context_incomplete"}
         ELSE {"sensitive_change_review_required"}
  BY <1>7, <1>9 DEF DriversOf, ReviewFindings, On, Detected, Finding
<1>12. CASE level \notin High
  <2>1. S = {}
    BY <1>10, <1>12 DEF Entry, On, High
  <2>2. S \cup B = {} /\ DriversOf(S \cup B) = {}
    BY <1>6, <2>1 DEF DriversOf
  <2> QED
    BY <1>12, <2>2 DEF s, level
<1>13. CASE level \in High
  <2> DEFINE f == IF level = "critical" THEN Detected(75, "critical", surface)
                                        ELSE Detected(60, "high", surface)
             R == ReviewFindings(s)
  <2>1. S = {f} \cup R
    BY <1>10, <1>13 DEF Entry, On, High
  <2>2. f.drivers = surface
    BY DEF Detected, Finding
  <2> HIDE DEF f, S, R, surface
  <2>3. DriversOf(S \cup B) = surface \cup DriversOf(R)
    BY <1>6, <2>1, <2>2 DEF DriversOf
  <2> QED
    BY <1>11, <1>13, <2>3 DEF S, R, s, level, surface
<1> QED
  BY <1>12, <1>13

\* What a driver of the first group of the table asks for.
LEMMA EvidenceStepsStand ==
  ASSUME NEW d \in DOMAIN EvidenceSteps
  PROVE  d \in DOMAIN StepsOf /\ StepsOf[d] = EvidenceSteps[d]
<1> DEFINE a == EvidenceSteps ++ CommandSteps
           b == a ++ SensitivitySteps
           c == b ++ LandingSteps
           e == c ++ RecoverySteps
           f == e ++ ProvenanceSteps
           g == f ++ BudgetSteps
<1>1. /\ a = EvidenceSteps ++ CommandSteps /\ b = a ++ SensitivitySteps
      /\ c = b ++ LandingSteps /\ e = c ++ RecoverySteps /\ f = e ++ ProvenanceSteps
      /\ g = f ++ BudgetSteps /\ StepsOf = g ++ ProgressSteps
  BY DEF StepsOf
<1> HIDE DEF a, b, c, e, f, g
<1>2. d \in DOMAIN a /\ a[d] = EvidenceSteps[d]
  BY <1>1 DEF ++
<1>3. d \in DOMAIN b /\ b[d] = a[d]
  BY <1>1, <1>2 DEF ++
<1>4. d \in DOMAIN c /\ c[d] = b[d]
  BY <1>1, <1>3 DEF ++
<1>5. d \in DOMAIN e /\ e[d] = c[d]
  BY <1>1, <1>4 DEF ++
<1>6. d \in DOMAIN f /\ f[d] = e[d]
  BY <1>1, <1>5 DEF ++
<1>7. d \in DOMAIN g /\ g[d] = f[d]
  BY <1>1, <1>6 DEF ++
<1>8. d \in DOMAIN StepsOf /\ StepsOf[d] = g[d]
  BY <1>1, <1>7 DEF ++
<1> QED
  BY <1>2, <1>3, <1>4, <1>5, <1>6, <1>7, <1>8

\* Where no secret is in sight, an unread target or test is to be read.
LEMMA ReadingIsOrdinary ==
  ASSUME NEW D, D \cap BlockingDrivers = {},
         \/ "target_file_not_observed" \in D
         \/ "related_tests_not_observed" \in D
  PROVE  HasOrdinaryStep(Plan(D))
<1>1. D \cap SecretDrivers = {}
  BY DEF SecretDrivers, BlockingDrivers
<1>2. PICK d \in D : d \in {"target_file_not_observed", "related_tests_not_observed"}
  OBVIOUS
<1>3. d \in NormalizedDrivers(D)
  BY <1>1, <1>2 DEF NormalizedDrivers, SensitiveReviewDrivers
<1>4. d \in DOMAIN EvidenceSteps /\ EvidenceSteps[d] \ Stop # {}
  BY <1>2 DEF EvidenceSteps, Stop
<1>5. StepsOf[d] \subseteq Plan(D) /\ StepsOf[d] = EvidenceSteps[d]
  BY <1>3, <1>4, EvidenceStepsStand DEF Plan, StepsFor
<1> QED
  BY <1>4, <1>5 DEF HasOrdinaryStep

\* What the router comes to on a file action of a trusted origin.
LEMMA VouchedAdvice ==
  ASSUME NEW p, NEW w, IsFileAction(p), ~IsSecretPath(p), p.outside \in BOOLEAN
  PROVE  Route(Profile(Vouched(p, w), << >>)) =
           IF Blocks(p) THEN "BLOCK"
           ELSE IF /\ LacksEither(p, w)
                   /\ ~(IsDestructive(p) /\ PathSensitivity(p) \notin High)
                THEN "DEFER"
           ELSE IF IsDestructive(p) \/ PathSensitivity(p) \in High THEN "ESCALATE"
           ELSE "PROCEED"
<1> DEFINE s == Vouched(p, w)
           F == Profile(s, << >>)
           C == ContextFindings(s) \cup FreshnessFindings(s)
           X == CommandFindings(s) \cup RecoveryFindings(s)
           S == SensitivityFindings(s) \cup BoundaryFindings(s)
           D == DriversOf(F)
<1>1. F = C \cup X \cup S
  BY VouchedQuiet DEF Profile
<1>2. /\ \A f \in C : IsMissing(f)
      /\ TargetFreshness(p, w) # "fresh" => "target_file_not_observed" \in DriversOf(C)
      /\ LacksTests(p, w) => "related_tests_not_observed" \in DriversOf(C)
      /\ ~LacksEither(p, w) => C = {}
  BY VouchedContext DEF LacksEither
<1>3. DriversOf(C) \subseteq {"target_file_not_observed", "related_tests_not_observed",
                              "context_completeness_low", "context_completeness_medium",
                              "target_file_stale", "target_file_hash_changed",
                              "target_file_freshness_unknown", "target_file_missing"}
  BY ContextDrivers, FreshnessDrivers DEF DriversOf
<1>4. /\ ~IsDestructive(p) => X = {}
      /\ IsDestructive(p) => "destructive_command_detected" \in DriversOf(X)
      /\ DriversOf(X) \subseteq {"destructive_command_detected",
                                 "irreversible_operation_risk"}
  BY VouchedDestruction
<1>5. Blocks(p) => DriversOf(S) \cap BlockingDrivers # {}
  BY VouchedBoundary
<1>6. ~Blocks(p) =>
        LET surface == {"sensitive_path_detected", "sensitive_surface_detected"} IN
        /\ PathSensitivity(p) \notin High => S = {}
        /\ PathSensitivity(p) \in High => surface \subseteq DriversOf(S)
        /\ DriversOf(S) \subseteq surface \cup
             IF LacksEither(p, w)
             THEN {"sensitive_context_missing", "sensitive_surface_context_incomplete"}
             ELSE {"sensitive_change_review_required"}
  BY VouchedSensitivity
<1> HIDE DEF s, F, C, X, S
<1>7. D = DriversOf(C) \cup DriversOf(X) \cup DriversOf(S)
  BY <1>1 DEF DriversOf
<1>8. \A G : G = {} => DriversOf(G) = {}
  BY DEF DriversOf
<1> HIDE DEF D
<1>9. CASE Blocks(p)
  <2>1. D \cap BlockingDrivers # {}
    BY <1>5, <1>7, <1>9
  <2> QED
    BY <1>9, <2>1 DEF Route, D, F, s
<1>10. CASE ~Blocks(p)
  <2> DEFINE sensitive == PathSensitivity(p) \in High
             destructive == IsDestructive(p)
             lacking == LacksEither(p, w)
  <2>1. D \cap BlockingDrivers = {}
    BY <1>3, <1>4, <1>6, <1>7, <1>10 DEF BlockingDrivers
  <2>2. D \cap RecoveryUnknownDrivers = {}
    BY <1>3, <1>4, <1>6, <1>7, <1>10 DEF RecoveryUnknownDrivers
  <2>3. sensitive <=> D \cap SensitiveSurfaceDrivers # {} 
    BY <1>3, <1>4, <1>6, <1>7, <1>8, <1>10 DEF SensitiveSurfaceDrivers
  <2>4. ~lacking => D \cap SensitiveMissingDrivers = {}
    BY <1>2, <1>4, <1>6, <1>7, <1>8, <1>10 DEF SensitiveMissingDrivers
  <2>5. lacking => /\ D \cap SensitiveMissingDrivers # {}
                   /\ D \cap DeferDrivers # {}
                   /\ HasOrdinaryStep(Plan(D))
    <3> SUFFICES ASSUME lacking
                 PROVE  /\ D \cap SensitiveMissingDrivers # {}
                        /\ HasOrdinaryStep(Plan(D))
      BY DEF DeferDrivers
    <3>1. "target_file_not_observed" \in D \/ "related_tests_not_observed" \in D
      BY <1>2, <1>7 DEF LacksEither
    <3> QED
      BY <2>1, <3>1, ReadingIsOrdinary DEF SensitiveMissingDrivers
  <2>6. sensitive \/ destructive <=> D \cap EscalationDrivers # {}
    BY <1>3, <1>4, <1>6, <1>7, <1>8, <1>10 DEF EscalationDrivers
  <2>7. ~LacksRecovery(D)
    BY <2>2 DEF LacksRecovery
  <2>8. LacksSensitiveEvidence(D) <=> sensitive /\ lacking
    BY <2>3, <2>4, <2>5 DEF LacksSensitiveEvidence
  <2>9. CASE sensitive /\ lacking
    <3>1. Route(F) = "DEFER"
      BY <2>1, <2>5, <2>8, <2>9 DEF Route, D
    <3> QED
      BY <1>10, <2>9, <3>1 DEF F, s
  <2>10. CASE (sensitive \/ destructive) /\ ~(sensitive /\ lacking)
    <3>1. NeedsHuman(F)
      BY <2>6, <2>10 DEF NeedsHuman, D
    <3>2. Route(F) = "ESCALATE"
      BY <2>1, <2>7, <2>8, <2>10, <3>1 DEF Route, D
    <3> QED
      BY <1>10, <2>10, <3>2 DEF F, s
  <2>11. CASE ~sensitive /\ ~destructive /\ lacking
    <3>1. \A f \in F : IsMissing(f)
      BY <1>1, <1>2, <1>4, <1>6, <1>10, <2>11
    <3>2. IsFullyReducible(F)
      BY <3>1 DEF IsFullyReducible, IsMissing, Missing, Finding
    <3>3. LacksEvidence(F)
      <4>1. PICK f \in F : TRUE
        BY <1>1, <1>2, <1>8, <2>11 DEF LacksEither
      <4>2. PICK n, i, d : f = Missing(n, i, d)
        BY <3>1, <4>1 DEF IsMissing
      <4>3. f.lacks
        BY <4>2 DEF Missing, Finding
      <4> QED
        BY <4>1, <4>3 DEF LacksEvidence
    <3>4. ~NeedsHuman(F)
      BY <2>5, <2>6, <2>11, <3>2 DEF NeedsHuman, HasOrdinaryStep, D
    <3>5. Route(F) = "DEFER"
      BY <2>1, <2>5, <2>7, <2>8, <2>11, <3>3, <3>4 DEF Route, IsUncertain, D
    <3> QED
      BY <1>10, <2>11, <3>5 DEF F, s
  <2>12. CASE ~sensitive /\ ~destructive /\ ~lacking
    <3>1. F = {}
      BY <1>1, <1>2, <1>4, <1>6, <1>10, <2>12
    <3>2. D = {}
      BY <1>8, <3>1 DEF D
    <3>3. Plan(D) = {}
      BY <3>2 DEF Plan, StepsFor, NormalizedDrivers
    <3>4. /\ IsLow(F) /\ ~LacksEvidence(F) /\ ~HasHighImpact(F)
      BY <3>1 DEF IsLow, LacksEvidence, HasHighImpact
    <3>5. ~NeedsHuman(F)
      BY <3>2, <3>3, <3>4 DEF NeedsHuman, Stop, D
    <3>6. Route(F) = "PROCEED"
      BY <2>1, <2>7, <2>8, <2>12, <3>3, <3>4, <3>5 DEF Route, IsUncertain, D
    <3> QED
      BY <1>10, <2>12, <3>6 DEF F, s
  <2> QED
    BY <2>9, <2>10, <2>11, <2>12
<1> QED
  BY <1>9, <1>10

\* The signals of the caller's word do not reach the 22 rules.
LEMMA VouchedVerdict ==
  ASSUME NEW p, NEW w
  PROVE  DecisionOf(DefaultRules, Vouched(p, w)) = DecisionOf(DefaultRules, Signals(p, w))
<1> DEFINE d == [delegation_provenance |-> "trusted"]
           s == Signals(p, w)
           u == Vouched(p, w)
           M == MatchedRules(DefaultRules, s)
           N == MatchedRules(DefaultRules, u)
<1>1. u = d ++ s /\ DOMAIN d = {"delegation_provenance"}
  BY DEF Vouched
<1> HIDE DEF d, s, u
<1>2. \A x, V : x # "delegation_provenance" => (Meets(u, x, V) <=> Meets(s, x, V))
  BY <1>1, MeetsJoin
<1>3. \A n \in 1..11 : n \in N <=> n \in M
  BY <1>2, DefaultMatches
<1>4. \A n \in 12..22 : n \in N <=> n \in M
  BY <1>2, DefaultMatches
<1>5. N \subseteq 1..22 /\ M \subseteq 1..22
  BY DefaultMatches
<1> HIDE DEF M, N
<1>6. N = M
  <2>1. ASSUME NEW n \in N PROVE n \in M
    BY <1>3, <1>4, <1>5
  <2>2. ASSUME NEW n \in M PROVE n \in N
    BY <1>3, <1>4, <1>5
  <2> QED
    BY <2>1, <2>2
<1> QED
  BY <1>6, DefaultVerdict DEF M, N, s, u

-----------------------------------------------------------------------------
(* A rule that matches weighs in the profile *)

\* A finding that keeps an action from proceeding.
Weighty(F) == \E f \in F : ~(f.score < 25) \/ f.lacks

LEMMA WeightDecides == \A F, G : Weighty(F) /\ F \subseteq G => Route(G) # "PROCEED"
<1> SUFFICES ASSUME NEW F, NEW G, Weighty(F), F \subseteq G
             PROVE  Route(G) # "PROCEED"
  OBVIOUS
<1>1. ~(IsLow(G) /\ ~LacksEvidence(G))
  BY DEF Weighty, IsLow, LacksEvidence
<1> QED
  BY <1>1 DEF Route

LEMMA MissingWeighs == \A F, n, i, d : Missing(n, i, d) \in F => Weighty(F)
<1> SUFFICES ASSUME NEW F, NEW n, NEW i, NEW d, Missing(n, i, d) \in F
             PROVE  Weighty(F)
  OBVIOUS
<1>1. Missing(n, i, d).lacks
  BY DEF Missing, Finding
<1> QED
  BY <1>1 DEF Weighty
LEMMA FoundWeighs ==
  \A F, i, r, d, l : \A n \in 25..100 : Finding(n, i, r, d, l) \in F => Weighty(F)
<1> SUFFICES ASSUME NEW F, NEW i, NEW r, NEW d, NEW l, NEW n \in 25..100,
                    Finding(n, i, r, d, l) \in F
             PROVE  Weighty(F)
  OBVIOUS
<1>1. Finding(n, i, r, d, l).score = n
  BY DEF Finding
<1> QED
  BY <1>1 DEF Weighty
LEMMA DetectedWeighs == \A F, i, d : \A n \in 25..100 : Detected(n, i, d) \in F => Weighty(F)
  BY FoundWeighs DEF Detected

LEMMA MeetsYes == \A s, x : Meets(s, x, Yes) => IsSet(s, x)
<1> SUFFICES ASSUME NEW s, NEW x, Meets(s, x, Yes) PROVE IsSet(s, x)
  OBVIOUS
<1>1. x \in DOMAIN s /\ s[x] = TRUE
  BY DEF Meets, Yes
<1> QED
  BY <1>1, Zenon DEF IsSet
LEMMA MeetsValue == \A s, x, V : Meets(s, x, V) => SignalOf(s, x) \in V
  BY DEF Meets, SignalOf

\* The parts of a profile.
LEMMA ProfileParts ==
  ASSUME NEW s, NEW b
  PROVE  \A F \in {ContextFindings(s), FreshnessFindings(s), ValidationFindings(s),
                   CommandFindings(s), SensitivityFindings(s), BoundaryFindings(s),
                   GitFindings(s), EnvironmentFindings(s), BudgetFindings(s, b)} :
           /\ F \subseteq Profile(s, b)
           /\ DriversOf(F) \subseteq DriversOf(Profile(s, b))
<1>1. \A F \in {ContextFindings(s), FreshnessFindings(s), ValidationFindings(s),
                CommandFindings(s), SensitivityFindings(s), BoundaryFindings(s),
                GitFindings(s), EnvironmentFindings(s), BudgetFindings(s, b)} :
         F \subseteq Profile(s, b)
  BY DEF Profile
<1>2. \A F, G : F \subseteq G => DriversOf(F) \subseteq DriversOf(G)
  BY DEF DriversOf
<1> QED
  BY <1>1, <1>2

\* A landing action is always found.
LEMMA LandingWeighs ==
  ASSUME NEW s, IsSet(s, "landing_action")
  PROVE  Weighty(GitFindings(s))
<1> DEFINE risk == SignalOf(s, "landing_risk")
           n == IF risk = "critical" THEN 85 ELSE RiskScore(risk, 35)
<1>1. n \in 25..100
  BY DEF RiskScore
<1>2. Detected(n, RiskImpact(risk), {"landing_action_detected"}) \in GitFindings(s)
  BY DEF GitFindings, On
<1> QED
  BY <1>1, <1>2, DetectedWeighs

\* A rule that matches has its finding, whatever is reported.
LEMMA RulesWeigh ==
  ASSUME NEW s, NEW b,
         MatchedRules(DefaultRules, s) \ {19, 20, 22} # {}
  PROVE  Route(Profile(s, b)) # "PROCEED"
<1> DEFINE M == MatchedRules(DefaultRules, s)
           weighs == \E F \in {ContextFindings(s), FreshnessFindings(s),
                               ValidationFindings(s), CommandFindings(s),
                               SensitivityFindings(s), BoundaryFindings(s),
                               GitFindings(s)} : Weighty(F)
<1>1. ASSUME 1 \in M PROVE Weighty(FreshnessFindings(s))
  <2>1. SignalOf(s, "target_file_freshness") \in {"stale", "unknown", "missing"}
    BY <1>1, DefaultMatches, MeetsValue
  <2>2. \E n, i, d : Missing(n, i, d) \in FreshnessFindings(s)
    BY <2>1 DEF FreshnessFindings, Entry
  <2> QED
    BY <2>2, MissingWeighs
<1>2. ASSUME 2 \in M PROVE Weighty(BoundaryFindings(s))
  <2>1. IsSet(s, "workspace_boundary_violation")
    BY <1>2, DefaultMatches, MeetsYes
  <2>2. Detected(90, "critical", {"workspace_boundary_violation"}) \in BoundaryFindings(s)
    BY <2>1 DEF BoundaryFindings
  <2> QED
    BY <2>2, DetectedWeighs
<1>3. ASSUME M \cap {3, 4} # {} PROVE Weighty(CommandFindings(s))
  <2>1. SignalOf(s, "command_risk_score") \in {"critical", "high"}
    BY <1>3, DefaultMatches, MeetsValue
  <2>2. \E i, d : Detected(65, i, d) \in CommandFindings(s)
                    \/ Detected(85, i, d) \in CommandFindings(s)
    BY <2>1 DEF CommandFindings, Entry
  <2> QED
    BY <2>2, DetectedWeighs
<1>4. ASSUME 5 \in M PROVE Weighty(CommandFindings(s))
  <2> DEFINE critical == "critical" \in {SignalOf(s, "destructive_severity"),
                                         SignalOf(s, "command_risk_score")}
             n == IF critical THEN 85 ELSE 65
  <2>1. IsSet(s, "destructive_operation")
    BY <1>4, DefaultMatches, MeetsYes
  <2>2. Detected(n, IF critical THEN "critical" ELSE "high",
                 {"destructive_command_detected"}) \in CommandFindings(s)
    BY <2>1 DEF CommandFindings, On
  <2>3. n \in 25..100
    OBVIOUS
  <2> QED
    BY <2>2, <2>3, DetectedWeighs
<1>5. ASSUME 6 \in M PROVE Weighty(SensitivityFindings(s))
  <2>1. SignalOf(s, "path_sensitivity") \in {"high", "critical"}
    BY <1>5, DefaultMatches, MeetsValue
  <2>2. \E i, d : Detected(60, i, d) \in SensitivityFindings(s)
                    \/ Detected(75, i, d) \in SensitivityFindings(s)
    BY <2>1 DEF SensitivityFindings, Entry
  <2> QED
    BY <2>2, DetectedWeighs
<1>6. ASSUME M \cap {7, 8} # {} PROVE Weighty(SensitivityFindings(s))
  <2>1. SignalOf(s, "secret_touch") \in {"probable", "confirmed"}
    BY <1>6, DefaultMatches, MeetsValue
  <2>2. \E i, d : Detected(75, i, d) \in SensitivityFindings(s)
                    \/ Detected(85, i, d) \in SensitivityFindings(s)
    BY <2>1 DEF SensitivityFindings, Entry
  <2> QED
    BY <2>2, DetectedWeighs
<1>7. ASSUME M \cap {9, 10, 11, 12} # {} PROVE Weighty(ValidationFindings(s))
  <2>1. /\ SignalOf(s, "validation_status") \in {"not_run", "stale", "failed"}
        /\ IsSet(s, "validation_required")
    BY <1>7, DefaultMatches, MeetsValue, MeetsYes DEF NotRunOrStale
  <2>2. ~IsCleared(s, "validation_required")
    BY <2>1, Zenon DEF IsSet, IsCleared
  <2> DEFINE table == [failed  |-> Finding(85, "critical", "reducible", {"validation_failed"},
                                           FALSE),
                       not_run |-> Missing(65, "high", {"validation_missing"}),
                       stale   |-> Missing(60, "high", {"validation_stale"}),
                       running |-> Missing(35, "medium", {"validation_running"}),
                       unknown |-> Missing(50, "medium",
                         {IF SignalOf(s, "validation_scope") = "unknown"
                          THEN "validation_target_unclear" ELSE "validation_unknown"})]
  <2>3. Entry(table, SignalOf(s, "validation_status")) \subseteq ValidationFindings(s)
    BY <2>2 DEF ValidationFindings, On
  <2>4. /\ {"failed", "not_run", "stale"} \subseteq DOMAIN table
        /\ table["failed"] = Finding(85, "critical", "reducible", {"validation_failed"}, FALSE)
        /\ table["not_run"] = Missing(65, "high", {"validation_missing"})
        /\ table["stale"] = Missing(60, "high", {"validation_stale"})
    OBVIOUS
  <2> HIDE DEF table
  <2>5. table[SignalOf(s, "validation_status")] \in ValidationFindings(s)
    BY <2>1, <2>3, <2>4 DEF Entry
  <2>6. CASE SignalOf(s, "validation_status") = "failed"
    <3>1. Finding(85, "critical", "reducible", {"validation_failed"}, FALSE)
            \in ValidationFindings(s)
      BY <2>4, <2>5, <2>6
    <3>2. 85 \in 25..100
      OBVIOUS
    <3> QED
      BY <3>1, <3>2, FoundWeighs
  <2>7. CASE SignalOf(s, "validation_status") = "not_run"
    BY <2>4, <2>5, <2>7, MissingWeighs
  <2>8. CASE SignalOf(s, "validation_status") = "stale"
    BY <2>4, <2>5, <2>8, MissingWeighs
  <2> QED
    BY <2>1, <2>6, <2>7, <2>8
<1>8. ASSUME 13 \in M PROVE Weighty(ContextFindings(s))
  <2>1. IsBelow(s, "context_completeness_score", 70)
    BY <1>8, DefaultMatches DEF Meets, IsBelow
  <2>2. \E n, i, d : Missing(n, i, d) \in ContextFindings(s)
    BY <2>1 DEF ContextFindings, On
  <2> QED
    BY <2>2, MissingWeighs
<1>9. ASSUME M \cap {14, 15} # {} PROVE Weighty(GitFindings(s))
  <2>1. IsSet(s, "force_push") \/ IsSet(s, "hook_bypass")
    BY <1>9, DefaultMatches, MeetsYes
  <2>2. \/ Detected(85, "critical", {"force_push_detected"}) \in GitFindings(s)
        \/ Detected(75, "high", {"hook_bypass_detected"}) \in GitFindings(s)
    BY <2>1 DEF GitFindings, On
  <2> QED
    BY <2>2, DetectedWeighs
<1>10. ASSUME M \cap {16, 17} # {} PROVE Weighty(GitFindings(s))
  <2> DEFINE pushed == IsSet(s, "direct_mainline_push")
             mainline == IsSet(s, "direct_mainline_commit") \/ pushed
             n == IF pushed THEN 85 ELSE 65
  <2>1. mainline
    BY <1>10, DefaultMatches, MeetsYes
  <2>2. Detected(n, IF pushed THEN "critical" ELSE "high",
                 {"protected_branch_risk"} \cup On(mainline, {"direct_mainline_risk"}))
          \in GitFindings(s)
    BY <2>1 DEF GitFindings, On
  <2>3. n \in 25..100
    OBVIOUS
  <2> QED
    BY <2>2, <2>3, DetectedWeighs
<1>11. ASSUME 18 \in M PROVE Weighty(GitFindings(s))
  <2>1. SignalOf(s, "branch_risk") = "unknown"
    BY <1>11, DefaultMatches, MeetsValue
  <2>2. Missing(55, "medium", {"git_state_unknown"}) \in GitFindings(s)
    BY <2>1 DEF GitFindings, Entry
  <2> QED
    BY <2>2, MissingWeighs
<1>12. ASSUME 21 \in M PROVE Weighty(GitFindings(s))
  <2>1. IsSet(s, "landing_action")
    BY <1>12, DefaultMatches, MeetsYes
  <2> QED
    BY <2>1, LandingWeighs
<1>13. M \subseteq 1..22
  BY DefaultMatches
<1>14. PICK n \in M : n \in (1..18) \cup {21}
  BY <1>13
<1> HIDE DEF M
<1>15. weighs
  BY <1>1, <1>2, <1>3, <1>4, <1>5, <1>6, <1>7, <1>8, <1>9, <1>10, <1>11, <1>12, <1>14
<1> HIDE DEF weighs
<1> QED
  BY <1>15, ProfileParts, WeightDecides DEF weighs

-----------------------------------------------------------------------------
(* What is detected of landing and sensitivity *)

\* A command has no pathto be sensitive.
LEMMA CommandPath ==
  ASSUME NEW p, NEW w, ~IsFileAction(p)
  PROVE  /\ Signals(p, w)["path_sensitivity"] = "unknown"
         /\ "path_sensitivity" \in DOMAIN Signals(p, w)
<1> DEFINE d == [delegation_provenance |-> IF p.named THEN "partial" ELSE "unknown"]
           r == [action_type |-> p.type, path_sensitivity |-> "unknown",
                 secret_touch |-> "none", workspace_boundary_status |-> "not_applicable"]
           g == r ++ GitWorkflowSignals(p, w)
           v == g ++ ValidationGateSignals(p, w)
           c == v ++ CommandRiskSignals(p)
           l == c ++ LandingGateSignals(p, w)
           is(s) == "path_sensitivity" \in DOMAIN s /\ s["path_sensitivity"] = "unknown"
<1>1. Signals(p, w) = d ++ l
  BY DEF Signals, CommandSignals
<1>2. is(r) /\ "path_sensitivity" \notin DOMAIN d
  OBVIOUS
<1> HIDE DEF r, d
<1>3. is(g)
  BY <1>2 DEF ++
<1> HIDE DEF g
<1>4. is(v)
  BY <1>3 DEF ++
<1> HIDE DEF v
<1>5. is(c)
  BY <1>4 DEF ++
<1> HIDE DEF c
<1>6. is(l)
  BY <1>5 DEF ++
<1> HIDE DEF l
<1> QED
  BY <1>1, <1>2, <1>6 DEF ++

\* What a caller does not provide is as detected.
LEMMA MergedAsDetected ==
  ASSUME NEW c, NEW d, NEW x, x \notin DOMAIN c
  PROVE  /\ x \in DOMAIN (c ++ d) <=> x \in DOMAIN d
         /\ x \in DOMAIN d => (c ++ d)[x] = d[x]
         /\ SignalOf(c ++ d, x) = SignalOf(d, x)
  BY DEF ++, SignalOf

\* What a high or critical risk comes from.
LEMMA LandingRiskMeans ==
  ASSUME NEW p, NEW w
  PROVE  /\ LandingRisk(p, w) = "high" => LandingType(p) # "none"
         /\ LandingRisk(p, w) = "critical" =>
              /\ LandingType(p) # "none"
              /\ \/ PushesToProtected(p, w) \/ ForcesPush(p) \/ BypassesHooks(p)
                 \/ LandingType(p) = "deploy" /\ p.environment = "production"
                 \/ LandingType(p) \in {"publish", "release"}
  BY DEF LandingRisk

\* What the landing detector says of what it rates.
LEMMA LandingReported ==
  ASSUME NEW p, NEW w
  PROVE  LET l == LandingGateSignals(p, w)
             type == LandingType(p)
         IN /\ l["landing_risk"] = LandingRisk(p, w)
            /\ "landing_action" \in DOMAIN l /\ "landing_risk" \in DOMAIN l
            /\ l["landing_action"] = (type # "none")
            /\ type # "none" => /\ "landing_action_type" \in DOMAIN l
                                /\ l["landing_action_type"] = type
            /\ type = "deploy" => /\ "environment_classification" \in DOMAIN l
                                  /\ l["environment_classification"] = p.environment
            /\ type \in {"publish", "release"} => /\ "release_risk" \in DOMAIN l
                                                  /\ l["release_risk"] = LandingRisk(p, w)
<1> DEFINE type == LandingType(p)
           risk == LandingRisk(p, w)
           a == [landing_action |-> type # "none", landing_risk |-> risk]
           b == When(type # "none", [landing_action_type |-> type, requires_validation |-> TRUE])
           c == When(type = "deploy", [deployment_risk |-> risk,
                                       environment_classification |-> p.environment])
           d == When(type \in {"publish", "release"}, [release_risk |-> risk])
           ab == a ++ b
           abc == ab ++ c
<1>1. LandingGateSignals(p, w) = abc ++ d
  BY DEF LandingGateSignals
<1>2. /\ DOMAIN a = {"landing_action", "landing_risk"}
      /\ a["landing_action"] = (type # "none") /\ a["landing_risk"] = risk
  OBVIOUS
<1>3. /\ DOMAIN b \subseteq {"landing_action_type", "requires_validation"}
      /\ type # "none" => /\ "landing_action_type" \in DOMAIN b
                          /\ b["landing_action_type"] = type
  BY DEF When
<1>4. /\ DOMAIN c \subseteq {"deployment_risk", "environment_classification"}
      /\ type = "deploy" => /\ "environment_classification" \in DOMAIN c
                            /\ c["environment_classification"] = p.environment
  BY DEF When
<1>5. /\ DOMAIN d \subseteq {"release_risk"}
      /\ type \in {"publish", "release"} => /\ "release_risk" \in DOMAIN d
                                            /\ d["release_risk"] = risk
  BY DEF When
<1> HIDE DEF a, b, c, d, type, risk
<1>6. /\ DOMAIN ab = DOMAIN a \cup DOMAIN b
      /\ \A x \in DOMAIN a : ab[x] = a[x]
      /\ \A x \in DOMAIN b \ DOMAIN a : ab[x] = b[x]
  BY JoinFacts
<1> HIDE DEF ab
<1>7. /\ DOMAIN abc = DOMAIN ab \cup DOMAIN c
      /\ \A x \in DOMAIN ab : abc[x] = ab[x]
      /\ \A x \in DOMAIN c \ DOMAIN ab : abc[x] = c[x]
  BY JoinFacts
<1> HIDE DEF abc
<1>8. /\ DOMAIN (abc ++ d) = DOMAIN abc \cup DOMAIN d
      /\ \A x \in DOMAIN abc : (abc ++ d)[x] = abc[x]
      /\ \A x \in DOMAIN d \ DOMAIN abc : (abc ++ d)[x] = d[x]
  BY JoinFacts
<1>9. LET l == abc ++ d IN
      /\ l["landing_risk"] = risk
      /\ "landing_action" \in DOMAIN l /\ "landing_risk" \in DOMAIN l
      /\ l["landing_action"] = (type # "none")
      /\ type # "none" => /\ "landing_action_type" \in DOMAIN l
                          /\ l["landing_action_type"] = type
      /\ type = "deploy" => /\ "environment_classification" \in DOMAIN l
                            /\ l["environment_classification"] = p.environment
      /\ type \in {"publish", "release"} => /\ "release_risk" \in DOMAIN l
                                            /\ l["release_risk"] = risk
  <2>1. abc["landing_action"] = (type # "none") /\ abc["landing_risk"] = risk
    BY <1>2, <1>6, <1>7
  <2>2. type # "none" => /\ "landing_action_type" \in DOMAIN abc
                         /\ abc["landing_action_type"] = type
    BY <1>2, <1>3, <1>6, <1>7
  <2>3. type = "deploy" => /\ "environment_classification" \in DOMAIN abc
                           /\ abc["environment_classification"] = p.environment
    BY <1>2, <1>3, <1>4, <1>6, <1>7
  <2>4. {"landing_action", "landing_risk"} \subseteq DOMAIN abc
        /\ "release_risk" \notin DOMAIN abc
    BY <1>2, <1>3, <1>4, <1>6, <1>7
  <2> QED
    BY <1>5, <1>8, <2>1, <2>2, <2>3, <2>4
<1> QED
  BY <1>1, <1>9 DEF type, risk

\* What the git detector says of pushes.
LEMMA GitReported ==
  ASSUME NEW p, NEW w
  PROVE  LET g == GitWorkflowSignals(p, w) IN
         /\ ForcesPush(p) => "force_push" \in DOMAIN g /\ g["force_push"] = TRUE
         /\ BypassesHooks(p) => "hook_bypass" \in DOMAIN g /\ g["hook_bypass"] = TRUE
         /\ PushesToProtected(p, w) =>
              "direct_mainline_push" \in DOMAIN g /\ g["direct_mainline_push"] = TRUE
<1> SUFFICES ASSUME p.tool = "git"
             PROVE  LET g == GitWorkflowSignals(p, w) IN
                    /\ ForcesPush(p) => "force_push" \in DOMAIN g /\ g["force_push"] = TRUE
                    /\ BypassesHooks(p) => "hook_bypass" \in DOMAIN g /\ g["hook_bypass"] = TRUE
                    /\ PushesToProtected(p, w) =>
                         "direct_mainline_push" \in DOMAIN g /\ g["direct_mainline_push"] = TRUE
  BY DEF ForcesPush, BypassesHooks, PushesToProtected
<1> DEFINE a == [force_push |-> ForcesPush(p), hook_bypass |-> BypassesHooks(p),
                 branch_risk |-> BranchRisk(p, w),
                 direct_mainline_commit |-> p.sub = "commit" /\ OnProtectedBranch(w),
                 direct_mainline_push |-> PushesToProtected(p, w)]
           b == When(w.repo.git, [protected_branch |-> OnProtectedBranch(w),
                                  is_dirty_worktree |-> IsDirty(w)])
<1>1. GitWorkflowSignals(p, w) = a ++ b
  BY DEF GitWorkflowSignals, When
<1>2. /\ {"force_push", "hook_bypass", "direct_mainline_push"} \subseteq DOMAIN a
      /\ a["force_push"] = ForcesPush(p) /\ a["hook_bypass"] = BypassesHooks(p)
      /\ a["direct_mainline_push"] = PushesToProtected(p, w)
  OBVIOUS
<1> HIDE DEF a, b
<1>3. \A x \in DOMAIN a : x \in DOMAIN (a ++ b) /\ (a ++ b)[x] = a[x]
  BY JoinFacts
<1>4. LET g == a ++ b IN
      /\ {"force_push", "hook_bypass", "direct_mainline_push"} \subseteq DOMAIN g
      /\ g["force_push"] = ForcesPush(p) /\ g["hook_bypass"] = BypassesHooks(p)
      /\ g["direct_mainline_push"] = PushesToProtected(p, w)
  BY <1>2, <1>3
<1>5. /\ ForcesPush(p) \in BOOLEAN /\ PushesToProtected(p, w) \in BOOLEAN
      /\ BypassesHooks(p) \in BOOLEAN
  BY DEF ForcesPush, PushesToProtected, BypassesHooks
<1> QED
  BY <1>1, <1>4, <1>5

LEMMA DetectionsStand ==
  ASSUME NEW p, NEW w, NEW c, DOMAIN c \cap DetectedNames = {}
  PROVE  LET s == c ++ Signals(p, w)
             d == Signals(p, w)
         IN \A x \in DetectedNames : /\ x \in DOMAIN s <=> x \in DOMAIN d
                                     /\ x \in DOMAIN d => s[x] = d[x]
  BY MergedAsDetected

\* A risk rated high or critical is that of a landing action, and a critical one has
\* a cause that is reported by itself; where a push, a landing or required validation
\* is at stake no path is.
LEMMA LandingIsSeen ==
  ASSUME NEW p, NEW w, NEW c, DOMAIN c \cap DetectedNames = {}
  PROVE  LET s == c ++ Signals(p, w) IN
         /\ SignalOf(s, "landing_risk") \in {"high", "critical"} =>
              "landing_action" \in DOMAIN s /\ s["landing_action"] = TRUE
         /\ SignalOf(s, "landing_risk") = "critical" =>
              \/ "force_push" \in DOMAIN s /\ s["force_push"] = TRUE
              \/ "hook_bypass" \in DOMAIN s /\ s["hook_bypass"] = TRUE
              \/ "direct_mainline_push" \in DOMAIN s /\ s["direct_mainline_push"] = TRUE
              \/ SignalOf(s, "environment_classification") = "production"
              \/ /\ SignalOf(s, "landing_action_type") \in {"publish", "release"}
                 /\ SignalOf(s, "release_risk") = "critical"
         /\ "direct_mainline_push" \in DOMAIN s \/ "validation_required" \in DOMAIN s =>
              ~HasReviewableSurface(s)
<1> DEFINE d == Signals(p, w)
           s == c ++ d
           l == LandingGateSignals(p, w)
           g == GitWorkflowSignals(p, w)
<1>1. \A x \in DetectedNames : /\ x \in DOMAIN s <=> x \in DOMAIN d
                               /\ x \in DOMAIN d => s[x] = d[x]
  BY DetectionsStand
<1>2. CASE IsFileAction(p)
  <2>1. /\ d["landing_risk"] = "low"
        /\ DOMAIN d \subseteq FileNames
    BY <1>2, FileParts
  <2>2. "direct_mainline_push" \notin FileNames /\ "validation_required" \notin FileNames
    BY DEF FileNames, FileRiskNames, SeverityNames, FreshnessNames, ReadNames, ContextNames
  <2> HIDE DEF s, d
  <2>3. SignalOf(s, "landing_risk") \in {"low", "undefined"}
    BY <1>1, <2>1 DEF SignalOf, DetectedNames
  <2>4. "direct_mainline_push" \notin DOMAIN s /\ "validation_required" \notin DOMAIN s
    BY <1>1, <2>1, <2>2 DEF DetectedNames
  <2> QED
    BY <2>3, <2>4 DEF s, d
<1>3. CASE ~IsFileAction(p)
  <2>1. /\ DOMAIN d \subseteq BaseNames \cup GitNames \cup ValidationNames
                                \cup CommandRiskNames \cup LandingGateNames
        /\ \A x \in GitNames : /\ x \in DOMAIN d <=> x \in DOMAIN g
                               /\ x \in DOMAIN g => d[x] = g[x]
        /\ \A x \in LandingGateNames : /\ x \in DOMAIN d <=> x \in DOMAIN l
                                       /\ x \in DOMAIN l => d[x] = l[x]
    BY <1>3, CommandParts
  <2>2. /\ {"force_push", "hook_bypass", "direct_mainline_push"} \subseteq GitNames
        /\ {"landing_action", "landing_risk", "landing_action_type",
            "environment_classification", "release_risk"} \subseteq LandingGateNames
    BY DEF GitNames, LandingGateNames
  <2>3. "matched_sensitive_path_level" \notin BaseNames \cup GitNames \cup ValidationNames
                                \cup CommandRiskNames \cup LandingGateNames
    BY DEF BaseNames, GitNames, ValidationNames, CommandRiskNames, LandingGateNames
  <2>4. "path_sensitivity" \in DOMAIN d /\ d["path_sensitivity"] = "unknown"
    BY <1>3, CommandPath
  <2>5. \A x \in DOMAIN l : x \in LandingGateNames
    BY CommandDomains
  <2>6. \A x \in DOMAIN g : x \in GitNames
    BY CommandDomains
  <2> HIDE DEF s, d, l, g
  <2>7. \A x \in DetectedNames : /\ x \in DOMAIN l => x \in DOMAIN s /\ s[x] = l[x]
                                 /\ x \in DOMAIN g => x \in DOMAIN s /\ s[x] = g[x]
    BY <1>1, <2>1, <2>5, <2>6
  <2>8. ~HasReviewableSurface(s)
    <3>1. "matched_sensitive_path_level" \notin DOMAIN s
      BY <1>1, <2>1, <2>3 DEF DetectedNames
    <3>2. "path_sensitivity" \in DOMAIN s /\ s["path_sensitivity"] = "unknown"
      BY <1>1, <2>4 DEF DetectedNames
    <3> QED
      BY <3>1, <3>2 DEF HasReviewableSurface, SignalOf, High
  <2>9. /\ "landing_risk" \in DOMAIN s /\ s["landing_risk"] = LandingRisk(p, w)
        /\ LandingType(p) # "none" => "landing_action" \in DOMAIN s /\ s["landing_action"] = TRUE
    BY <2>7, LandingReported, ZenonT(30) DEF DetectedNames, l
  <2>10. SignalOf(s, "landing_risk") = LandingRisk(p, w)
    BY <2>9 DEF SignalOf
  <2>11. SignalOf(s, "landing_risk") \in {"high", "critical"} =>
              "landing_action" \in DOMAIN s /\ s["landing_action"] = TRUE
    BY <2>9, <2>10, LandingRiskMeans
  <2>12. ASSUME LandingRisk(p, w) = "critical"
         PROVE  \/ "force_push" \in DOMAIN s /\ s["force_push"] = TRUE
                \/ "hook_bypass" \in DOMAIN s /\ s["hook_bypass"] = TRUE
                \/ "direct_mainline_push" \in DOMAIN s /\ s["direct_mainline_push"] = TRUE
                \/ SignalOf(s, "environment_classification") = "production"
                \/ /\ SignalOf(s, "landing_action_type") \in {"publish", "release"}
                   /\ SignalOf(s, "release_risk") = "critical"
    <3>1. CASE ForcesPush(p)
      <4>1. "force_push" \in DOMAIN g /\ g["force_push"] = TRUE
        BY <3>1, GitReported DEF g
      <4> QED
        BY <2>7, <4>1 DEF DetectedNames
    <3>2. CASE BypassesHooks(p)
      <4>1. "hook_bypass" \in DOMAIN g /\ g["hook_bypass"] = TRUE
        BY <3>2, GitReported DEF g
      <4> QED
        BY <2>7, <4>1 DEF DetectedNames
    <3>3. CASE PushesToProtected(p, w)
      <4>1. "direct_mainline_push" \in DOMAIN g /\ g["direct_mainline_push"] = TRUE
        BY <3>3, GitReported DEF g
      <4> QED
        BY <2>7, <4>1 DEF DetectedNames
    <3>4. CASE LandingType(p) = "deploy" /\ p.environment = "production"
      <4>1. /\ "environment_classification" \in DOMAIN l
            /\ l["environment_classification"] = "production"
        BY <3>4, LandingReported DEF l
      <4> QED
        BY <2>7, <4>1 DEF DetectedNames, SignalOf
    <3>5. CASE LandingType(p) \in {"publish", "release"}
      <4>1. /\ "landing_action_type" \in DOMAIN l
            /\ l["landing_action_type"] = LandingType(p)
            /\ "release_risk" \in DOMAIN l /\ l["release_risk"] = "critical"
        BY <2>12, <3>5, LandingReported DEF l
      <4>2. /\ "landing_action_type" \in DOMAIN s /\ s["landing_action_type"] = LandingType(p)
            /\ "release_risk" \in DOMAIN s /\ s["release_risk"] = "critical"
        BY <2>7, <4>1 DEF DetectedNames
      <4> QED
        BY <3>5, <4>2 DEF SignalOf
    <3> QED
      BY <2>12, <3>1, <3>2, <3>3, <3>4, <3>5, LandingRiskMeans
  <2> QED
    BY <2>8, <2>10, <2>11, <2>12 DEF s, d
<1> QED
  BY <1>2, <1>3

-----------------------------------------------------------------------------
(* What blocks shows among the drivers *)

\* A budget that the signals call exceeded weighs, unless a tracker says otherwise.
LEMMA BudgetWeighs ==
  ASSUME NEW s, NEW b,
         SignalOf(s, "autonomy_budget_status") = "exceeded",
         "autonomyBudgetStatus" \in DOMAIN b =>
           b["autonomyBudgetStatus"] \in {"exceeded", "warning", "unknown"}
  PROVE  Weighty(BudgetFindings(s, b))
<1> DEFINE status == IF "autonomyBudgetStatus" \in DOMAIN b THEN b["autonomyBudgetStatus"]
                     ELSE SignalOf(s, "autonomy_budget_status")
           table == [exceeded |-> Exhausted({"autonomy_budget_exceeded"}),
                     warning  |-> Strained({"autonomy_budget_warning"}),
                     unknown  |-> Untracked({"autonomy_budget_unknown",
                                             "autonomy_budget_not_tracked"})]
<1>1. Entry(table, status) \subseteq BudgetFindings(s, b)
  BY DEF BudgetFindings
<1>2. status \in {"exceeded", "warning", "unknown"}
  OBVIOUS
<1>3. /\ {"exceeded", "warning", "unknown"} = DOMAIN table
      /\ \A v \in DOMAIN table : table[v].lacks = TRUE
  BY DEF Exhausted, Strained, Untracked, Missing, Finding
<1> HIDE DEF status, table
<1>4. table[status] \in BudgetFindings(s, b) /\ table[status].lacks = TRUE
  BY <1>1, <1>2, <1>3 DEF Entry
<1> QED
  BY <1>4 DEF Weighty

\* What is detected shows among the drivers.
LEMMA DetectedShows ==
  \A F, n, i, d : Detected(n, i, d) \in F => d \subseteq DriversOf(F)
<1> SUFFICES ASSUME NEW F, NEW n, NEW i, NEW d, Detected(n, i, d) \in F
             PROVE  d \subseteq DriversOf(F)
  OBVIOUS
<1>1. Detected(n, i, d).drivers = d
  BY DEF Detected, Finding
<1> QED
  BY <1>1, FindingShows

LEMMA BlockingRoutes ==
  ASSUME NEW F, DriversOf(F) \cap BlockingDrivers # {}
  PROVE  Route(F) = "BLOCK"
  BY DEF Route

\* Without a sensitive surface no evidence about one lacks.
LEMMA NoSurfaceLacks ==
  ASSUME NEW s, NEW b, ~HasReviewableSurface(s)
  PROVE  ~LacksSensitiveEvidence(DriversOf(Profile(s, b)))
<1>1. DriversOf(SensitivityFindings(s)) \cap SensitiveSurfaceDrivers = {}
  <2>1. SignalOf(s, "path_sensitivity") \notin {"critical", "high"}
    BY DEF HasReviewableSurface, High
  <2>2. \A f \in SensitivityFindings(s) : f.drivers \cap SensitiveSurfaceDrivers = {}
    BY <2>1 DEF SensitivityFindings, Entry, On, Detected, Finding, SensitiveSurfaceDrivers
  <2> QED
    BY <2>2 DEF DriversOf
<1>2. SignalDrivers(s) \cap SensitiveSurfaceDrivers = {}
  BY <1>1, ContextDrivers, FreshnessDrivers, ValidationDrivers, CommandDrivers, BoundaryDrivers,
     GitDrivers, EnvironmentDrivers, RecoveryDrivers, ProvenanceDrivers
  DEF SignalDrivers, SensitiveSurfaceDrivers
<1>3. TrackedDrivers(s, b) \cap SensitiveSurfaceDrivers = {}
  BY BudgetFindingsDrivers, ProgressDrivers DEF TrackedDrivers, SensitiveSurfaceDrivers
<1> QED
  BY <1>2, <1>3, ProfileDrivers DEF LacksSensitiveEvidence

\* What blocks an action shows in the advice: to block it, or to ask a human.
LEMMA BlocksShow ==
  ASSUME NEW p, NEW w, NEW c, NEW b, DOMAIN c \cap DetectedNames = {},
         MatchedRules(DefaultRules, c ++ Signals(p, w)) \cap BlockRules # {}
  PROVE  Route(Profile(c ++ Signals(p, w), b)) \in {"BLOCK", "ESCALATE"}
<1> DEFINE s == c ++ Signals(p, w)
           M == MatchedRules(DefaultRules, s)
           D == DriversOf(Profile(s, b))
<1>1. /\ SignalOf(s, "landing_risk") = "critical" =>
           \/ "force_push" \in DOMAIN s /\ s["force_push"] = TRUE
           \/ "hook_bypass" \in DOMAIN s /\ s["hook_bypass"] = TRUE
           \/ "direct_mainline_push" \in DOMAIN s /\ s["direct_mainline_push"] = TRUE
           \/ SignalOf(s, "environment_classification") = "production"
           \/ /\ SignalOf(s, "landing_action_type") \in {"publish", "release"}
              /\ SignalOf(s, "release_risk") = "critical"
      /\ "direct_mainline_push" \in DOMAIN s \/ "validation_required" \in DOMAIN s =>
           ~HasReviewableSurface(s)
  BY LandingIsSeen
<1> HIDE DEF s
<1>2. D \cap BlockingDrivers # {} => Route(Profile(s, b)) = "BLOCK"
  BY BlockingRoutes
<1>3. ~HasReviewableSurface(s) /\ D \cap {"protected_branch_risk", "validation_failed"} # {}
        => Route(Profile(s, b)) \in {"BLOCK", "ESCALATE"}
  BY EscalationRoutes, NoSurfaceLacks DEF EscalationDrivers
<1>4. \A F \in {ContextFindings(s), FreshnessFindings(s), ValidationFindings(s),
                CommandFindings(s), SensitivityFindings(s), BoundaryFindings(s),
                GitFindings(s), EnvironmentFindings(s)} : DriversOf(F) \subseteq D
  BY ProfileParts
<1> HIDE DEF D
<1>5. ASSUME 2 \in M PROVE "workspace_boundary_violation" \in D
  <2>1. IsSet(s, "workspace_boundary_violation")
    BY <1>5, DefaultMatches, MeetsYes
  <2>2. Detected(90, "critical", {"workspace_boundary_violation"}) \in BoundaryFindings(s)
    BY <2>1 DEF BoundaryFindings
  <2> QED
    BY <1>4, <2>2, DetectedShows
<1>6. ASSUME 3 \in M PROVE "command_risk_critical" \in D
  <2>1. SignalOf(s, "command_risk_score") = "critical"
    BY <1>6, DefaultMatches, MeetsValue
  <2>2. Detected(85, "critical", {"command_risk_critical"}) \in CommandFindings(s)
    BY <2>1 DEF CommandFindings, Entry
  <2> QED
    BY <1>4, <2>2, DetectedShows
<1>7. ASSUME M \cap {7, 8} # {} PROVE "secret_material_detected" \in D
  <2>1. SignalOf(s, "secret_touch") \in {"probable", "confirmed"}
    BY <1>7, DefaultMatches, MeetsValue
  <2>2. \/ Detected(75, "critical", {"secret_material_detected"}) \in SensitivityFindings(s)
        \/ Detected(85, "critical", {"secret_material_detected"}) \in SensitivityFindings(s)
    BY <2>1 DEF SensitivityFindings, Entry
  <2> QED
    BY <1>4, <2>2, DetectedShows
<1>8. ASSUME IsSet(s, "force_push") PROVE "force_push_detected" \in D
  <2>1. Detected(85, "critical", {"force_push_detected"}) \in GitFindings(s)
    BY <1>8 DEF GitFindings, On
  <2> QED
    BY <1>4, <2>1, DetectedShows
<1>9. ASSUME IsSet(s, "hook_bypass") PROVE "hook_bypass_detected" \in D
  <2>1. Detected(75, "high", {"hook_bypass_detected"}) \in GitFindings(s)
    BY <1>9 DEF GitFindings, On
  <2> QED
    BY <1>4, <2>1, DetectedShows
<1>10. ASSUME IsSet(s, "direct_mainline_push")
       PROVE  /\ "protected_branch_risk" \in D
              /\ "direct_mainline_push" \in DOMAIN s
  <2> DEFINE mainline == IsSet(s, "direct_mainline_commit") \/ IsSet(s, "direct_mainline_push")
             found == {"protected_branch_risk"} \cup On(mainline, {"direct_mainline_risk"})
  <2>1. Detected(85, "critical", found) \in GitFindings(s)
    BY <1>10 DEF GitFindings, On
  <2>2. found \subseteq D
    BY <1>4, <2>1, DetectedShows
  <2> QED
    BY <1>10, <2>2 DEF IsSet
<1>11. ASSUME M \cap {11, 12} # {}
       PROVE  "validation_failed" \in D /\ "validation_required" \in DOMAIN s
  <2>1. /\ SignalOf(s, "validation_status") = "failed"
        /\ IsSet(s, "validation_required")
    BY <1>11, DefaultMatches, MeetsValue, MeetsYes
  <2>2. ~IsCleared(s, "validation_required")
    BY <2>1, Zenon DEF IsSet, IsCleared
  <2> DEFINE failed == Finding(85, "critical", "reducible", {"validation_failed"}, FALSE)
             table == [failed  |-> failed,
                       not_run |-> Missing(65, "high", {"validation_missing"}),
                       stale   |-> Missing(60, "high", {"validation_stale"}),
                       running |-> Missing(35, "medium", {"validation_running"}),
                       unknown |-> Missing(50, "medium",
                         {IF SignalOf(s, "validation_scope") = "unknown"
                          THEN "validation_target_unclear" ELSE "validation_unknown"})]
  <2>3. Entry(table, "failed") = {failed}
    <3>1. "failed" \in DOMAIN table /\ table["failed"] = failed
      OBVIOUS
    <3> QED
      BY <3>1 DEF Entry
  <2>4. Entry(table, "failed") \subseteq ValidationFindings(s)
    BY <2>1, <2>2 DEF ValidationFindings, On
  <2>5. failed \in ValidationFindings(s)
    BY <2>3, <2>4
  <2>6. "validation_failed" \in failed.drivers
    BY DEF Finding
  <2> HIDE DEF failed
  <2>7. "validation_failed" \in DriversOf(ValidationFindings(s))
    BY <2>5, <2>6, FindingShows
  <2> QED
    BY <1>4, <2>1, <2>7 DEF IsSet
<1>12. ASSUME SignalOf(s, "environment_classification") = "production"
       PROVE  "production_environment_detected" \in D
  <2>1. Detected(80, "critical", {"production_environment_detected",
                                  "environment_risk_critical"}) \in EnvironmentFindings(s)
    BY <1>12 DEF EnvironmentFindings, Entry
  <2> QED
    BY <1>4, <2>1, DetectedShows
<1>13. ASSUME SignalOf(s, "landing_action_type") \in {"publish", "release"},
              SignalOf(s, "release_risk") = "critical"
       PROVE  "environment_risk_critical" \in D
  <2> DEFINE type == SignalOf(s, "landing_action_type")
             found == {"environment_risk_critical"}
                        \cup On(type = "release", {"release_surface_detected"})
                        \cup On(type = "publish", {"publish_surface_detected",
                                                   "package_publish_detected"})
  <2>1. Detected(80, "critical", found) \in EnvironmentFindings(s)
    BY <1>13 DEF EnvironmentFindings, On
  <2>2. found \subseteq D
    BY <1>4, <2>1, DetectedShows
  <2> QED
    BY <2>2
<1>14. CASE M \cap {2, 3, 7, 8} # {}
  <2>1. D \cap BlockingDrivers # {}
    BY <1>5, <1>6, <1>7, <1>14 DEF BlockingDrivers
  <2> QED
    BY <1>2, <2>1 DEF s
<1>15. CASE IsSet(s, "force_push") \/ IsSet(s, "hook_bypass")
  <2>1. D \cap BlockingDrivers # {}
    BY <1>8, <1>9, <1>15 DEF BlockingDrivers
  <2> QED
    BY <1>2, <2>1 DEF s
<1>16. CASE IsSet(s, "direct_mainline_push")
  BY <1>1, <1>3, <1>10, <1>16 DEF s
<1>17. CASE M \cap {11, 12} # {}
  BY <1>1, <1>3, <1>11, <1>17 DEF s
<1>18. CASE SignalOf(s, "environment_classification") = "production"
  <2>1. D \cap BlockingDrivers # {}
    BY <1>12, <1>18 DEF BlockingDrivers
  <2> QED
    BY <1>2, <2>1 DEF s
<1>19. CASE /\ SignalOf(s, "landing_action_type") \in {"publish", "release"}
            /\ SignalOf(s, "release_risk") = "critical"
  <2>1. D \cap BlockingDrivers # {}
    BY <1>13, <1>19 DEF BlockingDrivers
  <2> QED
    BY <1>2, <2>1 DEF s
<1>20. CASE M \cap {14, 15, 16, 19} # {}
  <2>1. 14 \in M => IsSet(s, "force_push")
    BY DefaultMatches, MeetsYes
  <2>2. 15 \in M => IsSet(s, "hook_bypass")
    BY DefaultMatches, MeetsYes
  <2>3. 16 \in M => IsSet(s, "direct_mainline_push")
    BY DefaultMatches, MeetsYes
  <2>4. 19 \in M => SignalOf(s, "landing_risk") = "critical"
    BY DefaultMatches, MeetsValue
  <2>5. \A x : x \in DOMAIN s /\ s[x] = TRUE => IsSet(s, x)
    BY Zenon DEF IsSet
  <2>6. 19 \in M => \/ IsSet(s, "force_push") \/ IsSet(s, "hook_bypass")
                    \/ IsSet(s, "direct_mainline_push")
                    \/ SignalOf(s, "environment_classification") = "production"
                    \/ /\ SignalOf(s, "landing_action_type") \in {"publish", "release"}
                       /\ SignalOf(s, "release_risk") = "critical"
    BY <1>1, <2>4, <2>5
  <2> HIDE DEF M
  <2> QED
    BY <1>15, <1>16, <1>18, <1>19, <1>20, <2>1, <2>2, <2>3, <2>6
<1>21. M \cap ({2, 3, 7, 8} \cup {11, 12} \cup {14, 15, 16, 19}) # {}
  BY DEF BlockRules, s
<1> QED
  BY <1>14, <1>17, <1>20, <1>21

-----------------------------------------------------------------------------
(* What reading settles *)

\* What reading changes of the signals of a file action.
ReadMarks ==
  FreshnessNames \cup {"related_tests_read", "context_completeness_score"}

\* Signals that reading at most tells apart.
Alike(s, t) ==
  \A x \in (DOMAIN s \cup DOMAIN t) \ ReadMarks :
    x \in DOMAIN s /\ x \in DOMAIN t /\ s[x] = t[x]

LEMMA AlikeJoin ==
  ASSUME NEW a, NEW b, NEW c, NEW d, Alike(a, b), Alike(c, d)
  PROVE  Alike(a ++ c, b ++ d)
  BY DEF Alike, ++

LEMMA AlikeSelf == \A a : Alike(a, a)
  BY DEF Alike

\* What is read of them otherwise is the same.
LEMMA AlikeReads ==
  ASSUME NEW s, NEW t, Alike(s, t), NEW x, x \notin ReadMarks
  PROVE  /\ x \in DOMAIN t <=> x \in DOMAIN s
         /\ SignalOf(t, x) = SignalOf(s, x)
         /\ IsSet(t, x) <=> IsSet(s, x)
         /\ IsCleared(t, x) <=> IsCleared(s, x)
         /\ \A n : IsBelow(t, x, n) <=> IsBelow(s, x, n)
<1>1. (x \in DOMAIN t <=> x \in DOMAIN s) /\ (x \in DOMAIN s => t[x] = s[x])
  BY DEF Alike
<1>2. SignalOf(t, x) = SignalOf(s, x)
  BY <1>1 DEF SignalOf
<1>3. IsSet(t, x) <=> IsSet(s, x)
  BY <1>1, Zenon DEF IsSet
<1>4. IsCleared(t, x) <=> IsCleared(s, x)
  BY <1>1, Zenon DEF IsCleared
<1>5. \A n : IsBelow(t, x, n) <=> IsBelow(s, x, n)
  BY <1>1 DEF IsBelow
<1> QED
  BY <1>1, <1>2, <1>3, <1>4, <1>5

\* The signals of a file action whose files are all read.
LEMMA ReadSignals ==
  ASSUME NEW p \in Proposals, NEW w \in World, IsFileAction(p), ~IsSecretPath(p),
         \A f \in FilesOf(p) : w.disk[f] # "absent"
  PROVE  LET v == [w EXCEPT !.obs = w.disk]
             s == Signals(p, w)
             t == Signals(p, v)
         IN /\ Alike(s, t)
            /\ ReadNames \subseteq DOMAIN t
            /\ t["target_file_freshness"] = "fresh"
            /\ t["target_file_read_recently"] = TRUE
            /\ DOMAIN t \cap ContextNames = IF p.type = "delete_file" THEN {} ELSE ContextNames
            /\ p.type # "delete_file" =>
                 /\ t["related_tests_read"] = t["related_tests_found"]
                 /\ t["context_completeness_score"] = 100
<1> DEFINE v == [w EXCEPT !.obs = w.disk]
           s == Signals(p, w)
           t == Signals(p, v)
           d == [delegation_provenance |-> IF p.named THEN "partial" ELSE "unknown"]
           e == [landing_action |-> FALSE, landing_risk |-> "low"]
           a == FileRiskSignals(p)
<1>1. v.disk = w.disk /\ v.obs = w.disk
  BY DEF World
<1>2. FilesOf(p) = {p.target} \cup p.tests /\ FilesOf(p) \subseteq Files
  BY FileProposalsAssumption DEF FilesOf, Files
<1>3. \A f \in FilesOf(p) : Freshness(v.obs[f], v.disk[f]) = "fresh"
  <2> SUFFICES ASSUME NEW f \in FilesOf(p) PROVE Freshness(v.obs[f], v.disk[f]) = "fresh"
    OBVIOUS
  <2>1. w.disk[f] \in Contents
    BY <1>2 DEF World
  <2> QED
    BY <1>1, <2>1, ContentsAreNoMarks DEF Freshness
<1>4. ExistingTests(p, v) = ExistingTests(p, w) /\ ExistingTests(p, w) \subseteq FilesOf(p)
  BY <1>1, <1>2 DEF ExistingTests
<1>5. Alike(ReadBeforeWriteSignals(p, w), ReadBeforeWriteSignals(p, v))
  <2>1. DOMAIN ReadBeforeWriteSignals(p, w) \subseteq ReadMarks
    BY FreshnessDomain DEF ReadMarks
  <2>2. DOMAIN ReadBeforeWriteSignals(p, v) \subseteq ReadMarks
    BY FreshnessDomain DEF ReadMarks
  <2> QED
    BY <2>1, <2>2 DEF Alike
<1>6. Alike(RelatedContextSignals(p, w), RelatedContextSignals(p, v))
  <2>1. CASE p.type = "delete_file"
    BY <2>1 DEF RelatedContextSignals, Alike
  <2>2. CASE p.type # "delete_file"
    <3> DEFINE g == RelatedContextSignals(p, w)
               h == RelatedContextSignals(p, v)
    <3>1. DOMAIN g = ContextNames /\ DOMAIN h = ContextNames
      BY <2>2, ContextDomain
    <3>2. /\ g["related_tests_found"] = h["related_tests_found"]
          /\ g["related_test_paths"] = h["related_test_paths"]
      BY <1>4, <2>2 DEF RelatedContextSignals
    <3> HIDE DEF g, h
    <3>3. Alike(g, h)
      BY <3>1, <3>2 DEF Alike, ContextNames, ReadMarks
    <3> QED
      BY <3>3 DEF g, h
  <2> QED
    BY <2>1, <2>2
<1>7. Alike(s, t)
  <2>1. /\ s = d ++ (((a ++ ReadBeforeWriteSignals(p, w)) ++ RelatedContextSignals(p, w)) ++ e)
        /\ t = d ++ (((a ++ ReadBeforeWriteSignals(p, v)) ++ RelatedContextSignals(p, v)) ++ e)
    BY DEF Signals, FileSignals
  <2> HIDE DEF s, t, d, e, a, v
  <2>2. Alike(a ++ ReadBeforeWriteSignals(p, w), a ++ ReadBeforeWriteSignals(p, v))
    BY <1>5, AlikeSelf, AlikeJoin
  <2>3. Alike((a ++ ReadBeforeWriteSignals(p, w)) ++ RelatedContextSignals(p, w),
              (a ++ ReadBeforeWriteSignals(p, v)) ++ RelatedContextSignals(p, v))
    BY <1>6, <2>2, AlikeJoin
  <2>4. Alike(((a ++ ReadBeforeWriteSignals(p, w)) ++ RelatedContextSignals(p, w)) ++ e,
              ((a ++ ReadBeforeWriteSignals(p, v)) ++ RelatedContextSignals(p, v)) ++ e)
    BY <2>3, AlikeSelf, AlikeJoin
  <2> QED
    BY <2>1, <2>4, AlikeSelf, AlikeJoin
<1>8. TargetFreshness(p, v) = "fresh"
  BY <1>2, <1>3 DEF TargetFreshness
<1> HIDE DEF v
<1>9. /\ ReadNames \subseteq DOMAIN t
      /\ DOMAIN t \cap ContextNames = IF p.type = "delete_file" THEN {} ELSE ContextNames
      /\ \A x \in ReadNames : t[x] = ReadBeforeWriteSignals(p, v)[x]
      /\ p.type # "delete_file" =>
           \A x \in ContextNames : t[x] = RelatedContextSignals(p, v)[x]
  BY FileValues
<1>10. ReadBeforeWriteSignals(p, v)["target_file_freshness"] = "fresh"
  BY <1>8, ReadBeforeWriteFacts DEF TargetFreshness
<1>11. ReadBeforeWriteSignals(p, v)["target_file_read_recently"] = TRUE
  <2>1. ReadBeforeWriteSignals(p, v)["target_file_read_recently"]
          = ((IF IsSecretPath(p) THEN "unknown"
              ELSE Freshness(v.obs[p.target], v.disk[p.target])) = "fresh")
    BY DEF ReadBeforeWriteSignals, When, ++
  <2> QED
    BY <1>8, <2>1 DEF TargetFreshness
<1>12. ASSUME p.type # "delete_file"
       PROVE  LET c == RelatedContextSignals(p, v) IN
              /\ c["related_tests_read"] = c["related_tests_found"]
              /\ c["context_completeness_score"] = 100
  <2> DEFINE found == ExistingTests(p, v)
  <2>1. (\E x \in found : IsFresh(x, v)) = (found # {})
    BY <1>3, <1>4 DEF IsFresh
  <2>2. RelatedContextSignals(p, v)["context_completeness_score"] = 100
    <3>1. (\E x \in found : IsFresh(x, v)) <=> found # {}
      BY <2>1
    <3> QED
      BY <1>12, <3>1, RelatedContextFacts
  <2>3. RelatedContextSignals(p, v)["related_tests_read"] = (\E x \in found : IsFresh(x, v))
    BY <1>12 DEF RelatedContextSignals
  <2>4. RelatedContextSignals(p, v)["related_tests_found"] = (found # {})
    BY <1>12 DEF RelatedContextSignals
  <2> QED
    BY <2>1, <2>2, <2>3, <2>4
<1> HIDE DEF s, t
<1>13. {"target_file_freshness", "target_file_read_recently"} \subseteq ReadNames
       /\ {"related_tests_found", "related_tests_read", "context_completeness_score"}
            \subseteq ContextNames
  BY DEF ReadNames, ContextNames
<1> QED
  BY <1>7, <1>9, <1>10, <1>11, <1>12, <1>13 DEF s, t, v

\* Nothing is left to read.
AllIsRead(t) ==
  /\ SignalOf(t, "target_file_freshness") = "fresh"
  /\ IsSet(t, "target_file_read_recently") /\ ~IsCleared(t, "target_file_read_recently")
  /\ ~(IsSet(t, "related_tests_found") /\ IsCleared(t, "related_tests_read"))
  /\ ~IsBelow(t, "context_completeness_score", 50)
  /\ ~IsBelow(t, "context_completeness_score", 70)

\* The drivers that only reading settles.
UnreadDrivers ==
  {"target_file_not_observed", "target_file_freshness_unknown", "target_file_stale",
   "target_file_hash_changed", "target_file_missing", "related_tests_not_observed",
   "context_completeness_low", "context_completeness_medium",
   "sensitive_context_missing", "sensitive_surface_context_incomplete"}

LEMMA ReadingMarksAre ==
  ReadMarks = {"target_file_freshness", "target_file_read_recently", "metadata_only",
               "file_changed_since_read", "last_read_hash", "related_tests_read",
               "context_completeness_score"}
  BY DEF ReadMarks, FreshnessNames, ReadNames

\* What does not look at what was read finds the same.
LEMMA AlikeFindings ==
  ASSUME NEW s, NEW t, NEW b, Alike(s, t)
  PROVE  /\ ValidationFindings(t) = ValidationFindings(s)
         /\ CommandFindings(t) = CommandFindings(s)
         /\ GitFindings(t) = GitFindings(s)
         /\ EnvironmentFindings(t) = EnvironmentFindings(s)
         /\ BoundaryFindings(t) = BoundaryFindings(s)
         /\ ProvenanceFindings(t) = ProvenanceFindings(s)
         /\ BudgetFindings(t, b) = BudgetFindings(s, b)
<1>1. \A x : x \notin ReadMarks =>
        /\ x \in DOMAIN t <=> x \in DOMAIN s
        /\ SignalOf(t, x) = SignalOf(s, x)
        /\ IsSet(t, x) <=> IsSet(s, x)
        /\ IsCleared(t, x) <=> IsCleared(s, x)
  BY AlikeReads
<1>2. ValidationFindings(t) = ValidationFindings(s)
  <2>1. /\ IsCleared(t, "validation_required") <=> IsCleared(s, "validation_required")
        /\ IsSet(t, "requires_validation") <=> IsSet(s, "requires_validation")
        /\ SignalOf(t, "validation_status") = SignalOf(s, "validation_status")
        /\ SignalOf(t, "validation_scope") = SignalOf(s, "validation_scope")
    BY <1>1, ReadingMarksAre
  <2> QED
    BY <2>1 DEF ValidationFindings, On
<1>3. CommandFindings(t) = CommandFindings(s)
  <2>1. /\ IsSet(t, "pipe_to_shell") <=> IsSet(s, "pipe_to_shell")
        /\ IsSet(t, "uses_sudo") <=> IsSet(s, "uses_sudo")
        /\ IsSet(t, "destructive_operation") <=> IsSet(s, "destructive_operation")
        /\ IsSet(t, "mutates_cloud") <=> IsSet(s, "mutates_cloud")
        /\ IsSet(t, "network_exposure") <=> IsSet(s, "network_exposure")
        /\ SignalOf(t, "destructive_severity") = SignalOf(s, "destructive_severity")
        /\ SignalOf(t, "command_risk_score") = SignalOf(s, "command_risk_score")
        /\ SignalOf(t, "deployment_risk") = SignalOf(s, "deployment_risk")
        /\ SignalOf(t, "landing_action_type") = SignalOf(s, "landing_action_type")
        /\ SignalOf(t, "command_category") = SignalOf(s, "command_category")
        /\ "deployment_risk" \in DOMAIN t <=> "deployment_risk" \in DOMAIN s
    BY <1>1, ReadingMarksAre
  <2> DEFINE critical(u) == "critical" \in {SignalOf(u, "destructive_severity"),
                                           SignalOf(u, "command_risk_score")}
             first(u) == Entry([critical |-> Detected(85, "critical", {"command_risk_critical"}),
                                high     |-> Detected(65, "high", {"command_risk_high"}),
                                unknown  |-> Missing(45, "medium",
                                                     {"command_classification_unknown"})],
                               SignalOf(u, "command_risk_score"))
             second(u) == On(IsSet(u, "pipe_to_shell"),
                             {Detected(85, "critical", {"pipe_to_shell_detected"})})
             third(u) == On(IsSet(u, "uses_sudo"),
                            {Detected(65, "high", {"privileged_command_detected"})})
             fourth(u) == On(IsSet(u, "destructive_operation"),
                             {Detected(IF critical(u) THEN 85 ELSE 65,
                                       IF critical(u) THEN "critical" ELSE "high",
                                       {"destructive_command_detected"})})
             fifth(u) == On(SignalOf(u, "landing_action_type") = "deploy"
                              \/ "deployment_risk" \in DOMAIN u \/ IsSet(u, "mutates_cloud"),
                            {Finding(RiskScore(SignalOf(u, "deployment_risk"), 55),
                                     RiskImpact(SignalOf(u, "deployment_risk")), "reducible",
                                     {"deployment_command_detected"}, FALSE)})
             sixth(u) == On(SignalOf(u, "command_category") = "local_write"
                              /\ IsSet(u, "network_exposure"),
                            {Missing(55, "high", {"package_script_unknown",
                                                  "package_script_classification_missing"})})
             all(u) == ((((first(u) \cup second(u)) \cup third(u)) \cup fourth(u))
                          \cup fifth(u)) \cup sixth(u)
  <2>2. CommandFindings(s) = all(s) /\ CommandFindings(t) = all(t)
    BY Zenon DEF CommandFindings
  <2>3. first(t) = first(s)
    BY <2>1
  <2>4. second(t) = second(s) /\ third(t) = third(s)
    BY <2>1 DEF On
  <2>5. fourth(t) = fourth(s)
    BY <2>1 DEF On
  <2>6. fifth(t) = fifth(s)
    BY <2>1 DEF On
  <2>7. sixth(t) = sixth(s)
    BY <2>1 DEF On
  <2> HIDE DEF first, second, third, fourth, fifth, sixth
  <2> QED
    BY <2>2, <2>3, <2>4, <2>5, <2>6, <2>7
<1>4. GitFindings(t) = GitFindings(s)
  <2>1. /\ IsSet(t, "direct_mainline_commit") <=> IsSet(s, "direct_mainline_commit")
        /\ IsSet(t, "direct_mainline_push") <=> IsSet(s, "direct_mainline_push")
        /\ IsSet(t, "force_push") <=> IsSet(s, "force_push")
        /\ IsSet(t, "hook_bypass") <=> IsSet(s, "hook_bypass")
        /\ IsSet(t, "protected_branch") <=> IsSet(s, "protected_branch")
        /\ IsSet(t, "landing_action") <=> IsSet(s, "landing_action")
        /\ IsSet(t, "is_dirty_worktree") <=> IsSet(s, "is_dirty_worktree")
        /\ SignalOf(t, "landing_risk") = SignalOf(s, "landing_risk")
        /\ SignalOf(t, "branch_risk") = SignalOf(s, "branch_risk")
    BY <1>1, ReadingMarksAre
  <2> DEFINE mainline(u) == IsSet(u, "direct_mainline_commit")
                              \/ IsSet(u, "direct_mainline_push")
             first(u) == On(IsSet(u, "force_push"),
                            {Detected(85, "critical", {"force_push_detected"})})
             second(u) == On(IsSet(u, "hook_bypass"),
                             {Detected(75, "high", {"hook_bypass_detected"})})
             third(u) == On(IsSet(u, "protected_branch") \/ mainline(u),
                            {Detected(IF IsSet(u, "direct_mainline_push") THEN 85 ELSE 65,
                                      IF IsSet(u, "direct_mainline_push") THEN "critical"
                                                                          ELSE "high",
                                      {"protected_branch_risk"} \cup
                                        On(mainline(u), {"direct_mainline_risk"}))})
             fourth(u) == On(IsSet(u, "landing_action"),
                             {Detected(IF SignalOf(u, "landing_risk") = "critical" THEN 85
                                       ELSE RiskScore(SignalOf(u, "landing_risk"), 35),
                                       RiskImpact(SignalOf(u, "landing_risk")),
                                       {"landing_action_detected"})})
             fifth(u) == On(IsSet(u, "is_dirty_worktree"),
                            {Finding(35, "medium", "reducible", {"dirty_worktree_detected"},
                                     FALSE)})
             sixth(u) == Entry([critical |-> Detected(85, "critical",
                                                      {"git_workflow_risk_critical"}),
                                high     |-> Detected(65, "high", {"git_workflow_risk_high"}),
                                unknown  |-> Missing(55, "medium", {"git_state_unknown"})],
                               SignalOf(u, "branch_risk"))
             all(u) == ((((first(u) \cup second(u)) \cup third(u)) \cup fourth(u))
                          \cup fifth(u)) \cup sixth(u)
  <2>2. GitFindings(s) = all(s) /\ GitFindings(t) = all(t)
    BY Zenon DEF GitFindings
  <2>3. first(t) = first(s) /\ second(t) = second(s)
    BY <2>1 DEF On
  <2>4. third(t) = third(s)
    BY <2>1 DEF On
  <2>5. fourth(t) = fourth(s) /\ fifth(t) = fifth(s)
    BY <2>1 DEF On
  <2>6. sixth(t) = sixth(s)
    BY <2>1
  <2> HIDE DEF first, second, third, fourth, fifth, sixth
  <2> QED
    BY <2>2, <2>3, <2>4, <2>5, <2>6
<1>5. EnvironmentFindings(t) = EnvironmentFindings(s)
  <2>1. /\ IsSet(t, "landing_action") <=> IsSet(s, "landing_action")
        /\ \A x \in {"landing_action_type", "environment_classification", "deployment_risk",
                     "release_risk"} : SignalOf(t, x) = SignalOf(s, x)
    BY <1>1, ReadingMarksAre
  <2> QED
    BY <2>1 DEF EnvironmentFindings, On
<1>6. BoundaryFindings(t) = BoundaryFindings(s)
  <2>1. /\ IsSet(t, "workspace_boundary_violation") <=> IsSet(s, "workspace_boundary_violation")
        /\ SignalOf(t, "workspace_boundary_status") = SignalOf(s, "workspace_boundary_status")
    BY <1>1, ReadingMarksAre
  <2> QED
    BY <2>1 DEF BoundaryFindings
<1>7. ProvenanceFindings(t) = ProvenanceFindings(s)
  <2>1. SignalOf(t, "delegation_provenance") = SignalOf(s, "delegation_provenance")
    BY <1>1, ReadingMarksAre
  <2> QED
    BY <2>1 DEF ProvenanceFindings
<1>8. BudgetFindings(t, b) = BudgetFindings(s, b)
  <2>1. SignalOf(t, "autonomy_budget_status") = SignalOf(s, "autonomy_budget_status")
    BY <1>1, ReadingMarksAre
  <2> QED
    BY <2>1 DEF BudgetFindings
<1> QED
  BY <1>2, <1>3, <1>4, <1>5, <1>6, <1>7, <1>8

\* Of a destructive operation reading may tell how to recover, and nothing worse.
LEMMA AlikeRecovery ==
  ASSUME NEW s, NEW t, Alike(s, t), AllIsRead(t)
  PROVE  LET R == DriversOf(RecoveryFindings(s))
             Q == DriversOf(RecoveryFindings(t))
         IN Q \subseteq R /\ R \ Q \subseteq RecoveryUnknownDrivers
<1>1. \A x : x \notin ReadMarks =>
        /\ x \in DOMAIN t <=> x \in DOMAIN s
        /\ SignalOf(t, x) = SignalOf(s, x)
        /\ IsSet(t, x) <=> IsSet(s, x)
        /\ \A n : IsBelow(t, x, n) <=> IsBelow(s, x, n)
  BY AlikeReads
<1>2. HasBoundaryEvidence(t) <=> HasBoundaryEvidence(s)
  <2>1. /\ IsSet(t, "workspace_boundary_violation") <=> IsSet(s, "workspace_boundary_violation")
        /\ SignalOf(t, "workspace_boundary_status") = SignalOf(s, "workspace_boundary_status")
    BY <1>1, ReadingMarksAre
  <2> QED
    BY <2>1 DEF HasBoundaryEvidence
<1>3. IsCriticalRecoveryRisk(t) <=> IsCriticalRecoveryRisk(s)
  <2>1. /\ IsSet(t, "workspace_boundary_violation") <=> IsSet(s, "workspace_boundary_violation")
        /\ SignalOf(t, "destructive_severity") = SignalOf(s, "destructive_severity")
        /\ SignalOf(t, "command_risk_score") = SignalOf(s, "command_risk_score")
        /\ "destructive_score" \in DOMAIN t <=> "destructive_score" \in DOMAIN s
        /\ IsBelow(t, "destructive_score", 80) <=> IsBelow(s, "destructive_score", 80)
    BY <1>1, ReadingMarksAre
  <2> QED
    BY <2>1 DEF IsCriticalRecoveryRisk
<1>4. HasRecoveryEvidence(t)
  BY DEF AllIsRead, HasRecoveryEvidence
<1>5. /\ IsSet(t, "destructive_operation") <=> IsSet(s, "destructive_operation")
      /\ IsSet(t, "validation_required") <=> IsSet(s, "validation_required")
      /\ IsSet(t, "requires_validation") <=> IsSet(s, "requires_validation")
      /\ SignalOf(t, "validation_status") = SignalOf(s, "validation_status")
      /\ SignalOf(t, "workspace_boundary_status") = SignalOf(s, "workspace_boundary_status")
  BY <1>1, ReadingMarksAre
<1> DEFINE unknown == {"recovery_state_unknown", "rollback_confidence_unknown",
                       "destructive_operation_recovery_unknown",
                       "recovery_checkpoint_missing", "git_tracking_unknown"}
           shared == On(~HasBoundaryEvidence(s)
                          /\ SignalOf(s, "workspace_boundary_status") = "unknown",
                        {Finding(65, "high", "partially_reducible",
                                 {"workspace_recovery_boundary_unknown"}, TRUE)})
                     \cup On(SignalOf(s, "validation_status") # "passed"
                               /\ (IsSet(s, "validation_required")
                                     \/ IsSet(s, "requires_validation")),
                             {Missing(55, "medium", {"validation_recovery_evidence_missing"})})
           g(u) == Finding(IF IsCriticalRecoveryRisk(u) THEN 85
                           ELSE IF HasRecoveryEvidence(u) THEN 45 ELSE 65,
                           IF IsCriticalRecoveryRisk(u) THEN "critical" ELSE "high",
                           "partially_reducible",
                           On(IsCriticalRecoveryRisk(u), {"irreversible_operation_risk"})
                             \cup On(~HasRecoveryEvidence(u), unknown),
                           ~HasRecoveryEvidence(u))
<1>6. /\ RecoveryFindings(s) = On(IsSet(s, "destructive_operation"), shared \cup {g(s)})
      /\ RecoveryFindings(t) = On(IsSet(s, "destructive_operation"), shared \cup {g(t)})
  <2>1. RecoveryFindings(s) = On(IsSet(s, "destructive_operation"), shared \cup {g(s)})
    BY Zenon DEF RecoveryFindings
  <2> DEFINE first(u) == On(~HasBoundaryEvidence(u)
                              /\ SignalOf(u, "workspace_boundary_status") = "unknown",
                            {Finding(65, "high", "partially_reducible",
                                     {"workspace_recovery_boundary_unknown"}, TRUE)})
             second(u) == On(SignalOf(u, "validation_status") # "passed"
                               /\ (IsSet(u, "validation_required")
                                     \/ IsSet(u, "requires_validation")),
                             {Missing(55, "medium", {"validation_recovery_evidence_missing"})})
  <2>2. first(t) = first(s) /\ second(t) = second(s)
    BY <1>2, <1>5 DEF On
  <2>3. RecoveryFindings(t)
          = On(IsSet(t, "destructive_operation"), (first(t) \cup second(t)) \cup {g(t)})
    BY Zenon DEF RecoveryFindings
  <2>4. shared = first(s) \cup second(s)
    OBVIOUS
  <2> HIDE DEF first, second, g, shared
  <2>5. RecoveryFindings(t) = On(IsSet(t, "destructive_operation"), shared \cup {g(t)})
    BY <2>2, <2>3, <2>4
  <2> QED
    BY <1>5, <2>1, <2>5 DEF On
<1>7. /\ g(t).drivers \subseteq g(s).drivers
      /\ g(s).drivers \ g(t).drivers \subseteq unknown
  BY <1>3, <1>4 DEF Finding, On
<1>8. unknown \subseteq RecoveryUnknownDrivers
  BY DEF RecoveryUnknownDrivers
<1> HIDE DEF g, shared, unknown
<1> QED
  BY <1>6, <1>7, <1>8 DEF DriversOf, On

\* The drivers of a sensitive surface that may be reviewed.
LEMMA ReviewDrivers ==
  ASSUME NEW s
  PROVE  DriversOf(ReviewFindings(s)) =
           On(HasMissingContext(s),
              {"sensitive_context_missing", "sensitive_surface_context_incomplete"})
           \cup On(~HasMissingContext(s) /\ HasAvailableContext(s),
                   {"sensitive_change_review_required"})
           \cup On(HasMissingValidation(s), {"sensitive_validation_missing"})
<1> DEFINE f == Finding(70, "high", "partially_reducible",
                        {"sensitive_context_missing", "sensitive_surface_context_incomplete"},
                        TRUE)
           g == Detected(65, "high", {"sensitive_change_review_required"})
           h == Finding(70, "high", "partially_reducible",
                        {"sensitive_validation_missing"}, TRUE)
<1>1. /\ f.drivers = {"sensitive_context_missing", "sensitive_surface_context_incomplete"}
      /\ g.drivers = {"sensitive_change_review_required"}
      /\ h.drivers = {"sensitive_validation_missing"}
  BY DEF Detected, Finding
<1>2. ReviewFindings(s) = (On(HasMissingContext(s), {f})
                             \cup On(~HasMissingContext(s) /\ HasAvailableContext(s), {g}))
                          \cup On(HasMissingValidation(s), {h})
  BY DEF ReviewFindings
<1> HIDE DEF f, g, h
<1>3. \A F, G : DriversOf(F \cup G) = DriversOf(F) \cup DriversOf(G)
  BY DEF DriversOf
<1>4. /\ DriversOf({f}) = f.drivers /\ DriversOf({g}) = g.drivers
      /\ DriversOf({h}) = h.drivers /\ DriversOf({}) = {}
  BY DEF DriversOf
<1>5. DriversOf(On(HasMissingContext(s), {f})) = On(HasMissingContext(s), f.drivers)
  BY <1>4 DEF On
<1>6. DriversOf(On(~HasMissingContext(s) /\ HasAvailableContext(s), {g}))
        = On(~HasMissingContext(s) /\ HasAvailableContext(s), g.drivers)
  BY <1>4 DEF On
<1>7. DriversOf(On(HasMissingValidation(s), {h})) = On(HasMissingValidation(s), h.drivers)
  BY <1>4 DEF On
<1> DEFINE F == On(HasMissingContext(s), {f})
           G == On(~HasMissingContext(s) /\ HasAvailableContext(s), {g})
           H == On(HasMissingValidation(s), {h})
<1>8. DriversOf(F \cup G) = DriversOf(F) \cup DriversOf(G)
  BY <1>3
<1>9. DriversOf((F \cup G) \cup H) = DriversOf(F \cup G) \cup DriversOf(H)
  BY <1>3
<1>10. DriversOf(ReviewFindings(s)) = (DriversOf(F) \cup DriversOf(G)) \cup DriversOf(H)
  BY <1>2, <1>8, <1>9
<1> QED
  BY <1>1, <1>5, <1>6, <1>7, <1>10

\* A sensitive change is ready for review when all is read, unless it holds a secret.
LEMMA AlikeSensitivity ==
  ASSUME NEW s, NEW t, Alike(s, t), AllIsRead(t)
  PROVE  LET R == DriversOf(SensitivityFindings(s))
             Q == DriversOf(SensitivityFindings(t))
             review == "sensitive_change_review_required"
         IN /\ HasSecretSurface(t) <=> HasSecretSurface(s)
            /\ Q \subseteq (R \ UnreadDrivers) \cup {review}
            /\ R \ Q \subseteq UnreadDrivers
            /\ Q \cap SensitiveReviewDrivers # {} /\ ~HasSecretSurface(s) => review \in Q
<1>1. \A x : x \notin ReadMarks =>
        /\ SignalOf(t, x) = SignalOf(s, x)
        /\ IsSet(t, x) <=> IsSet(s, x)
  BY AlikeReads
<1>2. HasSecretPattern(t) <=> HasSecretPattern(s)
  <2>1. \A x \in SecretFlags : IsSet(t, x) <=> IsSet(s, x)
    BY <1>1, ReadingMarksAre DEF SecretFlags
  <2> QED
    BY <2>1 DEF HasSecretPattern
<1>3. /\ SignalOf(t, "secret_touch") = SignalOf(s, "secret_touch")
      /\ SignalOf(t, "path_sensitivity") = SignalOf(s, "path_sensitivity")
      /\ SignalOf(t, "matched_sensitive_path_level") = SignalOf(s, "matched_sensitive_path_level")
      /\ SignalOf(t, "validation_status") = SignalOf(s, "validation_status")
      /\ IsSet(t, "secret_path_match") <=> IsSet(s, "secret_path_match")
      /\ IsSet(t, "validation_required") <=> IsSet(s, "validation_required")
      /\ IsSet(t, "requires_validation") <=> IsSet(s, "requires_validation")
  BY <1>1, ReadingMarksAre
<1>4. /\ HasSecretSurface(t) <=> HasSecretSurface(s)
      /\ HasReviewableSurface(t) <=> HasReviewableSurface(s)
      /\ HasMissingValidation(t) <=> HasMissingValidation(s)
  BY <1>2, <1>3 DEF HasSecretSurface, HasReviewableSurface, HasMissingValidation
<1>5. ~HasMissingContext(t) /\ HasAvailableContext(t)
  BY DEF AllIsRead, HasMissingContext, HasAvailableContext
<1> DEFINE surface == {"sensitive_path_detected", "sensitive_surface_detected"}
           B == Entry([critical |-> Detected(75, "critical", surface),
                       high     |-> Detected(60, "high", surface)],
                      SignalOf(s, "path_sensitivity"))
                \cup On(IsSet(s, "secret_path_match"),
                        {Detected(85, "critical", {"secret_path_detected"})})
                \cup On(HasSecretPattern(s),
                        {Detected(85, "critical", {"secret_pattern_detected"})})
                \cup Entry([confirmed |-> Detected(85, "critical", {"secret_material_detected"}),
                            probable  |-> Detected(75, "critical", {"secret_material_detected"}),
                            possible  |-> Finding(45, "high", "reducible",
                                                  {"secret_material_possible"}, FALSE)],
                           SignalOf(s, "secret_touch"))
           open == HasReviewableSurface(s) /\ ~HasSecretSurface(s)
<1>6. /\ SensitivityFindings(s) = B \cup On(open, ReviewFindings(s))
      /\ SensitivityFindings(t) = B \cup On(open, ReviewFindings(t))
  BY <1>2, <1>3, <1>4 DEF SensitivityFindings, On
<1>7. DriversOf(B) \subseteq surface \cup SecretDrivers \cup {"secret_material_possible"}
  BY DEF DriversOf, Entry, On, Detected, Finding, SecretDrivers
<1>8. DriversOf(B) \cap surface # {} => HasReviewableSurface(s)
  <2>1. ASSUME ~HasReviewableSurface(s) PROVE DriversOf(B) \cap surface = {}
    <3>1. SignalOf(s, "path_sensitivity") \notin {"critical", "high"}
      BY <2>1 DEF HasReviewableSurface, High
    <3> QED
      BY <3>1 DEF DriversOf, Entry, On, Detected, Finding
  <2> QED
    BY <2>1
<1>9. DriversOf(ReviewFindings(t))
        = {"sensitive_change_review_required"}
            \cup On(HasMissingValidation(s), {"sensitive_validation_missing"})
  BY <1>4, <1>5, ReviewDrivers DEF On
<1>10. /\ On(HasMissingValidation(s), {"sensitive_validation_missing"})
            \subseteq DriversOf(ReviewFindings(s))
       /\ DriversOf(ReviewFindings(s))
            \subseteq {"sensitive_context_missing", "sensitive_surface_context_incomplete",
                       "sensitive_change_review_required"}
                      \cup On(HasMissingValidation(s), {"sensitive_validation_missing"})
  BY ReviewDrivers DEF On
<1> HIDE DEF B
<1>11. /\ DriversOf(SensitivityFindings(s))
            = DriversOf(B) \cup On(open, DriversOf(ReviewFindings(s)))
       /\ DriversOf(SensitivityFindings(t))
            = DriversOf(B) \cup On(open, DriversOf(ReviewFindings(t)))
  BY <1>6 DEF DriversOf, On
<1>12. DriversOf(B) \cap UnreadDrivers = {}
  BY <1>7 DEF UnreadDrivers, SecretDrivers
<1>13. "sensitive_validation_missing" \notin UnreadDrivers
  BY DEF UnreadDrivers
<1>14. {"sensitive_context_missing", "sensitive_surface_context_incomplete"} \subseteq UnreadDrivers
  BY DEF UnreadDrivers
<1>15. surface = SensitiveReviewDrivers
  BY DEF SensitiveReviewDrivers
<1>16. DriversOf(ReviewFindings(t)) \cap surface = {}
  BY <1>9 DEF On
<1> HIDE DEF surface
<1>17. DriversOf(SensitivityFindings(t))
         \subseteq (DriversOf(SensitivityFindings(s)) \ UnreadDrivers)
                     \cup {"sensitive_change_review_required"}
  BY <1>9, <1>10, <1>11, <1>12, <1>13 DEF On
<1>18. DriversOf(SensitivityFindings(s)) \ DriversOf(SensitivityFindings(t)) \subseteq UnreadDrivers
  BY <1>9, <1>10, <1>11, <1>14 DEF On
<1>19. ASSUME DriversOf(SensitivityFindings(t)) \cap SensitiveReviewDrivers # {},
              ~HasSecretSurface(s)
       PROVE  "sensitive_change_review_required" \in DriversOf(SensitivityFindings(t))
  <2>1. HasReviewableSurface(s)
    BY <1>8, <1>11, <1>15, <1>16, <1>19 DEF On
  <2> QED
    BY <1>9, <1>11, <1>19, <2>1 DEF On
<1> QED
  BY <1>4, <1>17, <1>18, <1>19

\* What reading makes of a profile: the drivers it settles go, and a sensitive change
\* is ready for review.
LEMMA ReadProfile ==
  ASSUME NEW s, NEW t, NEW b, Alike(s, t), AllIsRead(t)
  PROVE  LET D == DriversOf(Profile(s, b))
             E == DriversOf(Profile(t, b))
             review == "sensitive_change_review_required"
         IN /\ E \subseteq (D \ UnreadDrivers) \cup {review}
            /\ D \ E \subseteq UnreadDrivers \cup RecoveryUnknownDrivers
            /\ E \cap SensitiveReviewDrivers # {} /\ D \cap SecretDrivers = {} => review \in E
<1> DEFINE D == DriversOf(Profile(s, b))
           E == DriversOf(Profile(t, b))
           review == "sensitive_change_review_required"
           rest(u) == DriversOf(ValidationFindings(u)) \cup DriversOf(CommandFindings(u))
                        \cup DriversOf(BoundaryFindings(u)) \cup DriversOf(GitFindings(u))
                        \cup DriversOf(EnvironmentFindings(u))
                        \cup DriversOf(ProvenanceFindings(u)) \cup TrackedDrivers(u, b)
           unread(u) == DriversOf(ContextFindings(u)) \cup DriversOf(FreshnessFindings(u))
           sensitive(u) == DriversOf(SensitivityFindings(u))
           recovery(u) == DriversOf(RecoveryFindings(u))
<1>1. /\ D = unread(s) \cup rest(s) \cup sensitive(s) \cup recovery(s)
      /\ E = unread(t) \cup rest(t) \cup sensitive(t) \cup recovery(t)
  BY ProfileDrivers DEF SignalDrivers
<1>2. rest(t) = rest(s)
  BY AlikeFindings DEF TrackedDrivers
<1>3. unread(t) = {}
  <2>1. ContextFindings(t) = {}
    BY DEF AllIsRead, ContextFindings, On
  <2>2. FreshnessFindings(t) = {}
    BY DEF AllIsRead, FreshnessFindings, Entry
  <2> QED
    BY <2>1, <2>2 DEF DriversOf
<1>4. unread(s) \subseteq UnreadDrivers
  BY ContextDrivers, FreshnessDrivers DEF UnreadDrivers
<1>5. rest(s) \cap (UnreadDrivers \cup SensitiveReviewDrivers) = {}
  <2>1. /\ DriversOf(ValidationFindings(s)) \cap (UnreadDrivers \cup SensitiveReviewDrivers) = {}
        /\ DriversOf(BoundaryFindings(s)) \cap (UnreadDrivers \cup SensitiveReviewDrivers) = {}
    BY ValidationDrivers, BoundaryDrivers DEF UnreadDrivers, SensitiveReviewDrivers
  <2>2. DriversOf(CommandFindings(s)) \cap (UnreadDrivers \cup SensitiveReviewDrivers) = {}
    BY CommandDrivers DEF UnreadDrivers, SensitiveReviewDrivers
  <2>3. DriversOf(GitFindings(s)) \cap (UnreadDrivers \cup SensitiveReviewDrivers) = {}
    BY GitDrivers DEF UnreadDrivers, SensitiveReviewDrivers
  <2>4. DriversOf(EnvironmentFindings(s)) \cap (UnreadDrivers \cup SensitiveReviewDrivers) = {}
    BY EnvironmentDrivers DEF UnreadDrivers, SensitiveReviewDrivers
  <2>5. DriversOf(ProvenanceFindings(s)) \cap (UnreadDrivers \cup SensitiveReviewDrivers) = {}
    BY ProvenanceDrivers DEF UnreadDrivers, SensitiveReviewDrivers
  <2>6. DriversOf(BudgetFindings(s, b)) \cap (UnreadDrivers \cup SensitiveReviewDrivers) = {}
    BY BudgetFindingsDrivers DEF UnreadDrivers, SensitiveReviewDrivers
  <2>7. DriversOf(ProgressFindings(b)) \cap (UnreadDrivers \cup SensitiveReviewDrivers) = {}
    BY ProgressDrivers DEF UnreadDrivers, SensitiveReviewDrivers
  <2> QED
    BY <2>1, <2>2, <2>3, <2>4, <2>5, <2>6, <2>7 DEF TrackedDrivers
<1>6. recovery(s) \cap (UnreadDrivers \cup SensitiveReviewDrivers) = {}
  BY RecoveryDrivers DEF UnreadDrivers, SensitiveReviewDrivers
<1>7. /\ recovery(t) \subseteq recovery(s)
      /\ recovery(s) \ recovery(t) \subseteq RecoveryUnknownDrivers
  BY AlikeRecovery
<1>8. /\ HasSecretSurface(t) <=> HasSecretSurface(s)
      /\ sensitive(t) \subseteq (sensitive(s) \ UnreadDrivers) \cup {review}
      /\ sensitive(s) \ sensitive(t) \subseteq UnreadDrivers
      /\ sensitive(t) \cap SensitiveReviewDrivers # {} /\ ~HasSecretSurface(s)
           => review \in sensitive(t)
  BY AlikeSensitivity
<1>9. HasSecretSurface(s) => sensitive(s) \cap SecretDrivers # {}
  BY SecretShows
<1> HIDE DEF D, E, rest, unread, sensitive, recovery
<1>10. E \subseteq (D \ UnreadDrivers) \cup {review}
  BY <1>1, <1>2, <1>3, <1>5, <1>6, <1>7, <1>8
<1>11. D \ E \subseteq UnreadDrivers \cup RecoveryUnknownDrivers
  BY <1>1, <1>2, <1>4, <1>7, <1>8
<1>12. ASSUME E \cap SensitiveReviewDrivers # {}, D \cap SecretDrivers = {}
       PROVE  review \in E
  <2>1. ~HasSecretSurface(s)
    BY <1>1, <1>9, <1>12
  <2>2. sensitive(t) \cap SensitiveReviewDrivers # {}
    BY <1>1, <1>2, <1>3, <1>5, <1>6, <1>7, <1>12
  <2> QED
    BY <1>1, <1>8, <2>1, <2>2
<1> QED
  BY <1>10, <1>11, <1>12 DEF D, E

\* What a driver of the third group of the table asks for.
LEMMA SensitivityStepsStand ==
  ASSUME NEW d \in DOMAIN SensitivitySteps
  PROVE  d \in DOMAIN StepsOf /\ StepsOf[d] = SensitivitySteps[d]
<1> DEFINE a == EvidenceSteps ++ CommandSteps
           b == a ++ SensitivitySteps
           c == b ++ LandingSteps
           e == c ++ RecoverySteps
           f == e ++ ProvenanceSteps
           g == f ++ BudgetSteps
<1>1. /\ a = EvidenceSteps ++ CommandSteps /\ b = a ++ SensitivitySteps
      /\ c = b ++ LandingSteps /\ e = c ++ RecoverySteps /\ f = e ++ ProvenanceSteps
      /\ g = f ++ BudgetSteps /\ StepsOf = g ++ ProgressSteps
  BY DEF StepsOf
<1>2. d \notin DOMAIN EvidenceSteps /\ d \notin DOMAIN CommandSteps
  BY DEF SensitivitySteps, EvidenceSteps, CommandSteps
<1> HIDE DEF a, b, c, e, f, g
<1>3. d \notin DOMAIN a
  BY <1>1, <1>2, JoinDomain
<1>4. d \in DOMAIN b /\ b[d] = SensitivitySteps[d]
  BY <1>1, <1>3 DEF ++
<1>5. d \in DOMAIN c /\ c[d] = b[d]
  BY <1>1, <1>4 DEF ++
<1>6. d \in DOMAIN e /\ e[d] = c[d]
  BY <1>1, <1>5 DEF ++
<1>7. d \in DOMAIN f /\ f[d] = e[d]
  BY <1>1, <1>6 DEF ++
<1>8. d \in DOMAIN g /\ g[d] = f[d]
  BY <1>1, <1>7 DEF ++
<1>9. d \in DOMAIN StepsOf /\ StepsOf[d] = g[d]
  BY <1>1, <1>8 DEF ++
<1> QED
  BY <1>4, <1>5, <1>6, <1>7, <1>8, <1>9

\* Nobody is asked on account of what can be read or of how to recover.
SettledDrivers == UnreadDrivers \cup SecretUnsafeDrivers \cup RecoveryUnknownDrivers
NeverStops(table) ==
  \A d \in DOMAIN table \cap SettledDrivers : table[d] \cap Stop = {}

LEMMA NeverStopsJoin ==
  ASSUME NEW a, NEW b, NeverStops(a), NeverStops(b)
  PROVE  NeverStops(a ++ b)
  BY DEF NeverStops, ++

LEMMA SettledNeverStops == NeverStops(StepsOf)
<1>1. NeverStops(EvidenceSteps)
  BY DEF NeverStops, EvidenceSteps, Stop
<1>2. NeverStops(CommandSteps)
  BY DEF NeverStops, CommandSteps, SettledDrivers, UnreadDrivers, SecretUnsafeDrivers,
         RecoveryUnknownDrivers, Stop
<1>3. NeverStops(SensitivitySteps)
  BY DEF NeverStops, SensitivitySteps, SettledDrivers, UnreadDrivers, SecretUnsafeDrivers,
         RecoveryUnknownDrivers, Stop
<1>4. NeverStops(LandingSteps)
  BY DEF NeverStops, LandingSteps, SettledDrivers, UnreadDrivers, SecretUnsafeDrivers,
         RecoveryUnknownDrivers, Stop
<1>5. NeverStops(RecoverySteps)
  BY DEF NeverStops, RecoverySteps, SettledDrivers, UnreadDrivers, SecretUnsafeDrivers,
         RecoveryUnknownDrivers, Stop
<1>6. NeverStops(ProvenanceSteps)
  BY DEF NeverStops, ProvenanceSteps, Stop
<1>7. NeverStops(BudgetSteps)
  BY DEF NeverStops, BudgetSteps, SettledDrivers, UnreadDrivers, SecretUnsafeDrivers,
         RecoveryUnknownDrivers, Stop
<1>8. NeverStops(ProgressSteps)
  BY DEF NeverStops, ProgressSteps, SettledDrivers, UnreadDrivers, SecretUnsafeDrivers,
         RecoveryUnknownDrivers, Stop
<1>9. NeverStops((EvidenceSteps ++ CommandSteps) ++ SensitivitySteps)
  BY <1>1, <1>2, <1>3, NeverStopsJoin
<1>10. NeverStops((((EvidenceSteps ++ CommandSteps) ++ SensitivitySteps) ++ LandingSteps)
                    ++ RecoverySteps)
  BY <1>4, <1>5, <1>9, NeverStopsJoin
<1> QED
  BY <1>6, <1>7, <1>8, <1>10, NeverStopsJoin DEF StepsOf

\* After a deferral of which the plan only reads, nothing is left to do but to ask a
\* human or to proceed, and the former if the plan already said so.
LEMMA ReadingSettles ==
  ASSUME NEW s, NEW t, NEW b, Alike(s, t), AllIsRead(t),
         Route(Profile(s, b)) = "DEFER",
         Plan(DriversOf(Profile(s, b))) \subseteq ReadingSteps \cup Stop
  PROVE  /\ Route(Profile(t, b)) \in {"ESCALATE", "PROCEED"}
         /\ ExpectedAfter(DriversOf(Profile(s, b))) = "ESCALATE"
              => Route(Profile(t, b)) = "ESCALATE"
<1> DEFINE F == Profile(s, b)
           G == Profile(t, b)
           D == DriversOf(F)
           E == DriversOf(G)
           review == "sensitive_change_review_required"
<1>1. /\ E \subseteq (D \ UnreadDrivers) \cup {review}
      /\ D \ E \subseteq UnreadDrivers \cup RecoveryUnknownDrivers
      /\ E \cap SensitiveReviewDrivers # {} /\ D \cap SecretDrivers = {} => review \in E
  BY ReadProfile
<1> HIDE DEF F, G
<1>2. D \cap BlockingDrivers = {}
  BY BlockingRoutes DEF F
<1>3. D \cap SecretDrivers = {} /\ E \cap SecretDrivers = {} /\ E \cap BlockingDrivers = {}
  <2>1. SecretDrivers \subseteq BlockingDrivers /\ review \notin BlockingDrivers
    BY DEF SecretDrivers, BlockingDrivers
  <2> HIDE DEF D, E
  <2> QED
    BY <1>1, <1>2, <2>1
<1>4. Plan(D) \subseteq ReadingSteps \cup Stop
  BY DEF F
<1>5. /\ review \in DOMAIN StepsOf /\ StepsOf[review] = Stop
      /\ "sensitive_validation_missing" \in DOMAIN StepsOf
      /\ StepsOf["sensitive_validation_missing"] = {"run_validation"}
  BY SensitivityStepsStand DEF SensitivitySteps
<1>6. SensitiveReviewDrivers \subseteq SecretUnsafeDrivers
      /\ SecretUnsafeDrivers \subseteq UnreadDrivers \cup SensitiveReviewDrivers
      /\ SensitiveReducibleDrivers \subseteq UnreadDrivers \cup {"sensitive_validation_missing"}
      /\ "sensitive_validation_missing" \notin SensitiveReviewDrivers
      /\ review \notin SensitiveReviewDrivers
      /\ review # "sensitive_validation_missing"
      /\ review \notin UnreadDrivers
  BY DEF SensitiveReviewDrivers, SecretUnsafeDrivers, UnreadDrivers, SensitiveReducibleDrivers
<1> HIDE DEF D, E
<1>7. ASSUME NEW d \in (D \ SensitiveReviewDrivers) \cap DOMAIN StepsOf
      PROVE  StepsOf[d] \subseteq Plan(D)
  <2>1. d \in NormalizedDrivers(D)
    BY <1>3, <1>7 DEF NormalizedDrivers
  <2> QED
    BY <1>7, <2>1 DEF Plan, StepsFor
<1>8. "sensitive_validation_missing" \notin D
  <2>1. "run_validation" \notin ReadingSteps \cup Stop
    BY DEF ReadingSteps, Stop
  <2> QED
    BY <1>4, <1>5, <1>6, <1>7, <2>1
<1>9. ASSUME NEW d \in NormalizedDrivers(E) \cap DOMAIN StepsOf
      PROVE  StepsOf[d] \subseteq Stop
  <2>1. d \in E
    BY DEF NormalizedDrivers
  <2>2. CASE d = review
    BY <1>5, <2>2
  <2>3. CASE d \in SensitiveReviewDrivers
    <3>1. review \in E
      BY <1>1, <1>3, <2>1, <2>3
    <3>2. E \cap SensitiveReducibleDrivers = {}
      BY <1>1, <1>6, <1>8
    <3>3. d \notin NormalizedDrivers(E)
      BY <2>3, <3>1, <3>2 DEF NormalizedDrivers
    <3> QED
      BY <1>9, <3>3
  <2>4. CASE d # review /\ d \notin SensitiveReviewDrivers
    <3>1. d \in D \ UnreadDrivers
      BY <1>1, <2>1, <2>4
    <3>2. StepsOf[d] \subseteq ReadingSteps \cup Stop
      BY <1>4, <1>7, <1>9, <2>4, <3>1
    <3>3. d \notin SecretUnsafeDrivers
      BY <1>6, <2>4, <3>1
    <3>4. StepsOf[d] \cap ReadingSteps = {}
      BY <1>9, <3>3, StepsAreQuiet DEF IsQuiet
    <3> QED
      BY <3>2, <3>4
  <2> QED
    BY <2>2, <2>3, <2>4
<1>10. Plan(E) \subseteq Stop
  BY <1>9 DEF Plan, StepsFor
<1>11. ~HasOrdinaryStep(Plan(E))
  BY <1>10 DEF HasOrdinaryStep
<1>12. Route(G) \in {"ESCALATE", "PROCEED"}
  BY <1>3, <1>11 DEF Route, E
<1>13. ASSUME ExpectedAfter(D) = "ESCALATE" PROVE Route(G) # "PROCEED"
  <2>1. Stop \subseteq StepsFor(NormalizedDrivers(D))
    BY <1>13 DEF ExpectedAfter
  <2>2. PICK d \in NormalizedDrivers(D) \cap DOMAIN StepsOf : StepsOf[d] \cap Stop # {}
    BY <2>1 DEF StepsFor, Stop
  <2>3. d \in D /\ d \notin SettledDrivers
    BY <2>2, SettledNeverStops DEF NeverStops, NormalizedDrivers
  <2>4. d \in E /\ d \notin SensitiveReviewDrivers
    BY <1>1, <1>6, <2>3 DEF SettledDrivers
  <2>5. d \in NormalizedDrivers(E)
    BY <1>3, <2>4 DEF NormalizedDrivers
  <2>6. Plan(E) # {}
    BY <2>2, <2>5 DEF Plan, StepsFor
  <2> QED
    BY <1>3, <1>11, <2>6 DEF Route, E
<1> QED
  BY <1>12, <1>13 DEF D, F, G

\* Where callers leave it to the detectors, what is read of an action shows as read.
LEMMA ReadShows ==
  ASSUME NEW p \in Proposals, NEW w \in World, IsFileAction(p), ~IsSecretPath(p),
         \A f \in FilesOf(p) : w.disk[f] # "absent",
         NEW c, DOMAIN c \cap SettledNames = {}
  PROVE  LET t == c ++ Signals(p, [w EXCEPT !.obs = w.disk]) IN
         Alike(c ++ Signals(p, w), t) /\ AllIsRead(t)
<1> DEFINE d == Signals(p, [w EXCEPT !.obs = w.disk])
           t == c ++ d
<1>1. /\ Alike(Signals(p, w), d)
      /\ ReadNames \subseteq DOMAIN d
      /\ d["target_file_freshness"] = "fresh"
      /\ d["target_file_read_recently"] = TRUE
      /\ DOMAIN d \cap ContextNames = IF p.type = "delete_file" THEN {} ELSE ContextNames
      /\ p.type # "delete_file" =>
           /\ d["related_tests_read"] = d["related_tests_found"]
           /\ d["context_completeness_score"] = 100
  BY ReadSignals
<1> HIDE DEF d
<1>2. Alike(c ++ Signals(p, w), t)
  BY <1>1, AlikeSelf, AlikeJoin
<1>3. \A x \in SettledNames : /\ x \in DOMAIN t <=> x \in DOMAIN d
                              /\ x \in DOMAIN d => t[x] = d[x]
  BY MergedAsDetected
<1>4. {"target_file_freshness", "target_file_read_recently", "related_tests_found",
       "related_tests_read", "context_completeness_score"} \subseteq SettledNames
  BY DEF SettledNames
<1> HIDE DEF t
<1>5. /\ "target_file_freshness" \in DOMAIN t /\ t["target_file_freshness"] = "fresh"
      /\ "target_file_read_recently" \in DOMAIN t /\ t["target_file_read_recently"] = TRUE
  BY <1>1, <1>3, <1>4 DEF ReadNames
<1>6. SignalOf(t, "target_file_freshness") = "fresh"
  BY <1>5 DEF SignalOf
<1>7. IsSet(t, "target_file_read_recently") /\ ~IsCleared(t, "target_file_read_recently")
  BY <1>5 DEF IsSet, IsCleared
<1>8. /\ ~(IsSet(t, "related_tests_found") /\ IsCleared(t, "related_tests_read"))
      /\ ~IsBelow(t, "context_completeness_score", 50)
      /\ ~IsBelow(t, "context_completeness_score", 70)
  <2>1. CASE p.type = "delete_file"
    <3>1. /\ "related_tests_found" \notin DOMAIN t
          /\ "context_completeness_score" \notin DOMAIN t
      BY <1>1, <1>3, <1>4, <2>1 DEF ContextNames
    <3>2. ~IsSet(t, "related_tests_found")
      BY <3>1, Zenon DEF IsSet
    <3> QED
      BY <3>1, <3>2 DEF IsBelow
  <2>2. CASE p.type # "delete_file"
    <3>1. ContextNames \subseteq DOMAIN d
      BY <1>1, <2>2
    <3>2. /\ t["related_tests_read"] = t["related_tests_found"]
          /\ t["context_completeness_score"] = 100
      BY <1>1, <1>3, <1>4, <2>2, <3>1 DEF ContextNames
    <3>3. ~(IsSet(t, "related_tests_found") /\ IsCleared(t, "related_tests_read"))
      BY <3>2, Zenon DEF IsSet, IsCleared
    <3> QED
      BY <3>2, <3>3 DEF IsBelow
  <2> QED
    BY <2>1, <2>2
<1> QED
  BY <1>2, <1>6, <1>7, <1>8 DEF AllIsRead, t, d

-----------------------------------------------------------------------------
(* The theorems *)

\* Every variable keeps its type, the router always comes to a posture, and every
\* driver it is given is one that the plan or the router's lists know.
THEOREM TypeCorrect == Spec => []TypeOK
<1>1. StandingInv => TypeOK
  <2> SUFFICES ASSUME StandingInv
               PROVE  /\ assessed = NotAssessed \/ assessed.advice \in Postures
                      /\ assessed.drivers \subseteq KnownDrivers
    BY DEF StandingInv, TypeOK, KnownDrivers
  <2>1. CASE assessed = NotAssessed
    BY <2>1 DEF NotAssessed
  <2>2. CASE assessed = Assess(world, budget)
    BY <2>2, AssessParts, RouteTypes, DriversAreKnown
  <2> QED
    BY <2>1, <2>2 DEF StandingInv
<1> QED
  BY <1>1, InitStands, StandingStep, PTL DEF Spec

\* Of what holds a secret nothing is read: no plan asks for its file, its tests or
\* its context.
THEOREM SecretsStayUnread == Spec => []SecretsAreNotRead
<1>1. StandingInv => SecretsAreNotRead
  <2> SUFFICES ASSUME StandingInv, HasSecretSurface(assessed.signals)
               PROVE  assessed.plan \cap ReadingSteps = {}
    BY DEF SecretsAreNotRead
  <2>1. CASE assessed = NotAssessed
    BY <2>1 DEF NotAssessed
  <2>2. CASE assessed = Assess(world, budget)
    <3> DEFINE D == DriversOf(Profile(assessed.signals, budget))
    <3>1. assessed.plan = Plan(D)
      BY <2>2, AssessParts
    <3>2. D \cap SecretDrivers # {}
      BY SecretShows, ProfileDrivers DEF SignalDrivers
    <3> QED
      BY <3>1, <3>2, SecretPlanIsQuiet
  <2> QED
    BY <2>1, <2>2 DEF StandingInv
<1> QED
  BY <1>1, InitStands, StandingStep, PTL DEF Spec

\* An exceeded budget stops the agent: the advice is to ask a human or to block,
\* unless a sensitive surface still lacks evidence.
THEOREM ExceededBudgetsStop == Spec => []ExceededBudgetStops
<1>1. StandingInv => ExceededBudgetStops
  <2> SUFFICES ASSUME StandingInv, IsExceeded
               PROVE  \/ assessed.advice \in {"ESCALATE", "BLOCK"}
                      \/ LacksSensitiveEvidence(assessed.drivers)
    BY DEF ExceededBudgetStops
  <2>1. assessed # NotAssessed
    <3> SUFFICES ASSUME assessed = NotAssessed PROVE FALSE
      OBVIOUS
    <3>1. assessed.signals = << >>
      BY DEF NotAssessed
    <3>2. budget = << >> \/ assessed = Assess(world, budget)
      BY DEF StandingInv
    <3>3. CASE budget = << >>
      BY <3>1, <3>3 DEF IsExceeded, SignalOf, IsSet
    <3>4. CASE assessed = Assess(world, budget)
      <4>1. Route(Profile(provided ++ Signals(proposal, world), budget)) # "none"
        BY RouteTypes DEF Postures
      <4> QED
        BY <3>4, <4>1, AssessParts DEF NotAssessed
    <3> QED
      BY <3>2, <3>3, <3>4
  <2>2. assessed = Assess(world, budget)
    BY <2>1 DEF StandingInv
  <2> DEFINE F == Profile(assessed.signals, budget)
  <2>3. assessed.advice = Route(F) /\ assessed.drivers = DriversOf(F)
    BY <2>2, AssessParts
  <2>4. TrackedDrivers(assessed.signals, budget) \cap ExceededDrivers # {}
    BY ExceededShows DEF IsExceeded
  <2>5. DriversOf(F) \cap (EscalationDrivers \ {"destructive_command_detected"}) # {}
    BY <2>4, ProfileDrivers DEF ExceededDrivers, EscalationDrivers
  <2> QED
    BY <2>3, <2>5, EscalationRoutes
<1> QED
  BY <1>1, InitStands, StandingStep, PTL DEF Spec

\* What else a tracker reports never makes the advice laxer once it is to block, or
\* to ask a human on a driver's account.
THEOREM ReportsNeverSoften == Spec => ReportsKeepAdvice
<1> DEFINE Keeps == /\ budget' # budget /\ ~OverridesStatus
                    /\ \/ assessed.advice = "BLOCK"
                       \/ /\ assessed.advice = "ESCALATE"
                          /\ assessed.drivers \cap EscalationDrivers # {}
                          /\ ~LacksUnplannedEvidence
                    => assessed'.advice = assessed.advice
<1>1. StandingInv /\ StandingInv' /\ [Next]_vars => [Keeps]_vars
  <2> SUFFICES ASSUME StandingInv, StandingInv', Next,
                      budget' # budget, ~OverridesStatus,
                      \/ assessed.advice = "BLOCK"
                      \/ /\ assessed.advice = "ESCALATE"
                         /\ assessed.drivers \cap EscalationDrivers # {}
                         /\ ~LacksUnplannedEvidence
               PROVE  assessed'.advice = assessed.advice
    BY DEF vars
  <2>1. PICK r \in Reports : Report(r)
    BY DEF Next, FirstDecision, ReadFile, RunCommand, Drift
  <2>2. /\ r.field \notin DOMAIN budget
        /\ budget' = [f \in {r.field} |-> r.value] ++ budget
        /\ UNCHANGED <<proposal, provided, world>>
        /\ assessed' = Assess(world', budget')
    BY <2>1 DEF Report, Reassess
  <2>3. assessed = Assess(world, budget)
    BY DEF StandingInv, NotAssessed
  <2> DEFINE s == provided ++ Signals(proposal, world)
             F == Profile(s, budget)
             G == Profile(s, budget')
  <2>4. /\ assessed.signals = s /\ assessed.advice = Route(F)
        /\ assessed.drivers = DriversOf(F) /\ assessed.plan = Plan(DriversOf(F))
    BY <2>3, AssessParts
  <2>5. assessed'.advice = Route(G)
    BY <2>2 DEF Assess
  <2>6. ~("autonomy_budget_status" \in DOMAIN s /\ r.field = "autonomyBudgetStatus")
    <3>1. r.field \in DOMAIN budget' \ DOMAIN budget
      BY <2>2 DEF ++
    <3> QED
      BY <2>4, <3>1 DEF OverridesStatus
  <2> HIDE DEF s
  <2>7. TrackedDrivers(s, budget) \cap ExceededDrivers \subseteq TrackedDrivers(s, budget')
    BY <2>2, <2>6, ReportKeepsExceeded
  <2>8. /\ DriversOf(F) = SignalDrivers(s) \cup TrackedDrivers(s, budget)
        /\ DriversOf(G) = SignalDrivers(s) \cup TrackedDrivers(s, budget')
    BY ProfileDrivers
  <2>9. LacksRecovery(DriversOf(F)) => HasOrdinaryStep(Plan(DriversOf(F)))
    BY RecoveryIsOrdinary DEF LacksRecovery
  <2> HIDE DEF F, G
  <2>10. \A list \in {BlockingDrivers, SensitiveSurfaceDrivers, SensitiveMissingDrivers,
                      RecoveryUnknownDrivers} :
           DriversOf(G) \cap list = DriversOf(F) \cap list
    BY <2>8, BudgetIsNoEvidence
  <2>11. DriversOf(F) \cap EscalationDrivers \subseteq DriversOf(G)
    BY <2>7, <2>8, BudgetIsNoEvidence
  <2>12. Route(G) = Route(F)
    BY <2>4, <2>9, <2>10, <2>11, AdviceStands DEF LacksUnplannedEvidence
  <2> QED
    BY <2>4, <2>5, <2>12
<1> QED
  BY <1>1, InitStands, StandingStep, PTL DEF Spec, ReportsKeepAdvice

\* Profile, plan and router come to what the 22 rules decide on file actions of a
\* trusted origin, but for a destructive change of an ordinary path, which goes to a
\* human before its evidence is there.
THEOREM RouterAgrees == Spec => []AdviceAgrees
<1>1. StandingInv => AdviceAgrees
  <2> SUFFICES ASSUME StandingInv, SettledOrigin
               PROVE  assessed.advice =
                        IF /\ assessed.verdict = "DEFER" /\ IsDestructive(proposal)
                           /\ ~HasReviewableSurface(assessed.signals)
                        THEN "ESCALATE" ELSE assessed.verdict
    BY DEF AdviceAgrees
  <2>1. CASE assessed = NotAssessed
    BY <2>1 DEF NotAssessed
  <2>2. CASE assessed = Assess(world, budget)
    <3>1. /\ IsFileAction(proposal) /\ ~IsSecretPath(proposal)
          /\ proposal.outside \in BOOLEAN
      BY FileProposalsAssumption DEF SettledOrigin, StandingInv
    <3> DEFINE s == Vouched(proposal, world)
    <3>2. /\ assessed.signals = s
          /\ assessed.verdict = DecisionOf(DefaultRules, s)
          /\ assessed.advice = Route(Profile(s, << >>))
      BY <2>2, AssessParts DEF SettledOrigin, Vouched
    <3>3. HasReviewableSurface(s) <=> PathSensitivity(proposal) \in High
      <4>1. SignalOf(s, "path_sensitivity") = PathSensitivity(proposal)
        BY <3>1, VouchedRisk
      <4>2. "matched_sensitive_path_level" \notin DOMAIN s
        BY <3>1, VouchedParts
        DEF FileNames, FileRiskNames, SeverityNames, FreshnessNames, ReadNames,
            ContextNames
      <4> HIDE DEF s
      <4> QED
        BY <4>1, <4>2 DEF HasReviewableSurface, SignalOf, High
    <3>4. DecisionOf(DefaultRules, s) =
            IF Blocks(proposal) THEN "BLOCK"
            ELSE IF LacksEither(proposal, world) THEN "DEFER"
            ELSE IF IsDestructive(proposal) \/ PathSensitivity(proposal) \in High
                 THEN "ESCALATE"
            ELSE "PROCEED"
      BY <3>1, VouchedVerdict, FileVerdict DEF Blocks, LacksEither, High
    <3> HIDE DEF s
    <3> QED
      BY <3>1, <3>2, <3>3, <3>4, VouchedAdvice DEF s
  <2> QED
    BY <2>1, <2>2 DEF StandingInv
<1> QED
  BY <1>1, InitStands, StandingStep, PTL DEF Spec

\* The advice is never laxer than the 22 rules: what may proceed for the router may
\* for the engine, unless a tracker's status hides the one it would pause for, and
\* what the engine blocks goes to a human or is blocked.
THEOREM NeverLaxer == Spec => []AdviceNeverLaxer
<1>1. StandingInv => AdviceNeverLaxer
  <2> SUFFICES ASSUME StandingInv, DOMAIN provided \cap DetectedNames = {},
                      assessed = Assess(world, budget)
               PROVE  /\ assessed.advice = "PROCEED" =>
                           assessed.verdict = IF HidesStatus THEN "DEFER" ELSE "PROCEED"
                      /\ assessed.verdict = "BLOCK" => assessed.advice \in {"BLOCK", "ESCALATE"}
    BY DEF StandingInv, AdviceNeverLaxer, NotAssessed
  <2> DEFINE s == provided ++ Signals(proposal, world)
             M == MatchedRules(DefaultRules, s)
  <2>1. /\ assessed.signals = s
        /\ assessed.verdict = DecisionOf(DefaultRules, s)
        /\ assessed.advice = Route(Profile(s, budget))
    BY AssessParts
  <2>2. assessed.verdict = IF M \cap BlockRules # {} THEN "BLOCK"
                           ELSE IF M \cap EvidenceRules # {} THEN "DEFER"
                           ELSE IF M \cap EscalationRules # {} THEN "ESCALATE"
                           ELSE IF M \cap PauseRules # {} THEN "DEFER"
                           ELSE "PROCEED"
    BY <2>1, DefaultVerdict
  <2>3. assessed.verdict = "BLOCK" => assessed.advice \in {"BLOCK", "ESCALATE"}
    <3>1. M \cap BlockRules # {} => Route(Profile(s, budget)) \in {"BLOCK", "ESCALATE"}
      BY BlocksShow
    <3> HIDE DEF M, s
    <3> QED
      BY <2>1, <2>2, <3>1
  <2>4. ASSUME assessed.advice = "PROCEED"
        PROVE  assessed.verdict = IF HidesStatus THEN "DEFER" ELSE "PROCEED"
    <3>1. M \subseteq {19, 20, 22}
      BY <2>1, <2>4, RulesWeigh
    <3>2. 19 \notin M /\ 20 \notin M
      <4> SUFFICES ASSUME 19 \in M \/ 20 \in M PROVE FALSE
        OBVIOUS
      <4>1. SignalOf(s, "landing_risk") \in {"high", "critical"}
        BY DefaultMatches, MeetsValue
      <4>2. "landing_action" \in DOMAIN s /\ s["landing_action"] = TRUE
        BY <4>1, LandingIsSeen
      <4>3. IsSet(s, "landing_action")
        BY <4>2, Zenon DEF IsSet
      <4> QED
        BY <2>1, <2>4, <4>3, LandingWeighs, ProfileParts, WeightDecides
    <3>3. 22 \in M <=> HidesStatus
      <4>1. 22 \in M <=> SignalOf(s, "autonomy_budget_status") = "exceeded"
        BY DefaultMatches DEF Meets, SignalOf
      <4>2. SignalOf(s, "autonomy_budget_status") = "exceeded" =>
              /\ "autonomyBudgetStatus" \in DOMAIN budget
              /\ budget["autonomyBudgetStatus"] \notin {"exceeded", "warning", "unknown"}
        BY <2>1, <2>4, BudgetWeighs, ProfileParts, WeightDecides
      <4> QED
        BY <2>1, <4>1, <4>2 DEF HidesStatus
    <3> HIDE DEF M, s
    <3>4. CASE 22 \in M
      <4>1. M \cap BlockRules = {} /\ M \cap EvidenceRules = {} /\ M \cap EscalationRules = {}
            /\ M \cap PauseRules # {}
        BY <3>1, <3>2, <3>4 DEF BlockRules, EvidenceRules, EscalationRules, PauseRules
      <4> QED
        BY <2>2, <3>3, <3>4, <4>1
    <3>5. CASE 22 \notin M
      <4>1. M = {}
        BY <3>1, <3>2, <3>5
      <4> QED
        BY <2>2, <3>3, <3>5, <4>1
    <3> QED
      BY <3>4, <3>5
  <2> QED
    BY <2>3, <2>4
<1> QED
  BY <1>1, InitStands, StandingStep, PTL DEF Spec

\* A deferral whose plan only reads is over once everything is read: the action may
\* proceed or goes to a human, and to a human if the plan announced one.
THEOREM PlansForetell == Spec => []PlanForetells
<1>1. StandingInv => PlanForetells
  <2> SUFFICES ASSUME StandingInv, DOMAIN provided \cap SettledNames = {},
                      IsFileAction(proposal),
                      \A f \in FilesOf(proposal) : world.disk[f] # "absent",
                      assessed.advice = "DEFER",
                      assessed.plan \subseteq ReadingSteps \cup Stop
               PROVE  Assess(AllRead, budget).advice
                        \in {"ESCALATE"} \cup On(assessed.expected # "ESCALATE", {"PROCEED"})
    BY DEF PlanForetells
  <2>1. assessed = Assess(world, budget)
    BY DEF StandingInv, NotAssessed
  <2> DEFINE s == provided ++ Signals(proposal, world)
             t == provided ++ Signals(proposal, AllRead)
             D == DriversOf(Profile(s, budget))
  <2>2. /\ Route(Profile(s, budget)) = "DEFER"
        /\ Plan(D) \subseteq ReadingSteps \cup Stop
        /\ assessed.expected = ExpectedAfter(D)
    BY <2>1, AssessParts
  <2>3. Assess(AllRead, budget).advice = Route(Profile(t, budget))
    BY DEF Assess
  <2>4. ~IsSecretPath(proposal)
    <3> SUFFICES ASSUME IsSecretPath(proposal) PROVE FALSE
      OBVIOUS
    <3>1. /\ "secret_path_match" \in DOMAIN Signals(proposal, world)
          /\ Signals(proposal, world)["secret_path_match"]
               = FileRiskSignals(proposal)["secret_path_match"]
      BY FileValues DEF FileRiskNames
    <3>2. FileRiskSignals(proposal)["secret_path_match"] = TRUE
      BY DEF FileRiskSignals, When, ++, IsSecretPath
    <3>3. "secret_path_match" \in DOMAIN s /\ s["secret_path_match"] = TRUE
      BY <3>1, <3>2, MergedAsDetected DEF SettledNames
    <3> HIDE DEF s
    <3>4. IsSet(s, "secret_path_match")
      BY <3>3 DEF IsSet
    <3>5. DriversOf(SensitivityFindings(s)) \cap SecretDrivers # {}
      BY <3>4, SecretShows DEF HasSecretSurface
    <3>6. DriversOf(SensitivityFindings(s)) \subseteq D
      BY ProfileParts
    <3>7. D \cap BlockingDrivers # {}
      BY <3>5, <3>6 DEF SecretDrivers, BlockingDrivers
    <3> QED
      BY <2>2, <3>7, BlockingRoutes
  <2>5. proposal \in Proposals /\ world \in World
    BY DEF StandingInv
  <2>6. Alike(s, t) /\ AllIsRead(t)
    BY <2>4, <2>5, ReadShows DEF AllRead
  <2> HIDE DEF s, t
  <2>7. /\ Route(Profile(t, budget)) \in {"ESCALATE", "PROCEED"}
        /\ ExpectedAfter(D) = "ESCALATE" => Route(Profile(t, budget)) = "ESCALATE"
    BY <2>2, <2>6, ReadingSettles
  <2> QED
    BY <2>2, <2>3, <2>7 DEF On
<1> QED
  BY <1>1, InitStands, StandingStep, PTL DEF Spec
=============================================================================
