-------------------------- MODULE UncertaintyProfile --------------------------
(***************************************************************************)
(* The uncertainty profile of a set of signals and an autonomy budget.     *)
(*                                                                         *)
(* Each mapping below lists findings: what updateDimension is called with, *)
(* as far as routing looks at it.  A finding has a score in percent, an    *)
(* impact, a reducibility and its drivers, and it may lack evidence.       *)
(* Updates that only add evidence are left out, and so are the drivers     *)
(* that neither a reduction step nor the router knows.                     *)
(***************************************************************************)
EXTENDS Naturals, SignalRecords

Finding(score, impact, reducibility, drivers, lacks) ==
  [score |-> score, impact |-> impact, reducibility |-> reducibility,
   drivers |-> drivers, lacks |-> lacks]
Detected(score, impact, drivers) ==
  Finding(score, impact, "partially_reducible", drivers, FALSE)
Missing(score, impact, drivers) == Finding(score, impact, "reducible", drivers, TRUE)

\* Names, or findings, that count under a condition.
On(condition, S) == IF condition THEN S ELSE {}

\* The finding a table has for a value, if it has one: a switch.
Entry(table, value) == IF value \in DOMAIN table THEN {table[value]} ELSE {}

High == {"high", "critical"}

-----------------------------------------------------------------------------
(* Context and validation *)

\* Faulty variant of ContextFindings: without related tests there is nothing
\* read of them.
ContextOfUnreadTests(s) ==
  On(IsCleared(s, "target_file_read_recently"),
     {Missing(65, "medium", {"target_file_not_observed"})})
  \cup On(IsCleared(s, "related_tests_read"),
          {Missing(55, "medium", {"related_tests_not_observed"})})

\* mapContextSignals.
ContextFindings(s) ==
  On(IsCleared(s, "target_file_read_recently"),
     {Missing(65, "medium", {"target_file_not_observed"})})
  \cup On(IsSet(s, "related_tests_found") /\ IsCleared(s, "related_tests_read"),
          {Missing(55, "medium", {"related_tests_not_observed"})})
  \cup On(IsBelow(s, "context_completeness_score", 50),
          {Missing(70, "medium", {"context_completeness_low"})})
  \cup On(IsBelow(s, "context_completeness_score", 70)
            /\ ~IsBelow(s, "context_completeness_score", 50),
          {Missing(45, "medium", {"context_completeness_medium"})})

\* mapFreshnessSignals.
FreshnessFindings(s) ==
  Entry([stale   |-> Missing(70, "high", {"target_file_stale"} \cup
                       On(IsSet(s, "file_changed_since_read"),
                          {"target_file_hash_changed"})),
         unknown |-> Missing(60, "medium", {"target_file_freshness_unknown"}),
         missing |-> Missing(60, "medium", {"target_file_missing"})],
        SignalOf(s, "target_file_freshness"))

\* mapValidationSignals: nothing of validation that is not required.
ValidationFindings(s) ==
  LET status == SignalOf(s, "validation_status")
      target == IF SignalOf(s, "validation_scope") = "unknown"
                THEN "validation_target_unclear" ELSE "validation_unknown"
  IN On(~IsCleared(s, "validation_required"),
        Entry([failed  |-> Finding(85, "critical", "reducible", {"validation_failed"},
                                   FALSE),
               not_run |-> Missing(65, "high", {"validation_missing"}),
               stale   |-> Missing(60, "high", {"validation_stale"}),
               running |-> Missing(35, "medium", {"validation_running"}),
               unknown |-> Missing(50, "medium", {target})], status)
        \cup On(IsSet(s, "requires_validation") /\ status = "undefined",
                {Missing(50, "high", {"validation_target_unclear"})}))

-----------------------------------------------------------------------------
(* Commands and their environment *)

\* A deployment's, or a release's, risk gives a score and an impact.
RiskScore(risk, otherwise) ==
  IF risk = "critical" THEN 80 ELSE IF risk = "high" THEN 65 ELSE otherwise
RiskImpact(risk) == IF risk \in High THEN risk ELSE "medium"

\* mapCommandSignals.
CommandFindings(s) ==
  LET critical == "critical" \in {SignalOf(s, "destructive_severity"),
                                  SignalOf(s, "command_risk_score")}
      deployment == SignalOf(s, "deployment_risk")
  IN Entry([critical |-> Detected(85, "critical", {"command_risk_critical"}),
            high     |-> Detected(65, "high", {"command_risk_high"}),
            unknown  |-> Missing(45, "medium", {"command_classification_unknown"})],
           SignalOf(s, "command_risk_score"))
     \cup On(IsSet(s, "pipe_to_shell"),
             {Detected(85, "critical", {"pipe_to_shell_detected"})})
     \cup On(IsSet(s, "uses_sudo"), {Detected(65, "high", {"privileged_command_detected"})})
     \cup On(IsSet(s, "destructive_operation"),
             {Detected(IF critical THEN 85 ELSE 65, IF critical THEN "critical" ELSE "high",
                       {"destructive_command_detected"})})
     \cup On(SignalOf(s, "landing_action_type") = "deploy"
               \/ "deployment_risk" \in DOMAIN s \/ IsSet(s, "mutates_cloud"),
             {Finding(RiskScore(deployment, 55), RiskImpact(deployment), "reducible",
                      {"deployment_command_detected"}, FALSE)})
     \cup On(SignalOf(s, "command_category") = "local_write"
               /\ IsSet(s, "network_exposure"),
             {Missing(55, "high", {"package_script_unknown",
                                   "package_script_classification_missing"})})

\* mapGitWorkflowSignals.
GitFindings(s) ==
  LET mainline == IsSet(s, "direct_mainline_commit") \/ IsSet(s, "direct_mainline_push")
      risk == SignalOf(s, "landing_risk")
  IN On(IsSet(s, "force_push"), {Detected(85, "critical", {"force_push_detected"})})
     \cup On(IsSet(s, "hook_bypass"), {Detected(75, "high", {"hook_bypass_detected"})})
     \cup On(IsSet(s, "protected_branch") \/ mainline,
             {Detected(IF IsSet(s, "direct_mainline_push") THEN 85 ELSE 65,
                       IF IsSet(s, "direct_mainline_push") THEN "critical" ELSE "high",
                       {"protected_branch_risk"} \cup
                         On(mainline, {"direct_mainline_risk"}))})
     \cup On(IsSet(s, "landing_action"),
             {Detected(IF risk = "critical" THEN 85 ELSE RiskScore(risk, 35),
                       RiskImpact(risk), {"landing_action_detected"})})
     \cup On(IsSet(s, "is_dirty_worktree"),
             {Finding(35, "medium", "reducible", {"dirty_worktree_detected"}, FALSE)})
     \cup Entry([critical |-> Detected(85, "critical", {"git_workflow_risk_critical"}),
                 high     |-> Detected(65, "high", {"git_workflow_risk_high"}),
                 unknown  |-> Missing(55, "medium", {"git_state_unknown"})],
                SignalOf(s, "branch_risk"))

\* mapEnvironmentSignals.  A landing action without an environment has an
\* unknown one, a deployment also an ambiguous target.
EnvironmentFindings(s) ==
  LET type == SignalOf(s, "landing_action_type")
      environment == SignalOf(s, "environment_classification")
      deployment == SignalOf(s, "deployment_risk")
      released == SignalOf(s, "release_risk") = "critical"
      ambiguous == On(type = "deploy", {"deploy_target_ambiguous"})
  IN Entry([production |-> Detected(80, "critical", {"production_environment_detected",
                                                     "environment_risk_critical"}),
            staging    |-> Detected(20, "medium", {}),
            unknown    |-> Missing(65, "high", {"environment_unknown"} \cup ambiguous)],
           environment)
     \cup On(IsSet(s, "landing_action") /\ environment = "undefined",
             {Missing(45, "medium", {"environment_unknown"} \cup ambiguous)})
     \cup On(type = "deploy",
             {Finding(RiskScore(deployment, 45), RiskImpact(deployment),
                      "partially_reducible",
                      {"landing_action_detected", "deployment_command_detected"}
                        \cup On(environment \in {"undefined", "unknown"}, ambiguous)
                        \cup On(deployment = "critical", {"environment_risk_critical"})
                        \cup On(deployment = "high", {"environment_risk_high"}),
                      environment \in {"undefined", "unknown"})})
     \cup On(type \in {"release", "publish"},
             {Detected(IF released THEN 80 ELSE 65, IF released THEN "critical" ELSE "high",
                       {IF released THEN "environment_risk_critical"
                                    ELSE "environment_risk_high"}
                         \cup On(type = "release", {"release_surface_detected"})
                         \cup On(type = "publish", {"publish_surface_detected",
                                                    "package_publish_detected"}))})

-----------------------------------------------------------------------------
(* Sensitive and secret surfaces, the workspace boundary *)

HasReviewableSurface(s) ==
  \/ SignalOf(s, "path_sensitivity") \in High
  \/ SignalOf(s, "matched_sensitive_path_level") \in High

SecretFlags == {"secret_pattern_match", "entropy_anomaly", "command_contains_secret",
                "diff_contains_secret", "prompt_context_contains_secret"}
HasSecretPattern(s) == \E flag \in SecretFlags : IsSet(s, flag)
HasSecretSurface(s) ==
  \/ IsSet(s, "secret_path_match")
  \/ HasSecretPattern(s)
  \/ SignalOf(s, "secret_touch") \in {"probable", "confirmed"}

\* hasMissingSensitiveContext: the related tests count only if there are any.
HasMissingContext(s) ==
  \/ IsCleared(s, "target_file_read_recently")
  \/ IsSet(s, "related_tests_found") /\ IsCleared(s, "related_tests_read")
  \/ IsBelow(s, "context_completeness_score", 70)
  \/ SignalOf(s, "target_file_freshness") \in {"unknown", "stale", "missing"}
HasAvailableContext(s) ==
  \/ IsSet(s, "target_file_read_recently")
  \/ IsSet(s, "related_tests_read")
  \/ "context_completeness_score" \in DOMAIN s
       /\ ~IsBelow(s, "context_completeness_score", 70)
HasMissingValidation(s) ==
  /\ IsSet(s, "validation_required") \/ IsSet(s, "requires_validation")
  /\ SignalOf(s, "validation_status")
       \in {"undefined", "not_run", "stale", "running", "unknown"}

\* The end of mapSensitivitySignals: a sensitive surface without a secret lacks
\* evidence, or is ready for review.
ReviewFindings(s) ==
  On(HasMissingContext(s),
     {Finding(70, "high", "partially_reducible",
              {"sensitive_context_missing", "sensitive_surface_context_incomplete"}, TRUE)})
  \cup On(~HasMissingContext(s) /\ HasAvailableContext(s),
          {Detected(65, "high", {"sensitive_change_review_required"})})
  \cup On(HasMissingValidation(s),
          {Finding(70, "high", "partially_reducible",
                   {"sensitive_validation_missing"}, TRUE)})

\* mapSensitivitySignals.
SensitivityFindings(s) ==
  LET surface == {"sensitive_path_detected", "sensitive_surface_detected"} IN
  Entry([critical |-> Detected(75, "critical", surface),
         high     |-> Detected(60, "high", surface)], SignalOf(s, "path_sensitivity"))
  \cup On(IsSet(s, "secret_path_match"),
          {Detected(85, "critical", {"secret_path_detected"})})
  \cup On(HasSecretPattern(s), {Detected(85, "critical", {"secret_pattern_detected"})})
  \cup Entry([confirmed |-> Detected(85, "critical", {"secret_material_detected"}),
              probable  |-> Detected(75, "critical", {"secret_material_detected"}),
              possible  |-> Finding(45, "high", "reducible",
                                    {"secret_material_possible"}, FALSE)],
             SignalOf(s, "secret_touch"))
  \cup On(HasReviewableSurface(s) /\ ~HasSecretSurface(s), ReviewFindings(s))

\* mapWorkspaceBoundarySignals: a violation decides.
BoundaryFindings(s) ==
  LET violation == Detected(90, "critical", {"workspace_boundary_violation"}) IN
  IF IsSet(s, "workspace_boundary_violation") THEN {violation}
  ELSE Entry([outside |-> violation,
              unknown |-> Missing(55, "medium", {"workspace_boundary_unknown"})],
             SignalOf(s, "workspace_boundary_status"))

-----------------------------------------------------------------------------
(* Recovery *)

GitStateSignals == {"repo_integrity_status", "branch_risk", "current_branch",
                    "is_dirty_worktree", "has_uncommitted_changes", "has_untracked_files"}
HasBoundaryEvidence(s) ==
  \/ IsSet(s, "workspace_boundary_violation")
  \/ SignalOf(s, "workspace_boundary_status") \in {"inside", "outside", "not_applicable"}
HasRecoveryEvidence(s) ==
  \/ DOMAIN s \cap (GitStateSignals \cup {"current_file_hash", "last_read_hash"}) # {}
  \/ HasBoundaryEvidence(s)
  \/ SignalOf(s, "validation_status") = "passed"
  \/ SignalOf(s, "target_file_freshness") = "fresh"
IsCriticalRecoveryRisk(s) ==
  \/ "critical" \in {SignalOf(s, "destructive_severity"), SignalOf(s, "command_risk_score")}
  \/ "destructive_score" \in DOMAIN s /\ ~IsBelow(s, "destructive_score", 80)
  \/ IsSet(s, "workspace_boundary_violation")

\* mapRecoverySignals: only of a destructive operation is recovery uncertain.
RecoveryFindings(s) ==
  LET known == HasRecoveryEvidence(s)
      critical == IsCriticalRecoveryRisk(s)
      unknown == {"recovery_state_unknown", "rollback_confidence_unknown",
                  "destructive_operation_recovery_unknown",
                  "recovery_checkpoint_missing", "git_tracking_unknown"}
  IN On(IsSet(s, "destructive_operation"),
        On(~HasBoundaryEvidence(s) /\ SignalOf(s, "workspace_boundary_status") = "unknown",
           {Finding(65, "high", "partially_reducible",
                    {"workspace_recovery_boundary_unknown"}, TRUE)})
        \cup On(SignalOf(s, "validation_status") # "passed"
                  /\ (IsSet(s, "validation_required") \/ IsSet(s, "requires_validation")),
                {Missing(55, "medium", {"validation_recovery_evidence_missing"})})
        \cup {Finding(IF critical THEN 85 ELSE IF known THEN 45 ELSE 65,
                      IF critical THEN "critical" ELSE "high", "partially_reducible",
                      On(critical, {"irreversible_operation_risk"})
                        \cup On(~known, unknown), ~known)})

-----------------------------------------------------------------------------
(* The autonomy budget, as its tracker reports it, and provenance *)

\* An exhausted budget, a strained one, and one that nobody tracks.
Exhausted(drivers) == Finding(85, "high", "partially_reducible", drivers, TRUE)
Strained(drivers) == Missing(65, "medium", drivers)
Untracked(drivers) == Missing(35, "medium", drivers)

\* Faulty variant of BudgetFindings: without a tracker there is no budget.
BudgetOfTracker(s, b) ==
  Entry([exceeded |-> Exhausted({"autonomy_budget_exceeded"}),
         warning  |-> Strained({"autonomy_budget_warning"}),
         unknown  |-> Untracked({"autonomy_budget_unknown", "autonomy_budget_not_tracked"})],
        SignalOf(b, "autonomyBudgetStatus"))

\* The first half of mapAutonomyBudgetSignals: the budget as a whole and the
\* retries.  What the tracker does not say is taken from the signals.
BudgetFindings(s, b) ==
  LET status == IF "autonomyBudgetStatus" \in DOMAIN b THEN b.autonomyBudgetStatus
                ELSE SignalOf(s, "autonomy_budget_status")
      untracked == Untracked({"autonomy_budget_unknown", "autonomy_budget_not_tracked"})
  IN Entry([exceeded |-> Exhausted({"autonomy_budget_exceeded"}),
            warning  |-> Strained({"autonomy_budget_warning"}),
            unknown  |-> untracked], status)
     \cup On(status = "undefined" /\ IsSet(b, "relevant"), {untracked})
     \cup Entry([exceeded |-> Exhausted({"retry_budget_exceeded"}),
                 warning  |-> Strained({"retry_budget_warning"}),
                 unknown  |-> Untracked({"retry_count_unknown"})],
                SignalOf(b, "retryBudgetStatus"))
     \cup On("retryCount" \in DOMAIN b /\ ~IsBelow(b, "retryCount", 3),
             {Strained({"retry_count_high"})})

\* Its second half: repeated deferrals, progress, scope, churn and context.
ProgressFindings(b) ==
  On("repeatedDeferCount" \in DOMAIN b /\ ~IsBelow(b, "repeatedDeferCount", 2),
     {Finding(70, "high", "partially_reducible", {"repeated_defer_detected"}, TRUE)})
  \cup On(IsSet(b, "repeatedDeferLimitReached"),
          {Exhausted({"repeated_defer_limit_reached"})})
  \cup (IF IsSet(b, "noNetProgress") \/ SignalOf(b, "progressState") = "no_progress"
        THEN {Finding(75, "high", "partially_reducible",
                      {"no_net_progress_detected"}, TRUE)}
        ELSE On(SignalOf(b, "progressState") = "unknown",
                {Missing(45, "medium", {"no_progress_evidence_missing"})}))
  \cup Entry([broad   |-> Finding(55, "medium", "reducible", {"action_scope_too_broad"},
                                  FALSE),
              unknown |-> Untracked({})], SignalOf(b, "actionScope"))
  \cup Entry([high    |-> Detected(65, "high", {"diff_churn_high"}),
              unknown |-> Untracked({"diff_churn_unknown"})], SignalOf(b, "diffChurn"))
  \cup Entry([exceeded |-> Exhausted({"context_budget_exceeded"}),
              warning  |-> Strained({"context_budget_warning"}),
              unknown  |-> Untracked({"context_budget_unknown"})],
             SignalOf(b, "contextBudgetStatus"))

\* mapProvenanceSignals.
ProvenanceFindings(s) ==
  Entry([untrusted |-> Missing(75, "high", {"provenance_untrusted",
                                            "delegated_action_provenance_unknown"}),
         partial   |-> Missing(35, "medium", {"provenance_partial"}),
         unknown   |-> Missing(45, "medium", {"provenance_unknown",
                                              "delegated_action_provenance_unknown"})],
        SignalOf(s, "delegation_provenance"))

-----------------------------------------------------------------------------
\* buildUncertaintyProfile, and what its dimensions amount to.
Profile(s, b) ==
  ContextFindings(s) \cup FreshnessFindings(s) \cup ValidationFindings(s)
    \cup CommandFindings(s) \cup SensitivityFindings(s) \cup BoundaryFindings(s)
    \cup GitFindings(s) \cup EnvironmentFindings(s) \cup RecoveryFindings(s)
    \cup BudgetFindings(s, b) \cup ProgressFindings(b) \cup ProvenanceFindings(s)

DriversOf(F) == UNION {f.drivers : f \in F}
IsLow(F) == \A f \in F : f.score < 25
HasHighImpact(F) == \E f \in F : f.impact \in High
IsFullyReducible(F) == \A f \in F : f.reducibility = "reducible"
LacksEvidence(F) == \E f \in F : f.lacks
=============================================================================
