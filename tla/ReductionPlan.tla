---------------------------- MODULE ReductionPlan ----------------------------
(***************************************************************************)
(* The uncertainty reduction plan: the kinds of step the drivers of a      *)
(* profile ask for.  A step's wording, priority, place in the list and     *)
(* evidence are left out; what it reduces matters only for the budget.     *)
(***************************************************************************)
EXTENDS SignalRecords

Stop == {"stop_and_request_human_review"}

-----------------------------------------------------------------------------
(* driverStepMap, in groups: the steps each driver asks for *)

\* Context and validation.
EvidenceSteps ==
  [target_file_not_observed |-> {"read_target_file"},
   target_file_freshness_unknown |-> {"read_target_file"},
   target_file_stale |-> {"refresh_target_file"},
   target_file_hash_changed |-> {"refresh_target_file"},
   related_tests_not_observed |-> {"read_related_tests"},
   context_completeness_low |-> {"inspect_related_context"},
   context_completeness_medium |-> {"inspect_related_context"},
   validation_missing |-> {"run_validation"},
   validation_stale |-> {"run_validation"},
   validation_target_unclear |-> {"inspect_validation_config"},
   validation_failed |-> {"inspect_validation_failure",
                          "fix_validation_failure_before_retry"}]

\* Commands.
CommandSteps ==
  [command_classification_unknown |-> {"classify_command"},
   package_script_unknown |-> {"inspect_package_script"},
   package_script_classification_missing |-> {"inspect_package_script"},
   command_risk_high |-> {"classify_command"}, command_risk_critical |-> Stop,
   pipe_to_shell_detected |-> Stop, privileged_command_detected |-> Stop,
   destructive_command_detected |-> Stop,
   deployment_command_detected |-> {"inspect_environment", "confirm_deploy_target"}]

\* Sensitive and secret surfaces, the workspace boundary.
SensitivitySteps ==
  [sensitive_path_detected |-> {"inspect_related_context"},
   sensitive_surface_detected |-> {"read_related_tests"},
   sensitive_context_missing |-> {"read_target_file", "inspect_related_context"},
   sensitive_surface_context_incomplete |->
     {"inspect_related_context", "read_related_tests"},
   sensitive_validation_missing |-> {"run_validation"},
   sensitive_change_review_required |-> Stop,
   secret_path_detected |-> Stop, secret_pattern_detected |-> Stop,
   secret_material_detected |-> Stop,
   workspace_boundary_unknown |-> {"inspect_workspace_boundary"},
   workspace_boundary_violation |-> Stop]

\* The git workflow and the environment.
LandingSteps ==
  [protected_branch_risk |-> {"inspect_branch_policy"},
   direct_mainline_risk |-> {"inspect_git_state"},
   landing_action_detected |-> {"run_validation"},
   force_push_detected |-> Stop, hook_bypass_detected |-> Stop,
   environment_unknown |-> {"inspect_environment"},
   environment_classification_missing |-> {"inspect_environment"},
   deploy_target_ambiguous |-> {"confirm_deploy_target"},
   production_environment_detected |-> Stop, environment_risk_critical |-> Stop,
   environment_risk_high |-> Stop, release_surface_detected |-> Stop,
   package_publish_detected |-> Stop, publish_surface_detected |-> Stop]

\* Recovery and provenance.
RecoverySteps ==
  [recovery_state_unknown |-> {"inspect_recovery_state"},
   destructive_operation_recovery_unknown |->
     {"inspect_recovery_state", "create_checkpoint"},
   recovery_checkpoint_missing |-> {"create_checkpoint"},
   git_tracking_unknown |-> {"inspect_git_state"},
   workspace_recovery_boundary_unknown |-> {"inspect_workspace_boundary"},
   validation_recovery_evidence_missing |-> {"run_validation"},
   irreversible_operation_risk |-> Stop]
ProvenanceSteps ==
  [provenance_unknown |-> {"inspect_provenance"},
   delegated_action_provenance_unknown |-> {"inspect_provenance"},
   provenance_untrusted |-> {"inspect_provenance"}]

\* The autonomy budget and the retries.
BudgetSteps ==
  [autonomy_budget_unknown |-> {"narrow_action_scope"},
   autonomy_budget_not_tracked |-> {"narrow_action_scope"},
   autonomy_budget_warning |->
     {"narrow_action_scope", "refresh_context", "inspect_progress_state"},
   autonomy_budget_exceeded |-> Stop,
   retry_count_high |-> {"narrow_action_scope", "limit_retry_scope"},
   retry_budget_warning |->
     {"narrow_action_scope", "limit_retry_scope", "inspect_progress_state"},
   retry_budget_exceeded |-> Stop]

\* Repeated deferrals, progress, scope, churn and the context budget.
ProgressSteps ==
  [repeated_defer_detected |-> {"narrow_action_scope", "inspect_progress_state"},
   repeated_defer_limit_reached |->
     {"narrow_action_scope", "inspect_progress_state"} \cup Stop,
   no_net_progress_detected |->
     {"narrow_action_scope", "inspect_progress_state"} \cup Stop,
   no_progress_evidence_missing |-> {"inspect_progress_state"},
   action_scope_too_broad |-> {"narrow_action_scope"},
   diff_churn_unknown |-> {"inspect_progress_state"},
   diff_churn_high |-> {"narrow_action_scope", "inspect_progress_state"},
   context_budget_unknown |-> {"refresh_context"},
   context_budget_warning |-> {"narrow_action_scope", "refresh_context"},
   context_budget_exceeded |-> {"narrow_action_scope"} \cup Stop]

BudgetDrivers == DOMAIN BudgetSteps \cup DOMAIN ProgressSteps
StepsOf == EvidenceSteps ++ CommandSteps ++ SensitivitySteps ++ LandingSteps
             ++ RecoverySteps ++ ProvenanceSteps ++ BudgetSteps ++ ProgressSteps

-----------------------------------------------------------------------------
(* buildUncertaintyReductionPlan *)

SecretDrivers ==
  {"secret_path_detected", "secret_pattern_detected", "secret_material_detected"}

\* What only reading more would settle, which a secret forbids.
SecretUnsafeDrivers ==
  {"target_file_not_observed", "target_file_freshness_unknown", "target_file_stale",
   "target_file_hash_changed", "related_tests_not_observed", "context_completeness_low",
   "context_completeness_medium", "sensitive_path_detected", "sensitive_surface_detected",
   "sensitive_context_missing", "sensitive_surface_context_incomplete"}
SensitiveReducibleDrivers ==
  {"sensitive_context_missing", "sensitive_surface_context_incomplete",
   "sensitive_validation_missing"}
SensitiveReviewDrivers == {"sensitive_path_detected", "sensitive_surface_detected"}

\* Faulty variant of NormalizedDrivers: a secret does not keep files unread.
NormalizedForReview(D) ==
  D \ (IF "sensitive_change_review_required" \in D
            /\ D \cap SensitiveReducibleDrivers = {}
       THEN SensitiveReviewDrivers ELSE {})

\* normalizeDriversForPlan: of a secret nothing more is read, and a sensitive
\* change that is ready for review needs no more reading either.
NormalizedDrivers(D) ==
  D \ ((IF D \cap SecretDrivers # {} THEN SecretUnsafeDrivers ELSE {}) \cup
       (IF "sensitive_change_review_required" \in D
             /\ D \cap SensitiveReducibleDrivers = {}
        THEN SensitiveReviewDrivers ELSE {}))

StepsFor(D) == UNION {StepsOf[d] : d \in D \cap DOMAIN StepsOf}
Plan(D) == StepsFor(NormalizedDrivers(D))

\* expectedNextDecisionForReductionPlan.  Human review that only the budget asks
\* for foretells nothing.
ExpectedAfter(D) ==
  LET N == NormalizedDrivers(D)
      steps == StepsFor(N)
      stopping == {d \in N \cap DOMAIN StepsOf : Stop \subseteq StepsOf[d]}
  IN IF steps = {} \/ (steps = Stop /\ stopping \subseteq BudgetDrivers) THEN "UNKNOWN"
     ELSE IF Stop \subseteq steps THEN "ESCALATE"
     ELSE "PROCEED_OR_ESCALATE"
=============================================================================
