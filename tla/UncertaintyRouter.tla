-------------------------- MODULE UncertaintyRouter --------------------------
(***************************************************************************)
(* The advice of the uncertainty router: what a profile alone recommends,  *)
(* beside the decision of the engine.                                      *)
(***************************************************************************)
EXTENDS UncertaintyProfile, ReductionPlan

\* Faulty variant of BlockingDrivers: leaving the workspace does not block.
BlockingInside ==
  {"command_risk_critical", "pipe_to_shell_detected", "secret_path_detected",
   "secret_pattern_detected", "secret_material_detected",
   "force_push_detected", "hook_bypass_detected", "production_environment_detected",
   "environment_risk_critical", "publish_surface_detected", "release_surface_detected",
   "package_publish_detected"}

BlockingDrivers ==
  {"command_risk_critical", "pipe_to_shell_detected", "secret_path_detected",
   "secret_pattern_detected", "secret_material_detected", "workspace_boundary_violation",
   "force_push_detected", "hook_bypass_detected", "production_environment_detected",
   "environment_risk_critical", "publish_surface_detected", "release_surface_detected",
   "package_publish_detected"}
EscalationDrivers ==
  {"sensitive_path_detected", "sensitive_surface_detected",
   "sensitive_change_review_required", "protected_branch_risk", "direct_mainline_risk",
   "git_workflow_risk_critical", "git_workflow_risk_high", "validation_failed",
   "command_risk_high", "privileged_command_detected", "destructive_command_detected",
   "irreversible_operation_risk", "autonomy_budget_exceeded", "retry_budget_exceeded",
   "repeated_defer_limit_reached", "no_net_progress_detected", "context_budget_exceeded",
   "provenance_untrusted", "environment_risk_high"}

\* The sensitive surfaces and the evidence they may lack.
SensitiveSurfaceDrivers ==
  {"sensitive_path_detected", "sensitive_surface_detected",
   "sensitive_change_review_required"}
SensitiveMissingDrivers ==
  {"sensitive_context_missing", "sensitive_surface_context_incomplete",
   "sensitive_validation_missing", "target_file_not_observed",
   "target_file_freshness_unknown", "target_file_stale", "target_file_hash_changed",
   "related_tests_not_observed", "context_completeness_low", "context_completeness_medium",
   "validation_missing", "validation_stale", "validation_target_unclear",
   "validation_unknown", "validation_running"}

\* The ways not to know how to recover.
RecoveryUnknownDrivers ==
  {"recovery_state_unknown", "rollback_confidence_unknown",
   "destructive_operation_recovery_unknown", "recovery_checkpoint_missing",
   "git_tracking_unknown", "workspace_recovery_boundary_unknown",
   "validation_recovery_evidence_missing"}

\* Faulty variant of DeferDrivers: a list that has not kept up with the others.
DeferOnEvidence ==
  SensitiveMissingDrivers \cup {"target_file_missing", "git_state_unknown"}

\* What may be deferred for.
DeferDrivers ==
  (SensitiveMissingDrivers \cup RecoveryUnknownDrivers) \cup
  {"target_file_missing", "command_classification_unknown", "package_script_unknown",
   "package_script_classification_missing", "deployment_command_detected",
   "environment_unknown", "environment_classification_missing", "deploy_target_ambiguous",
   "workspace_boundary_unknown", "git_state_unknown", "dirty_worktree_detected",
   "autonomy_budget_unknown", "autonomy_budget_not_tracked", "autonomy_budget_warning",
   "retry_count_unknown", "retry_count_high", "retry_budget_warning",
   "repeated_defer_detected", "no_progress_evidence_missing", "action_scope_too_broad",
   "diff_churn_unknown", "diff_churn_high", "context_budget_unknown",
   "context_budget_warning", "provenance_unknown", "delegated_action_provenance_unknown",
   "provenance_partial", "secret_material_possible"}

-----------------------------------------------------------------------------
HasOrdinaryStep(steps) == steps \ Stop # {}

\* A sensitive surface that lacks evidence, and a destructive operation of which
\* nothing else is to be feared than that it cannot be undone.
LacksSensitiveEvidence(D) ==
  D \cap SensitiveSurfaceDrivers # {} /\ D \cap SensitiveMissingDrivers # {}
LacksRecovery(D) ==
  /\ D \cap RecoveryUnknownDrivers # {}
  /\ D \cap EscalationDrivers \subseteq {"destructive_command_detected"}

NeedsHuman(F) ==
  LET D == DriversOf(F) IN
  \/ D \cap EscalationDrivers # {}
  \/ Plan(D) = Stop
  \/ HasHighImpact(F) /\ ~IsFullyReducible(F) /\ ~HasOrdinaryStep(Plan(D))
IsUncertain(F) == ~IsLow(F) \/ LacksEvidence(F)

\* Faulty variant of Route: what can be reduced is deferred before it is escalated.
RouteDeferFirst(F) ==
  LET D == DriversOf(F)
      ordinary == HasOrdinaryStep(Plan(D))
  IN IF D \cap BlockingDrivers # {} THEN "BLOCK"
     ELSE IF ordinary /\ D \cap DeferDrivers # {} THEN "DEFER"
     ELSE IF NeedsHuman(F) THEN "ESCALATE"
     ELSE IF IsLow(F) /\ ~LacksEvidence(F) /\ Plan(D) = {} THEN "PROCEED"
     ELSE IF ordinary THEN "DEFER"
     ELSE "ESCALATE"

\* Faulty variant of Route: a human is asked before there is evidence to review.
RouteHumanFirst(F) ==
  LET D == DriversOf(F)
      ordinary == HasOrdinaryStep(Plan(D))
  IN IF D \cap BlockingDrivers # {} THEN "BLOCK"
     ELSE IF NeedsHuman(F) THEN "ESCALATE"
     ELSE IF ordinary THEN "DEFER"
     ELSE IF IsLow(F) /\ ~LacksEvidence(F) THEN "PROCEED"
     ELSE "ESCALATE"

\* routeUncertainty, a rule to a line.
Route(F) ==
  LET D == DriversOf(F)
      ordinary == HasOrdinaryStep(Plan(D))
  IN IF D \cap BlockingDrivers # {} THEN "BLOCK"
     ELSE IF ordinary /\ (LacksSensitiveEvidence(D) \/ LacksRecovery(D)) THEN "DEFER"
     ELSE IF NeedsHuman(F) THEN "ESCALATE"
     ELSE IF IsUncertain(F) /\ ordinary /\ D \cap DeferDrivers # {} THEN "DEFER"
     ELSE IF IsLow(F) /\ ~LacksEvidence(F) /\ Plan(D) = {} THEN "PROCEED"
     ELSE IF ordinary THEN "DEFER"
     ELSE "ESCALATE"
=============================================================================
