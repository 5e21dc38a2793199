--------------------------- MODULE DecisionEngine ---------------------------
(***************************************************************************)
(* The decision engine: a policy is a sequence of rules, a decision is     *)
(* that of the winning rule among those whose conditions the signals meet, *)
(* and a DEFER says why, what to fetch and what to expect afterwards.      *)
(*                                                                         *)
(* A rule's "when" maps the signals it mentions to the values it accepts;  *)
(* scores are in percent.                                                  *)
(***************************************************************************)
EXTENDS Naturals, Sequences, SignalRecords

Postures == {"PROCEED", "DEFER", "ESCALATE", "BLOCK"}
Severity == [PROCEED |-> 0, DEFER |-> 1, ESCALATE |-> 2, BLOCK |-> 3]

-----------------------------------------------------------------------------
(* Rule evaluation *)

Matches(rule, s) ==
  \A name \in DOMAIN rule.when :
    name \in DOMAIN s /\ s[name] \in rule.when[name]
MatchedRules(rules, s) == {n \in DOMAIN rules : Matches(rules[n], s)}

AcceptsSome(rule, name, values) ==
  name \in DOMAIN rule.when /\ rule.when[name] \cap values # {}
IsReducibleDeferRule(rule) ==
  /\ rule.decision = "DEFER"
  /\ \/ AcceptsSome(rule, "target_file_freshness", {"unknown", "stale", "missing"})
     \/ AcceptsSome(rule, "validation_status", {"not_run", "stale"})
IsContextDeferRule(rule) ==
  rule.decision = "DEFER" /\ "context_completeness_score" \in DOMAIN rule.when

\* The rules are in order: Array.find takes the first, and chooseBySeverity
\* the first of the most severe.
FirstOf(N) == CHOOSE n \in N : \A m \in N : n <= m
ChooseBySeverity(rules, N) ==
  FirstOf({n \in N : \A m \in N :
             Severity[rules[m].decision] <= Severity[rules[n].decision]})

\* Faulty variant of ChooseWinningRule: evidence comes before everything else.
WinnerEvidenceFirst(rules, N) ==
  LET reducible == {n \in N : IsReducibleDeferRule(rules[n])} IN
  IF reducible # {} THEN FirstOf(reducible) ELSE ChooseBySeverity(rules, N)

ChooseWinningRule(rules, N) ==
  LET blocks    == {n \in N : rules[n].decision = "BLOCK"}
      reducible == {n \in N : IsReducibleDeferRule(rules[n])}
      context   == {n \in N : IsContextDeferRule(rules[n])}
  IN CASE blocks # {} -> FirstOf(blocks)
       [] blocks = {} /\ reducible # {} -> FirstOf(reducible)
       [] blocks = {} /\ reducible = {} /\ context # {} -> FirstOf(context)
       [] OTHER -> ChooseBySeverity(rules, N)

\* Without a matching rule the action proceeds.
NoRule == [id |-> "none", decision |-> "PROCEED"]
WinningRule(rules, N) ==
  IF N = {} THEN NoRule ELSE rules[ChooseWinningRule(rules, N)]
DecisionOf(rules, s) == WinningRule(rules, MatchedRules(rules, s)).decision

-----------------------------------------------------------------------------
(* The details of a DEFER *)

FreshnessCategory == [unknown |-> "target_file_never_read",
                      stale   |-> "target_file_stale",
                      missing |-> "target_file_missing"]
ValidationCategory == [not_run |-> "validation_not_run",
                       stale   |-> "validation_stale"]
TargetCategories == {FreshnessCategory[st] : st \in DOMAIN FreshnessCategory}
                      \cup {"metadata_only_observation"}
ValidationCategories == {"validation_not_run", "validation_stale"}

ClassifyDeferReason(rules, N, s) ==
  LET freshness  == SignalOf(s, "target_file_freshness")
      validation == SignalOf(s, "validation_status")
      reducible  == \E n \in N : IsReducibleDeferRule(rules[n])
  IN CASE reducible /\ freshness = "unknown"
               /\ IsSet(s, "metadata_only") -> "metadata_only_observation"
       [] reducible /\ freshness \in DOMAIN FreshnessCategory
               /\ ~(freshness = "unknown" /\ IsSet(s, "metadata_only"))
            -> FreshnessCategory[freshness]
       [] reducible /\ freshness \notin DOMAIN FreshnessCategory
               /\ validation \in DOMAIN ValidationCategory
            -> ValidationCategory[validation]
       [] OTHER ->
            IF (\E n \in N : IsContextDeferRule(rules[n]))
                 \/ IsBelow(s, "context_completeness_score", 70)
            THEN "context_incomplete" ELSE "unknown_defer_reason"

RelatedTests(s) == IF "related_test_paths" \in DOMAIN s
                   THEN s.related_test_paths ELSE {}

\* What buildMissingContext and buildFetchPlan list for a category, the same
\* files to read or the validation to run.
ContextFor(category, s) ==
  CASE category \in TargetCategories -> {s.target_path}
    [] category \in ValidationCategories -> {"validation"}
    [] category = "context_incomplete" -> RelatedTests(s)
    [] OTHER -> {}

\* Faulty variant of FetchPlan: the related tests wait for the next DEFER.
FetchPlanOfCategory(category, s) == ContextFor(category, s)

\* The unread related tests are appended to any other category's list.
FetchPlan(category, s) ==
  ContextFor(category, s) \cup
    (IF category # "context_incomplete" /\ IsSet(s, "related_tests_found")
          /\ IsCleared(s, "related_tests_read")
     THEN RelatedTests(s) ELSE {})

IsSensitiveOrDestructive(s) ==
  \/ SignalOf(s, "path_sensitivity") \in {"high", "critical"}
  \/ IsSet(s, "destructive_operation")

\* Faulty variant of ExpectedNextDecision: only the path counts.
ExpectedBySensitivity(category, s) ==
  CASE category \in TargetCategories \cup {"context_incomplete"} ->
         IF SignalOf(s, "path_sensitivity") \in {"high", "critical"}
         THEN "ESCALATE" ELSE "PROCEED"
    [] category \in ValidationCategories -> "PROCEED"
    [] OTHER -> "UNKNOWN"

ExpectedNextDecision(category, s) ==
  CASE category \in TargetCategories \cup {"context_incomplete"} ->
         IF IsSensitiveOrDestructive(s) THEN "ESCALATE" ELSE "PROCEED"
    [] category \in ValidationCategories -> "PROCEED"
    [] OTHER -> "UNKNOWN"

\* The decision and the rule that made it, with what the details of a DEFER
\* promise.
Decide(rules, s) ==
  LET N == MatchedRules(rules, s)
      winner == WinningRule(rules, N)
      category == ClassifyDeferReason(rules, N, s)
  IN IF winner.decision # "DEFER"
     THEN [decision |-> winner.decision, rule |-> winner.id, plan |-> {},
           expected |-> "none", pendingEscalation |-> FALSE]
     ELSE [decision |-> "DEFER", rule |-> winner.id,
           plan |-> FetchPlan(category, s),
           expected |-> ExpectedNextDecision(category, s),
           pendingEscalation |-> \E n \in N : rules[n].decision = "ESCALATE"]

-----------------------------------------------------------------------------
(* The default policy *)

Rule(id, decision, when) == [id |-> id, decision |-> decision, when |-> when]
MutatingTypes == {"edit_file", "write_file", "delete_file"}
NotRunOrStale == {"not_run", "stale"}

DefaultRules == <<
  Rule("read-before-write", "DEFER",
       [action_type |-> MutatingTypes,
        target_file_freshness |-> {"stale", "unknown", "missing"}]),
  Rule("block-workspace-escape", "BLOCK",
       [workspace_boundary_violation |-> {TRUE}, mutates_filesystem |-> {TRUE}]),
  Rule("block-critical-command", "BLOCK", [command_risk_score |-> {"critical"}]),
  Rule("escalate-high-risk-command", "ESCALATE", [command_risk_score |-> {"high"}]),
  Rule("escalate-destructive-file-change", "ESCALATE",
       [destructive_operation |-> {TRUE}, mutates_filesystem |-> {TRUE}]),
  Rule("escalate-sensitive-change", "ESCALATE",
       [path_sensitivity |-> {"high", "critical"}, action_type |-> MutatingTypes]),
  Rule("block-secret-content-in-mutation", "BLOCK",
       [secret_touch |-> {"probable", "confirmed"}, mutates_filesystem |-> {TRUE}]),
  Rule("block-secret-read", "BLOCK",
       [secret_touch |-> {"probable", "confirmed"},
        action_type |-> {"read_file", "run_command"}]),
  Rule("require-validation-before-commit", "DEFER",
       [validation_required |-> {TRUE}, validation_scope |-> {"before_commit"},
        validation_status |-> NotRunOrStale]),
  Rule("require-validation-before-push", "DEFER",
       [validation_required |-> {TRUE}, validation_scope |-> {"before_push"},
        validation_status |-> NotRunOrStale]),
  Rule("block-failed-validation-before-commit", "BLOCK",
       [validation_required |-> {TRUE}, validation_scope |-> {"before_commit"},
        validation_status |-> {"failed"}]),
  Rule("block-failed-validation-before-push", "BLOCK",
       [validation_required |-> {TRUE}, validation_scope |-> {"before_push"},
        validation_status |-> {"failed"}]),
  Rule("require-related-tests", "DEFER", [context_completeness_score |-> 0..69]),
  Rule("block-force-push", "BLOCK", [force_push |-> {TRUE}]),
  Rule("block-hook-bypass", "BLOCK", [hook_bypass |-> {TRUE}]),
  Rule("block-protected-branch-push", "BLOCK", [direct_mainline_push |-> {TRUE}]),
  Rule("escalate-direct-mainline-commit", "ESCALATE",
       [direct_mainline_commit |-> {TRUE}]),
  Rule("defer-unknown-git-state", "DEFER", [branch_risk |-> {"unknown"}]),
  Rule("block-critical-landing-action", "BLOCK", [landing_risk |-> {"critical"}]),
  Rule("escalate-high-risk-landing-action", "ESCALATE", [landing_risk |-> {"high"}]),
  Rule("defer-landing-with-unknown-state", "DEFER",
       [landing_action |-> {TRUE}, landing_risk |-> {"unknown"}]),
  Rule("pause-runaway-session", "DEFER", [autonomy_budget_status |-> {"exceeded"}])
>>
=============================================================================
