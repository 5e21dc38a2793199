------------------------------ MODULE Detectors ------------------------------
(***************************************************************************)
(* The safety-signal detectors: what they report of a proposal in a world. *)
(*                                                                         *)
(* A proposal is what the classifiers make of an action: for a file action *)
(* the type, where its target lies, which patterns its path and content    *)
(* match; for a command the tool, the subcommand and the options that      *)
(* count; for both whether its origin names a tool or an agent.  A world   *)
(* is the files and their latest observations, the latest result of each   *)
(* validation command, and the git repository.                             *)
(***************************************************************************)
EXTENDS Naturals, FiniteSets, Verdicts, SignalRecords

IsFileAction(p) == p.type \in {"edit_file", "write_file", "delete_file"}

-----------------------------------------------------------------------------
(* File actions *)

\* classifyPathSensitivity: the strongest level a pattern gives the path.
PathSensitivity(p) ==
  CASE "critical" \in p.levels -> "critical"
    [] "critical" \notin p.levels /\ "high" \in p.levels -> "high"
    [] p.levels = {"medium"} -> "medium"
    [] OTHER -> "low"

\* evaluateDestructiveAction: deletions, and edits and overwrites that lose much.
\* Two findings of which one weighs 75 make a "critical" one.
IsDestructive(p) == p.type = "delete_file" \/ p.destructive # "none"
DestructiveScore(p) ==
  IF p.type = "delete_file" THEN 85 ELSE IF p.destructive = "critical" THEN 90 ELSE 75

\* classifySecretPath finds something in the target's path.
IsSecretPath(p) == p.secret \in {"credential", "certificate"}

\* secretDetector: a credential's path makes a mutation "probable", a
\* certificate's only "possible"; secrets in the content count by themselves.
SecretTouch(p) ==
  CASE p.secret \in {"credential", "content"} -> "probable"
    [] p.secret = "certificate" -> "possible"
    [] OTHER -> "none"

\* What these report, with the metadata and the workspace boundary.  Scores are
\* in percent; what a single finding of an edit weighs, 60 to 75, is 75.
FileRiskSignals(p) ==
  [action_type |-> p.type, target_path |-> p.target, mutates_filesystem |-> TRUE,
   destructive_operation |-> IsDestructive(p),
   workspace_boundary_violation |-> p.outside,
   workspace_boundary_status |-> IF p.outside THEN "outside" ELSE "inside",
   path_sensitivity |-> PathSensitivity(p), secret_touch |-> SecretTouch(p),
   secret_path_match |-> IsSecretPath(p),
   secret_pattern_match |-> p.secret = "content"]
    ++ When(IsDestructive(p),
            [destructive_score |-> DestructiveScore(p),
             destructive_severity |->
               IF p.type # "delete_file" THEN p.destructive ELSE "high"])

\* readBeforeWriteDetector: the freshness of a secret path is not checked.
ReadBeforeWriteSignals(p, w) ==
  LET freshness == IF IsSecretPath(p) THEN "unknown"
                   ELSE Freshness(w.obs[p.target], w.disk[p.target])
      hashed == ~IsSecretPath(p) /\ w.obs[p.target] \notin {"never", "missing", "metadata"}
  IN [target_file_freshness |-> freshness,
      target_file_read_recently |-> freshness = "fresh",
      metadata_only |-> ~IsSecretPath(p) /\ w.obs[p.target] = "metadata"]
       ++ When(freshness = "stale" \/ (freshness = "missing" /\ w.obs[p.target] # "missing"),
               [file_changed_since_read |-> TRUE])
       ++ When(freshness = "fresh", [file_changed_since_read |-> FALSE])
       ++ When(hashed, [last_read_hash |-> w.obs[p.target]])

\* findRelatedContext: the candidate tests that exist.
ExistingTests(p, w) == {t \in p.tests : w.disk[t] # "absent"}
IsFresh(f, w) == Freshness(w.obs[f], w.disk[f]) = "fresh"

\* Faulty variant of RelatedContextSignals: every related test must be fresh.
EveryTestSignals(p, w) ==
  LET found   == ExistingTests(p, w)
      allRead == found # {} /\ \A t \in found : IsFresh(t, w)
  IN IF p.type = "delete_file" THEN << >>
     ELSE [related_tests_found |-> found # {}, related_tests_read |-> allRead,
           related_test_paths |-> found,
           context_completeness_score |->
             IF found # {} /\ ~allRead THEN 50 ELSE 100]

\* relatedContextDetector and computeContextCompleteness: one fresh test will
\* do, and no test at all is complete.
RelatedContextSignals(p, w) ==
  LET found   == ExistingTests(p, w)
      oneRead == \E t \in found : IsFresh(t, w)
  IN IF p.type = "delete_file" THEN << >>
     ELSE [related_tests_found |-> found # {}, related_tests_read |-> oneRead,
           related_test_paths |-> found,
           context_completeness_score |->
             IF found # {} /\ ~oneRead THEN 50 ELSE 100]

-----------------------------------------------------------------------------
(* Commands *)

\* classifyLandingAction of landing/: git without a subcommand counts.
LandingType(p) ==
  CASE p.tool = "git" /\ p.sub \in {"commit", "push", "merge", "rebase"} -> p.sub
    [] p.tool = "git" /\ p.sub = "bare" -> "unknown_landing"
    [] p.tool # "git" /\ p.sub \in {"deploy", "publish", "release"} -> p.sub
    [] OTHER -> "none"

\* getGitState outside a repository, or on a detached head, has no branch.
OnProtectedBranch(w) == w.repo.git /\ w.repo.branch = "protected"
IsDirty(w) == w.repo.git /\ w.repo.dirty

\* A push names its branch, or takes the current one.
PushesToProtected(p, w) ==
  /\ p.tool = "git" /\ p.sub = "push"
  /\ IF p.refspec = "none" THEN OnProtectedBranch(w) ELSE p.refspec = "protected"
ForcesPush(p) == p.tool = "git" /\ p.sub = "push" /\ p.force # "no"
BypassesHooks(p) == p.tool = "git" /\ p.sub \in {"commit", "push"} /\ p.bypass

MutatesGit(p) == p.sub \in {"commit", "push", "merge", "rebase"}

\* computeBranchRisk, for which all that is less than "high" is "low".
BranchRisk(p, w) ==
  IF ~w.repo.git THEN "unknown"
  ELSE IF ForcesPush(p) \/ BypassesHooks(p) \/ PushesToProtected(p, w) THEN "critical"
  ELSE IF MutatesGit(p) /\ w.repo.branch \in {"protected", "detached"} THEN "high"
  ELSE "low"

\* gitWorkflowDetector.
GitWorkflowSignals(p, w) ==
  When(p.tool = "git",
       [force_push |-> ForcesPush(p), hook_bypass |-> BypassesHooks(p),
        branch_risk |-> BranchRisk(p, w),
        direct_mainline_commit |-> p.sub = "commit" /\ OnProtectedBranch(w),
        direct_mainline_push |-> PushesToProtected(p, w)]
         ++ When(w.repo.git, [protected_branch |-> OnProtectedBranch(w),
                              is_dirty_worktree |-> IsDirty(w)]))

\* classifyLandingAction of validation/ and getValidationCommands.
ValidationScope(p) ==
  CASE p.tool = "git" /\ p.sub \in {"commit", "merge"} -> "before_commit"
    [] p.tool = "git" /\ p.sub = "push" -> "before_push"
    [] p.tool = "git" /\ p.sub = "bare" -> "unknown"
    [] OTHER -> "none"
RequiredCommands(scope) ==
  CASE scope = "before_commit" -> {"test", "lint", "typecheck"}
    [] scope = "before_push" -> {"test", "build"}
    [] OTHER -> {}

ValidationStatus(p, w) ==
  IF ValidationScope(p) \in {"before_commit", "before_push"}
  THEN StrongestStatus(w.results, RequiredCommands(ValidationScope(p)))
  ELSE IF ValidationScope(p) = "unknown" THEN "unknown" ELSE "none"
ValidationGateSignals(p, w) ==
  When(ValidationScope(p) # "none",
       [validation_scope |-> ValidationScope(p),
        validation_status |-> ValidationStatus(p, w)])
    ++ When(ValidationScope(p) \notin {"none", "unknown"},
            [validation_required |-> TRUE])

\* classifyCommandRisk: what is not recognized, a push among it, is "unknown".
ForcesPlainly(p) == p.tool = "git" /\ p.sub = "push" /\ p.force = "plain"
CommandRisk(p) ==
  CASE ForcesPlainly(p) \/ p.sub = "pipe" -> "critical"
    [] ~ForcesPlainly(p) /\ (BypassesHooks(p) \/ p.sub \in {"rebase", "sudo"}) -> "high"
    [] ~BypassesHooks(p) /\ p.sub \in {"commit", "merge", "move", "install"} -> "medium"
    [] p.sub \in {"status", "list"} -> "low"
    [] OTHER -> "unknown"

\* commandRiskDetector: every "critical" command is destructive.  A flag the
\* classifier leaves out is FALSE.
CommandRiskSignals(p) ==
  [command_risk_score |-> CommandRisk(p),
   destructive_operation |-> CommandRisk(p) = "critical",
   pipe_to_shell |-> p.sub = "pipe", uses_sudo |-> p.sub = "sudo",
   network_exposure |-> p.sub \in {"pipe", "install"},
   mutates_filesystem |-> p.sub \in {"move", "install"}]
    ++ When(CommandRisk(p) = "critical", [destructive_severity |-> "critical"])
    ++ When(p.sub \in {"move", "install"}, [command_category |-> "local_write"])

\* computeLandingRisk, in its order: direct, forced and bypassing pushes, failed
\* validation, deployments, releases, protected branches, a dirty push,
\* missing validation, and the rest by type.
LandingRisk(p, w) ==
  LET type == LandingType(p) IN
  IF type = "none" THEN "low"
  ELSE IF PushesToProtected(p, w) \/ ForcesPush(p) \/ BypassesHooks(p) THEN "critical"
  ELSE IF ValidationStatus(p, w) = "failed" THEN "high"
  ELSE IF type = "deploy"
       THEN (IF p.environment = "production" THEN "critical" ELSE "high")
  ELSE IF type \in {"publish", "release"}
       THEN (IF OnProtectedBranch(w) THEN "critical" ELSE "high")
  ELSE IF OnProtectedBranch(w) /\ type \in {"commit", "merge", "rebase"} THEN "high"
  ELSE IF IsDirty(w) /\ type = "push" THEN "high"
  ELSE IF type \in {"commit", "push", "merge", "rebase"}
            \/ ValidationStatus(p, w) \in {"not_run", "stale"} THEN "medium"
  ELSE "unknown"

\* landingGateDetector: no deployment or release is rated by an earlier rule.
LandingGateSignals(p, w) ==
  LET type == LandingType(p)
      risk == LandingRisk(p, w)
  IN [landing_action |-> type # "none", landing_risk |-> risk]
       ++ When(type # "none", [landing_action_type |-> type, requires_validation |-> TRUE])
       ++ When(type = "deploy", [deployment_risk |-> risk,
                                 environment_classification |-> p.environment])
       ++ When(type \in {"publish", "release"}, [release_risk |-> risk])

-----------------------------------------------------------------------------
\* computeSafetySignals: what the detectors report, merged.  A command has no
\* path to classify and no file to look for outside the workspace.
FileSignals(p, w) ==
  FileRiskSignals(p) ++ ReadBeforeWriteSignals(p, w) ++ RelatedContextSignals(p, w)
    ++ [landing_action |-> FALSE, landing_risk |-> "low"]
CommandSignals(p, w) ==
  [action_type |-> p.type, path_sensitivity |-> "unknown", secret_touch |-> "none",
   workspace_boundary_status |-> "not_applicable"]
    ++ GitWorkflowSignals(p, w) ++ ValidationGateSignals(p, w)
    ++ CommandRiskSignals(p) ++ LandingGateSignals(p, w)
Signals(p, w) ==
  [delegation_provenance |-> IF p.named THEN "partial" ELSE "unknown"]
    ++ (IF IsFileAction(p) THEN FileSignals(p, w) ELSE CommandSignals(p, w))
=============================================================================
