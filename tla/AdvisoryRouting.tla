--------------------------- MODULE AdvisoryRouting ---------------------------
(***************************************************************************)
(* The uncertainty router beside the decision engine: one proposal in a    *)
(* changing world, whose signals the caller may override, while an         *)
(* autonomy budget is being used up.  Nothing in the program acts on the   *)
(* advice, so what matters is how it relates to the decision, and whether  *)
(* what it promises comes true.                                            *)
(***************************************************************************)
EXTENDS Worlds, DecisionEngine, UncertaintyRouter

CONSTANTS
  Provided,    \* what callers may provide in place of detected signals
  Reports,     \* what the budget's tracker may report: [field, value]
  MaxReports,  \* bound: the fields a tracker reports
  MaxDrift     \* bound: changes of the world the agent did not ask for

ASSUME AdvisoryBounds == MaxReports \in Nat /\ MaxDrift \in Nat

VARIABLES
  proposal,  \* the action under decision
  provided,  \* the signals its caller provides
  world,     \* files, observations, validation results, repository
  budget,    \* what the tracker has reported, by field
  drift,     \* how much of the bound is used up
  assessed   \* what engine and router make of all this

vars == <<proposal, provided, world, budget, drift, assessed>>

\* computeSafetySignals, where what the caller provides overrides what was
\* detected; the engine's verdict on the signals, the profile and its routing.
Assess(w, b) ==
  LET s == provided ++ Signals(proposal, w)
      F == Profile(s, b)
  IN [signals |-> s, verdict |-> DecisionOf(DefaultRules, s), advice |-> Route(F),
      drivers |-> DriversOf(F), plan |-> Plan(DriversOf(F)),
      expected |-> ExpectedAfter(DriversOf(F))]

-----------------------------------------------------------------------------
NotAssessed == [signals |-> << >>, verdict |-> "none", advice |-> "none",
                drivers |-> {}, plan |-> {}, expected |-> "none"]

\* Nothing was observed, validated, reported or asked yet.
Init ==
  /\ proposal \in Proposals
  /\ provided \in Provided
  /\ world \in FreshWorlds(proposal)
  /\ budget = << >>
  /\ drift = 0
  /\ assessed = NotAssessed

\* What changed is assessed at once: decisions keep nothing from one another.
Reassess == assessed' = Assess(world', budget')

\* decide, on the proposal as it comes.
FirstDecision ==
  /\ assessed = NotAssessed
  /\ UNCHANGED <<proposal, provided, world, budget, drift>>
  /\ Reassess

\* read, in full or not.
ReadFile(f, mode) ==
  /\ IsFileAction(proposal)
  /\ world.disk[f] # "absent"
  /\ world' = AfterReading(world, f, mode)
  /\ UNCHANGED <<proposal, provided, budget, drift>>
  /\ Reassess

\* validate: a required command passes or fails.
RunCommand(c, status) ==
  /\ c \in RequiredFor(proposal)
  /\ world' = AfterResult(world, c, status)
  /\ UNCHANGED <<proposal, provided, budget, drift>>
  /\ Reassess

\* What the environment does to the world, as far as it matters to the proposal.
Drift ==
  /\ drift < MaxDrift
  /\ world' \in Drifts(proposal, world)
  /\ drift' = drift + 1
  /\ UNCHANGED <<proposal, provided, budget>>
  /\ Reassess

\* The tracker reports one more field of AutonomyBudgetProfileInput.
Report(r) ==
  /\ Cardinality(DOMAIN budget) < MaxReports
  /\ r.field \notin DOMAIN budget
  /\ budget' = [f \in {r.field} |-> r.value] ++ budget
  /\ UNCHANGED <<proposal, provided, world, drift>>
  /\ Reassess

Next ==
  \/ FirstDecision
  \/ \E f \in Files, mode \in {"full", "metadata"} : ReadFile(f, mode)
  \/ \E c \in Commands, status \in {"passed", "failed"} : RunCommand(c, status)
  \/ Drift
  \/ \E r \in Reports : Report(r)

Spec == Init /\ [][Next]_vars

-----------------------------------------------------------------------------
(* Properties *)

\* Every variable has its type, the profile is routed to a posture, and no driver
\* of it is unknown to both the plan and the router's lists.
TypeOK ==
  /\ proposal \in Proposals /\ provided \in Provided /\ world \in World
  /\ DOMAIN budget \subseteq {r.field : r \in Reports}
  /\ Cardinality(DOMAIN budget) <= MaxReports
  /\ drift \in 0..MaxDrift
  /\ assessed = NotAssessed \/ assessed.advice \in Postures
  /\ assessed.drivers \subseteq DOMAIN StepsOf \cup BlockingDrivers
                                  \cup EscalationDrivers \cup DeferDrivers

\* The advice is never laxer than the engine: it lets proceed only what the
\* engine lets proceed, and has nothing deferred that the engine blocks.  So it is
\* as long as callers leave alone what is detected of landing and sensitivity, and
\* but for a tracker whose status hides that of the signals (`??`), which the
\* engine pauses for.
DetectedNames ==
  {"landing_action", "landing_risk", "landing_action_type", "environment_classification",
   "release_risk", "force_push", "hook_bypass", "direct_mainline_push",
   "validation_required", "path_sensitivity", "matched_sensitive_path_level"}
HidesStatus ==
  /\ SignalOf(assessed.signals, "autonomy_budget_status") = "exceeded"
  /\ "autonomyBudgetStatus" \in DOMAIN budget
  /\ budget.autonomyBudgetStatus \notin {"exceeded", "warning", "unknown"}
AdviceNeverLaxer ==
  DOMAIN provided \cap DetectedNames = {} =>
    /\ assessed.advice = "PROCEED" =>
         assessed.verdict = IF HidesStatus THEN "DEFER" ELSE "PROCEED"
    /\ assessed.verdict = "BLOCK" => assessed.advice \in {"BLOCK", "ESCALATE"}

\* On a file action of a trusted origin the two agree as long as the budget is
\* not in question: profile, plan and router come to what 22 rules decide.  In
\* one case they differ: a destructive change of an ordinary path goes to a human
\* without the evidence the engine would have first.
SettledOrigin ==
  /\ IsFileAction(proposal) /\ ~IsSecretPath(proposal)
  /\ provided = [delegation_provenance |-> "trusted"]
  /\ budget = << >>
AdviceAgrees ==
  SettledOrigin =>
    assessed.advice =
      IF /\ assessed.verdict = "DEFER"
         /\ IsDestructive(proposal) /\ ~HasReviewableSurface(assessed.signals)
      THEN "ESCALATE" ELSE assessed.verdict

\* Of what holds a secret the plan has nothing read: no file, no test, no context.
ReadingSteps == {"read_target_file", "refresh_target_file", "read_related_tests",
                 "inspect_related_context"}
SecretsAreNotRead ==
  HasSecretSurface(assessed.signals) => assessed.plan \cap ReadingSteps = {}

\* A plan that only asks for reading keeps its promise: with all files read,
\* nothing more is deferred, and a human decides if that was announced.  So it is
\* for callers who leave to the detectors what reading settles, as no reading
\* changes what a caller says of it, and whether the path is a secret's, which
\* nobody reads.
SettledNames ==
  {"target_file_freshness", "target_file_read_recently", "related_tests_found",
   "related_tests_read", "context_completeness_score", "secret_path_match"}
AllRead == [world EXCEPT !.obs = world.disk]
PlanForetells ==
  /\ DOMAIN provided \cap SettledNames = {}
  /\ IsFileAction(proposal) /\ \A f \in FilesOf(proposal) : world.disk[f] # "absent"
  /\ assessed.advice = "DEFER" /\ assessed.plan \subseteq ReadingSteps \cup Stop
  => Assess(AllRead, budget).advice
       \in {"ESCALATE"} \cup On(assessed.expected # "ESCALATE", {"PROCEED"})

\* "... context-budget exceeded, or autonomy-budget exceeded conditions recommend
\* advisory ESCALATE unless an existing hard safety driver recommends BLOCK": and
\* unless a sensitive surface lacks evidence, which is gathered first.
IsExceeded ==
  \/ "exceeded" \in {SignalOf(budget, "retryBudgetStatus"),
                     SignalOf(budget, "contextBudgetStatus"),
                     SignalOf(budget, "autonomyBudgetStatus")}
  \/ SignalOf(assessed.signals, "autonomy_budget_status") = "exceeded"
       /\ "autonomyBudgetStatus" \notin DOMAIN budget
  \/ IsSet(budget, "repeatedDeferLimitReached") \/ IsSet(budget, "noNetProgress")
ExceededBudgetStops ==
  IsExceeded =>
    \/ assessed.advice \in {"ESCALATE", "BLOCK"}
    \/ LacksSensitiveEvidence(assessed.drivers)

\* What else a tracker reports of the budget never makes the advice laxer once
\* it is to block or to ask a human on a driver's account.  Only a status of its
\* own, which overrides the one in the signals, can do so, and evidence that no
\* step would bring: of a sensitive change that only a validation still running
\* keeps from review a human is asked, until a report adds a step to wait for.
OverridesStatus ==
  /\ "autonomy_budget_status" \in DOMAIN assessed.signals
  /\ "autonomyBudgetStatus" \in DOMAIN budget' \ DOMAIN budget
LacksUnplannedEvidence ==
  LacksSensitiveEvidence(assessed.drivers) /\ ~HasOrdinaryStep(assessed.plan)
ReportsKeepAdvice ==
  [][ /\ budget' # budget /\ ~OverridesStatus
      /\ \/ assessed.advice = "BLOCK"
         \/ /\ assessed.advice = "ESCALATE"
            /\ assessed.drivers \cap EscalationDrivers # {}
            /\ ~LacksUnplannedEvidence
      => assessed'.advice = assessed.advice ]_vars
=============================================================================
