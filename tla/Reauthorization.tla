--------------------------- MODULE Reauthorization ---------------------------
(***************************************************************************)
(* One proposal is decided under the default policy, the agent follows the *)
(* fetch plan of a DEFER (or does not), the world drifts, and the proposal *)
(* is decided again: what a DEFER promises against what comes of it.  This *)
(* is DeferRetry's protocol for one process and all 22 rules, and it       *)
(* justifies the summary of those rules DeferRetry runs on.                *)
(***************************************************************************)
EXTENDS Worlds, DecisionEngine

CONSTANT MaxDrift  \* bound: changes of the world the agent did not ask for

ASSUME MaxDriftType == MaxDrift \in Nat

VARIABLES
  proposal,  \* the action under decision
  world,     \* files, observations, validation results, repository
  last,      \* the last decision on the proposal
  todo,      \* what is left of its fetch plan
  since,     \* what happened since: "nothing", "gathering" or "drift"
  drift      \* how much of the bound is used up

vars == <<proposal, world, last, todo, since, drift>>

NoDecision == [decision |-> "none", rule |-> "none", plan |-> {},
               expected |-> "none", pendingEscalation |-> FALSE]

\* Evidence was gathered, or something else happened to the world.
Gathered == IF since = "drift" THEN "drift" ELSE "gathering"
Required == RequiredFor(proposal)

-----------------------------------------------------------------------------
\* Nothing has been decided yet.
Init ==
  /\ proposal \in Proposals
  /\ world \in FreshWorlds(proposal)
  /\ last = NoDecision
  /\ todo = {}
  /\ since = "drift"
  /\ drift = 0

\* Faulty variant of DecideProposal: the steps of the old plan are kept.
DecideKeepingPlan ==
  /\ since # "nothing"
  /\ last' = Decide(DefaultRules, Signals(proposal, world))
  /\ todo' = todo \cup last'.plan
  /\ since' = "nothing"
  /\ UNCHANGED <<proposal, world, drift>>

\* decide: the signals are computed, the engine decides.  In an unchanged world
\* it would only decide the same.
DecideProposal ==
  /\ since # "nothing"
  /\ last' = Decide(DefaultRules, Signals(proposal, world))
  /\ todo' = last'.plan
  /\ since' = "nothing"
  /\ UNCHANGED <<proposal, world, drift>>

\* read of an existing file, in full: a step of the plan, or one more.
ReadFile(f) ==
  /\ IsFileAction(proposal)
  /\ world.disk[f] # "absent"
  /\ world' = AfterReading(world, f, "full")
  /\ todo' = todo \ {f}
  /\ since' = Gathered
  /\ UNCHANGED <<proposal, last, drift>>

\* read --metadata-only, which no plan asks for.
GlanceAt(f) ==
  /\ IsFileAction(proposal)
  /\ world.disk[f] # "absent"
  /\ world' = AfterReading(world, f, "metadata")
  /\ since' = "drift"
  /\ UNCHANGED <<proposal, last, todo, drift>>

\* validate: one required command runs.  The plan's step is done once all
\* required commands have passed.
PassCommand(c) ==
  /\ c \in Required
  /\ world' = AfterResult(world, c, "passed")
  /\ todo' = IF \A d \in Required : world'.results[d] = "passed"
             THEN todo \ {Validation} ELSE todo
  /\ since' = Gathered
  /\ UNCHANGED <<proposal, last, drift>>
FailCommand(c) ==
  /\ c \in Required
  /\ world' = AfterResult(world, c, "failed")
  /\ since' = "drift"
  /\ UNCHANGED <<proposal, last, todo, drift>>

\* What the environment does to the world, as far as it matters to the proposal.
Drift ==
  /\ drift < MaxDrift
  /\ world' \in Drifts(proposal, world)
  /\ drift' = drift + 1
  /\ since' = "drift"
  /\ UNCHANGED <<proposal, last, todo>>

Next ==
  \/ DecideProposal
  \/ \E f \in Files : ReadFile(f) \/ GlanceAt(f)
  \/ \E c \in Commands : PassCommand(c) \/ FailCommand(c)
  \/ Drift

Spec == Init /\ [][Next]_vars

-----------------------------------------------------------------------------
(* Properties *)

\* Every variable has its type, and the plan names only files the proposal
\* concerns, or the validation.
TypeOK ==
  /\ proposal \in Proposals
  /\ world \in World
  /\ last.decision \in Postures \cup {"none"}
  /\ last.plan \subseteq Files \cup {Validation}
  /\ last.expected \in {"PROCEED", "ESCALATE", "UNKNOWN", "none"}
  /\ todo \subseteq last.plan
  /\ since \in {"nothing", "gathering", "drift"}
  /\ drift \in 0..MaxDrift

\* No rule, whatever its place in the policy, gets an action past the evidence
\* it needs: an action that may proceed or go to a human has a target observed
\* as it is and a fresh related test if there is any, or has passed each
\* validation command its landing requires.
EvidenceBeforeApproval ==
  since = "nothing" /\ last.decision \in {"PROCEED", "ESCALATE"} =>
    IF IsFileAction(proposal)
    THEN /\ ~IsSecretPath(proposal)
         /\ world.obs[Target] = world.disk[Target]
         /\ proposal.type # "delete_file" /\ ExistingTests(proposal, world) # {}
              => \E t \in proposal.tests : world.obs[t] = world.disk[t]
    ELSE \A c \in Required : world.results[c] = "passed"

\* The proposal is decided again, after its fetch plan was carried out and
\* nothing disturbed the world.
DecidedAgain == since # "nothing" /\ since' = "nothing"
PlanDone == last.plan # {} /\ todo = {} /\ since = "gathering"
HasSecretPath == IsFileAction(proposal) /\ IsSecretPath(proposal)

\* A fetch plan is complete: carried out once, it lifts the deferral, and the
\* next decision asks for no further evidence.  The exception is a target
\* with a secret path, see TargetReadOnceSuffices.
PlanSuffices ==
  [][ DecidedAgain /\ PlanDone /\ ~HasSecretPath => last'.plan = {} ]_vars

\* A deferral foretells its outcome.  Of a file action the expected decision is
\* the one that comes; a landing action that comes to need a human was
\* announced to, and none is blocked once its validation has passed.
OutcomeForetold ==
  [][ DecidedAgain /\ PlanDone /\ ~HasSecretPath =>
        IF IsFileAction(proposal) THEN last'.decision = last.expected
        ELSE /\ last'.decision # "BLOCK"
             /\ last'.decision = "ESCALATE" => last.pendingEscalation ]_vars

\* Evidence only lifts: between two decisions with nothing but reads and passed
\* validations in between, a decision changes only from DEFER, or from a
\* BLOCK for failed validation, and it never changes to BLOCK.
FailedValidationRules == {"block-failed-validation-before-commit",
                          "block-failed-validation-before-push"}
EvidenceOnlyLifts ==
  [][ DecidedAgain /\ since = "gathering" /\ last'.decision # last.decision =>
        /\ last.decision = "DEFER" \/ last.rule \in FailedValidationRules
        /\ last'.decision # "BLOCK" ]_vars

\* The summary of the rules that DeferRetry runs on is right: the verdict and
\* the evidence asked for follow from the risk, which is the decision with all
\* evidence at hand, and from freshness, related tests and validation alone.
Informed == [target_file_freshness |-> "fresh", metadata_only |-> FALSE,
             related_tests_found |-> FALSE, related_tests_read |-> FALSE,
             context_completeness_score |-> 100]
RiskOf(p, w) ==
  LET passed == [w EXCEPT !.results = [c \in Commands |-> "passed"]]
  IN DecisionOf(DefaultRules, IF IsFileAction(p) THEN Informed ++ Signals(p, w)
                                                 ELSE Signals(p, passed))
SummaryAgrees ==
  since = "nothing" =>
    IF IsFileAction(proposal)
    THEN LET st    == IF HasSecretPath THEN "unknown"
                      ELSE Freshness(world.obs[Target], world.disk[Target])
             found == IF proposal.type = "delete_file" THEN {}
                      ELSE ExistingTests(proposal, world)
             oneRead == \E t \in found : IsFresh(t, world)
         IN /\ last.decision = VerdictOnEdit(RiskOf(proposal, world), st, found, oneRead)
            /\ last.decision = "DEFER" =>
                 last.plan = EvidenceForEdit(Target, st, found, oneRead)
    ELSE LET v == ValidationStatus(proposal, world)
         IN /\ last.decision = VerdictOnLanding(RiskOf(proposal, world), v)
            /\ last.decision = "DEFER" => last.plan = EvidenceForLanding(v)

\* What the fetch plan of a DEFER says, "Read the current target file before
\* retrying authorization.": a target that was read as it is now is not what a
\* decision is deferred for.  (False for the target of a certificate's path,
\* whose freshness is never looked at.)
TargetReadOnceSuffices ==
  since = "nothing" /\ last.decision = "DEFER" /\ IsFileAction(proposal)
    /\ world.obs[Target] = world.disk[Target]
    => Target \notin last.plan
=============================================================================
