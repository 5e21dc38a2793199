----------------------- MODULE ReauthorizationProofs -----------------------
(***************************************************************************)
(* The six properties of Reauthorization, for all proposals, files,        *)
(* contents and bounds.                                                    *)
(*                                                                         *)
(* No action gets past the evidence it needs.  A decision is that of the   *)
(* engine on the signals of the present world until something happens      *)
(* (StandingInv); evidence that lacks shows in the signals, the signals    *)
(* match a rule that waits for it, and only a BLOCK goes before it.        *)
(*                                                                         *)
(* The 22 rules come to what the summary says.  Of all the rules the few   *)
(* that a file action, or a landing, can match are singled out; the risk   *)
(* is what they decide once nothing lacks, and the plan of a deferral is   *)
(* what lacks.                                                             *)
(*                                                                         *)
(* And so deferrals keep their promises.  As long as evidence is gathered  *)
(* and nothing else happens, the world differs from that of the last       *)
(* decision only in what is left of its plan (ProgressInv): the risk       *)
(* stays, and with an empty plan nothing lacks.                            *)
(***************************************************************************)
EXTENDS Reauthorization, DecisionEngineProofs

-----------------------------------------------------------------------------
(* The decision stands until something happens *)

\* What the inductive step needs: the world is well typed, and a decision that
\* nothing has followed is that of the engine on the world as it is.
StandingInv ==
  /\ proposal \in Proposals
  /\ world \in World
  /\ since = "nothing" => last = Decide(DefaultRules, Signals(proposal, world))

LEMMA InitStands == Init => StandingInv
  BY FreshIsWorld DEF Init, StandingInv

LEMMA StandingStep == StandingInv /\ [Next]_vars => StandingInv'
<1> SUFFICES ASSUME StandingInv, [Next]_vars
             PROVE  StandingInv'
  OBVIOUS
<1>1. CASE DecideProposal
  BY <1>1 DEF DecideProposal, StandingInv
<1>2. ASSUME NEW f \in Files, ReadFile(f) \/ GlanceAt(f)
      PROVE  StandingInv'
  <2>1. proposal' = proposal /\ \E mode : world' = AfterReading(world, f, mode)
    BY <1>2 DEF ReadFile, GlanceAt
  <2>2. since' # "nothing"
    BY <1>2 DEF ReadFile, GlanceAt, Gathered
  <2> QED
    BY <2>1, <2>2, ReadingKeepsWorld DEF StandingInv
<1>3. ASSUME NEW c \in Commands, PassCommand(c) \/ FailCommand(c)
      PROVE  StandingInv'
  <2>1. /\ proposal' = proposal
        /\ \E status \in CommandStatuses : world' = AfterResult(world, c, status)
    BY <1>3 DEF PassCommand, FailCommand, CommandStatuses
  <2>2. since' # "nothing"
    BY <1>3 DEF PassCommand, FailCommand, Gathered
  <2> QED
    BY <2>1, <2>2, ResultKeepsWorld DEF StandingInv
<1>4. CASE Drift
  <2>1. proposal' = proposal /\ since' # "nothing" /\ world' \in Drifts(proposal, world)
    BY <1>4 DEF Drift
  <2> QED
    BY <2>1, DriftKeepsWorld DEF StandingInv
<1>5. CASE UNCHANGED vars
  BY <1>5 DEF vars, StandingInv
<1> QED
  BY <1>1, <1>2, <1>3, <1>4, <1>5 DEF Next

\* Under the default policy no action may proceed or go to a human before its
\* evidence is there: its target observed as it is and a related test fresh, or each
\* validation command its landing requires passed.
THEOREM EvidenceComesBeforeApproval == Spec => []EvidenceBeforeApproval
<1>1. StandingInv => EvidenceBeforeApproval
  <2> SUFFICES ASSUME StandingInv, since = "nothing",
                      last.decision \in {"PROCEED", "ESCALATE"}
               PROVE  IF IsFileAction(proposal)
                      THEN /\ ~IsSecretPath(proposal)
                           /\ world.obs[Target] = world.disk[Target]
                           /\ proposal.type # "delete_file"
                                /\ ExistingTests(proposal, world) # {}
                                => \E t \in proposal.tests : world.obs[t] = world.disk[t]
                      ELSE \A c \in Required : world.results[c] = "passed"
    BY DEF EvidenceBeforeApproval
  <2>1. DecisionOf(DefaultRules, Signals(proposal, world)) \notin {"DEFER", "BLOCK"}
    BY DEF StandingInv, Decide, DecisionOf
  <2>2. CASE IsFileAction(proposal)
    <3>1. ~IsSecretPath(proposal) /\ world.obs[Target] = world.disk[Target]
      BY <2>1, <2>2, TargetIsAskedFor, FileProposalsAssumption DEF StandingInv
    <3>2. ASSUME proposal.type # "delete_file", ExistingTests(proposal, world) # {}
          PROVE  \E t \in proposal.tests : world.obs[t] = world.disk[t]
      <4>1. PICK t \in ExistingTests(proposal, world) : IsFresh(t, world)
        BY <2>1, <2>2, <3>2, TestsAreAskedFor
      <4> QED
        BY <4>1 DEF IsFresh, Freshness, ExistingTests
    <3> QED
      BY <2>2, <3>1, <3>2
  <2>3. CASE ~IsFileAction(proposal)
    BY <2>1, <2>3, ValidationIsAskedFor DEF StandingInv, World, Required
  <2> QED
    BY <2>2, <2>3
<1> QED
  BY <1>1, InitStands, StandingStep, PTL DEF Spec

-----------------------------------------------------------------------------
(* The summary of the rules: file actions *)

\* Of an edit, leaving the workspace and secrets are to block, and destructive or
\* sensitive changes are for a human.
LEMMA FileRisk ==
  ASSUME NEW p, NEW w, IsFileAction(p)
  PROVE  RiskOf(p, w) =
           IF p.outside \in Yes \/ SecretTouch(p) = "probable" THEN "BLOCK"
           ELSE IF IsDestructive(p) \/ PathSensitivity(p) \in {"high", "critical"}
                THEN "ESCALATE"
           ELSE "PROCEED"
<1> DEFINE s == Signals(p, w)
           i == Informed ++ s
           M == MatchedRules(DefaultRules, s)
           N == MatchedRules(DefaultRules, i)
<1>1. RiskOf(p, w) = DecisionOf(DefaultRules, i)
  BY DEF RiskOf
<1>2. /\ DOMAIN Informed = {"target_file_freshness", "metadata_only",
                            "related_tests_found", "related_tests_read",
                            "context_completeness_score"}
      /\ Informed["target_file_freshness"] = "fresh"
      /\ Informed["context_completeness_score"] = 100
  BY DEF Informed
<1> HIDE DEF s
<1>3. \A x, V : x \notin DOMAIN Informed => (Meets(i, x, V) <=> Meets(s, x, V))
  BY MeetsJoin
<1>4. /\ ~Meets(i, "target_file_freshness", {"stale", "unknown", "missing"})
      /\ ~Meets(i, "context_completeness_score", 0..69)
  <2>1. /\ ~Meets(Informed, "target_file_freshness", {"stale", "unknown", "missing"})
        /\ ~Meets(Informed, "context_completeness_score", 0..69)
    BY <1>2 DEF Meets
  <2> QED
    BY <1>2, <2>1, MeetsJoin
<1> HIDE DEF i
<1>5. 1 \notin N /\ 13 \notin N
  BY <1>4, DefaultMatches
<1>6. \A n \in (1..22) \ {1, 13} : n \in N <=> n \in M
  <2>1. \A n \in 2..8 : n \in N <=> n \in M
    BY <1>2, <1>3, DefaultMatches
  <2>2. \A n \in 9..12 : n \in N <=> n \in M
    BY <1>2, <1>3, DefaultMatches
  <2>3. \A n \in 14..22 : n \in N <=> n \in M
    BY <1>2, <1>3, DefaultMatches
  <2> QED
    BY <2>1, <2>2, <2>3
<1>7. N \subseteq 1..22 /\ M \subseteq {1, 2, 5, 6, 7, 13}
  BY DefaultMatches, FileMatches DEF s
<1>8. /\ 2 \in M <=> p.outside \in Yes
      /\ 5 \in M <=> IsDestructive(p)
      /\ 6 \in M <=> PathSensitivity(p) \in {"high", "critical"}
      /\ 7 \in M <=> SecretTouch(p) = "probable"
  BY FileMatches DEF s
<1> HIDE DEF M, N
<1>9. N = M \ {1, 13}
  <2>1. ASSUME NEW n \in N PROVE n \in M \ {1, 13}
    BY <1>5, <1>6, <1>7
  <2>2. ASSUME NEW n \in M \ {1, 13} PROVE n \in N
    BY <1>6, <1>7
  <2> QED
    BY <2>1, <2>2
<1>10. /\ N \cap BlockRules # {} <=> p.outside \in Yes \/ SecretTouch(p) = "probable"
       /\ N \cap EvidenceRules = {}
       /\ N \cap EscalationRules # {}
            <=> IsDestructive(p) \/ PathSensitivity(p) \in {"high", "critical"}
       /\ N \cap PauseRules = {}
  <2>1. /\ N \cap BlockRules = M \cap {2, 7} /\ N \cap EvidenceRules = {}
        /\ N \cap EscalationRules = M \cap {5, 6} /\ N \cap PauseRules = {}
    BY <1>7, <1>9 DEF BlockRules, EvidenceRules, EscalationRules, PauseRules
  <2> QED
    BY <1>8, <2>1
<1> QED
  BY <1>1, <1>10, DefaultVerdict DEF N

\* The details of a DEFER of a file action: what lacks.
LEMMA FilePlan ==
  ASSUME NEW p \in Proposals, NEW w, IsFileAction(p),
         Decide(DefaultRules, Signals(p, w)).decision = "DEFER"
  PROVE  LET found == IF p.type = "delete_file" THEN {} ELSE ExistingTests(p, w)
             d     == Decide(DefaultRules, Signals(p, w))
         IN /\ d.plan = EvidenceForEdit(Target, TargetFreshness(p, w), found,
                                        \E t \in found : IsFresh(t, w))
            /\ d.expected = RiskOf(p, w)
<1> DEFINE s == Signals(p, w)
           M == MatchedRules(DefaultRules, s)
           category == ClassifyDeferReason(DefaultRules, M, s)
           st == TargetFreshness(p, w)
           found == IF p.type = "delete_file" THEN {} ELSE ExistingTests(p, w)
           c == RelatedContextSignals(p, w)
<1>1. /\ Decide(DefaultRules, s).plan = FetchPlan(category, s)
      /\ Decide(DefaultRules, s).expected = ExpectedNextDecision(category, s)
      /\ DecisionOf(DefaultRules, s) = "DEFER"
  BY DEF Decide, DecisionOf
<1>2. /\ s["target_path"] = Target
      /\ "target_file_freshness" \in DOMAIN s
      /\ s["target_file_freshness"] = st
      /\ "context_completeness_score" \in DOMAIN s <=> p.type # "delete_file"
  <2>1. s["target_path"] = FileRiskSignals(p)["target_path"]
    BY FileValues DEF FileRiskNames
  <2>2. s["target_path"] = Target
    BY <2>1, FileRiskValues, FileProposalsAssumption
  <2>3. /\ "target_file_freshness" \in DOMAIN s
        /\ s["target_file_freshness"] =
             ReadBeforeWriteSignals(p, w)["target_file_freshness"]
    BY FileValues DEF ReadNames
  <2>4. s["target_file_freshness"] = st
    BY <2>3, ReadBeforeWriteFacts DEF TargetFreshness
  <2>5. DOMAIN s \cap ContextNames = IF p.type = "delete_file" THEN {} ELSE ContextNames
    BY FileValues
  <2> HIDE DEF s, st
  <2> QED
    BY <2>2, <2>3, <2>4, <2>5 DEF ContextNames
<1>3. /\ RelatedTests(s) = found
      /\ IsSet(s, "related_tests_found") <=> found # {}
      /\ found # {} => (IsCleared(s, "related_tests_read")
                         <=> ~(\E t \in found : IsFresh(t, w)))
  <2>1. CASE p.type = "delete_file"
    <3>1. DOMAIN s \cap ContextNames = {}
      BY <2>1, FileValues
    <3> HIDE DEF s
    <3>2. ~IsSet(s, "related_tests_found")
      BY <3>1, Zenon DEF IsSet, ContextNames
    <3> QED
      BY <2>1, <3>1, <3>2 DEF RelatedTests, ContextNames
  <2>2. CASE p.type # "delete_file"
    <3>1. ContextNames \subseteq DOMAIN s /\ \A x \in ContextNames : s[x] = c[x]
      <4>1. DOMAIN s \cap ContextNames = ContextNames
        BY <2>2, FileValues
      <4> QED
        BY <2>2, <4>1, FileValues
    <3>2. c["related_test_paths"] = found
      BY <2>2 DEF RelatedContextSignals
    <3>3. c["related_tests_found"] = (found # {})
      BY <2>2 DEF RelatedContextSignals
    <3>4. c["related_tests_read"] = (\E t \in found : IsFresh(t, w))
      BY <2>2 DEF RelatedContextSignals
    <3> HIDE DEF s, c, found
    <3>5. RelatedTests(s) = found
      BY <3>1, <3>2 DEF RelatedTests, ContextNames
    <3>6. s["related_tests_found"] = (found # {})
      BY <3>1, <3>3 DEF ContextNames
    <3>7. s["related_tests_read"] = (\E t \in found : IsFresh(t, w))
      BY <3>1, <3>4 DEF ContextNames
    <3>8. IsSet(s, "related_tests_found") <=> found # {}
      BY <3>1, <3>6 DEF IsSet, ContextNames
    <3>9. IsCleared(s, "related_tests_read") <=> ~(\E t \in found : IsFresh(t, w))
      BY <3>1, <3>7 DEF IsCleared, ContextNames
    <3> QED
      BY <3>5, <3>8, <3>9
  <2> QED
    BY <2>1, <2>2
<1>4. st \in {"fresh", "stale", "unknown", "missing"}
  BY DEF TargetFreshness, Freshness
<1>5. (\E n \in M : IsReducibleDeferRule(DefaultRules[n])) <=> st # "fresh"
  <2>1. M \subseteq {1, 2, 5, 6, 7, 13} /\ (1 \in M <=> st # "fresh")
    BY FileMatches
  <2>2. \A n \in {2, 5, 6, 7, 13} : ~IsReducibleDeferRule(DefaultRules[n])
    BY EvidenceKinds DEF EvidenceRules
  <2>3. IsReducibleDeferRule(DefaultRules[1])
    BY EvidenceKinds
  <2> HIDE DEF M, st
  <2> QED
    BY <2>1, <2>2, <2>3
<1>6. TargetCategories = {"target_file_never_read", "target_file_stale",
                          "target_file_missing", "metadata_only_observation"}
  BY DEF TargetCategories, FreshnessCategory
<1>7. SignalOf(s, "target_file_freshness") = st
  BY <1>2 DEF SignalOf
<1>8. RiskOf(p, w) = IF IsSensitiveOrDestructive(s) THEN "ESCALATE" ELSE "PROCEED"
  <2>1. /\ s["path_sensitivity"] = PathSensitivity(p)
        /\ s["destructive_operation"] = FileRiskSignals(p)["destructive_operation"]
        /\ "path_sensitivity" \in DOMAIN s /\ "destructive_operation" \in DOMAIN s
    BY FileValues, FileRiskValues DEF FileRiskNames
  <2>2. FileRiskSignals(p)["destructive_operation"] \in Yes <=> IsDestructive(p)
    BY FileRiskValues
  <2>3. SignalOf(s, "path_sensitivity") = PathSensitivity(p)
    BY <2>1 DEF SignalOf
  <2>4. s["destructive_operation"] = IsDestructive(p)
    BY <2>1 DEF FileRiskSignals, When, ++
  <2>5. IsSet(s, "destructive_operation") <=> IsDestructive(p)
    BY <2>1, <2>4 DEF IsSet
  <2>6. RiskOf(p, w) \in {"PROCEED", "ESCALATE"}
    BY <1>1, FileRisk, FileVerdict
  <2> QED
    BY <2>3, <2>5, <2>6, FileRisk DEF IsSensitiveOrDestructive
<1> HIDE DEF s, M, st, found
<1>9. CASE st # "fresh"
  <2>1. st \in DOMAIN FreshnessCategory /\ FreshnessCategory[st] \in TargetCategories
    BY <1>4, <1>6, <1>9 DEF FreshnessCategory
  <2>2. category \in TargetCategories
    BY <1>5, <1>6, <1>7, <1>9, <2>1 DEF ClassifyDeferReason
  <2> HIDE DEF category
  <2>3. ContextFor(category, s) = {Target} /\ category # "context_incomplete"
    BY <1>2, <1>6, <2>2 DEF ContextFor, ValidationCategories
  <2>4. FetchPlan(category, s) =
          {Target} \cup IF found # {} /\ ~(\E t \in found : IsFresh(t, w))
                       THEN found ELSE {}
    BY <1>3, <2>3 DEF FetchPlan
  <2>5. ExpectedNextDecision(category, s) = RiskOf(p, w)
    BY <1>6, <1>8, <2>2 DEF ExpectedNextDecision, ValidationCategories
  <2> QED
    BY <1>1, <1>9, <2>4, <2>5 DEF EvidenceForEdit, found, s, category, st, M
<1>10. CASE st = "fresh"
  <2>1. LacksTests(p, w)
    BY <1>1, <1>10, FileVerdict DEF s, st
  <2>2. category = "context_incomplete"
    <3>1. \E n \in M : IsContextDeferRule(DefaultRules[n])
      BY <2>1, FileMatches, EvidenceKinds DEF M, s
    <3>2. st \notin DOMAIN FreshnessCategory
      BY <1>10 DEF FreshnessCategory
    <3> QED
      BY <1>5, <1>7, <1>10, <3>1, <3>2 DEF ClassifyDeferReason
  <2> HIDE DEF category
  <2>3. FetchPlan(category, s) = found
    BY <1>3, <1>6, <2>2 DEF FetchPlan, ContextFor, ValidationCategories
  <2>4. ~(\E t \in found : IsFresh(t, w))
    BY <2>1 DEF LacksTests, found
  <2>5. ExpectedNextDecision(category, s) = RiskOf(p, w)
    BY <1>6, <1>8, <2>2 DEF ExpectedNextDecision, ValidationCategories
  <2> QED
    BY <1>1, <1>10, <2>3, <2>4, <2>5 DEF EvidenceForEdit, found, s, category, st, M
<1> QED
  BY <1>9, <1>10

-----------------------------------------------------------------------------
(* The summary of the rules: commands *)

\* The world with each validation passed.
Passed(w) == [w EXCEPT !.results = [c \in Commands |-> "passed"]]

\* Signals of which the same are reported, and that differ in nothing but names.
Alike(a, b, names) ==
  /\ DOMAIN a = DOMAIN b
  /\ \A x \in DOMAIN a \ names : a[x] = b[x]

StatusNames == {"validation_status"}
LandingNames == {"validation_status", "landing_risk", "deployment_risk", "release_risk"}

LEMMA AlikeJoin ==
  ASSUME NEW a, NEW b, NEW c, NEW d, NEW names, Alike(a, c, names), Alike(b, d, names)
  PROVE  Alike(a ++ b, c ++ d, names)
  BY DEF Alike, ++

\* With the same repository the signals of a command differ in nothing but the status
\* of the validation and the landing's risk; with the same risk, in nothing but the
\* status; with the same status and risk, in nothing.
LEMMA CommandAlike ==
  ASSUME NEW p, NEW w, NEW u, ~IsFileAction(p), w.repo = u.repo
  PROVE  /\ Alike(Signals(p, w), Signals(p, u), LandingNames)
         /\ LandingRisk(p, w) = LandingRisk(p, u)
              => Alike(Signals(p, w), Signals(p, u), StatusNames)
         /\ LandingRisk(p, w) = LandingRisk(p, u)
              /\ ValidationStatus(p, w) = ValidationStatus(p, u)
              => Signals(p, w) = Signals(p, u)
<1> DEFINE d == [delegation_provenance |-> IF p.named THEN "partial" ELSE "unknown"]
           r == [action_type |-> p.type, path_sensitivity |-> "unknown",
                 secret_touch |-> "none", workspace_boundary_status |-> "not_applicable"]
           g(x) == GitWorkflowSignals(p, x)
           v(x) == ValidationGateSignals(p, x)
           c == CommandRiskSignals(p)
           l(x) == LandingGateSignals(p, x)
<1>1. \A x \in {w, u} : Signals(p, x) = d ++ ((((r ++ g(x)) ++ v(x)) ++ c) ++ l(x))
  BY DEF Signals, CommandSignals
<1>2. g(w) = g(u)
  BY DEF GitWorkflowSignals, BranchRisk, PushesToProtected, OnProtectedBranch, IsDirty
<1>3. LandingRisk(p, w) = LandingRisk(p, u) => l(w) = l(u)
  BY DEF LandingGateSignals
<1>4. Alike(v(w), v(u), StatusNames)
  <2> DEFINE what(x) == [validation_scope |-> ValidationScope(p),
                         validation_status |-> ValidationStatus(p, x)]
             needed == When(ValidationScope(p) \notin {"none", "unknown"},
                            [validation_required |-> TRUE])
             reported(x) == When(ValidationScope(p) # "none", what(x))
  <2>1. \A x \in {w, u} : v(x) = reported(x) ++ needed
    BY DEF ValidationGateSignals
  <2>2. Alike(reported(w), reported(u), StatusNames)
    BY DEF Alike, When, StatusNames
  <2>3. Alike(needed, needed, StatusNames)
    BY DEF Alike
  <2> HIDE DEF reported, needed, v
  <2> QED
    BY <2>1, <2>2, <2>3, AlikeJoin
<1>5. ValidationStatus(p, w) = ValidationStatus(p, u) => v(w) = v(u)
  BY DEF ValidationGateSignals
<1>6. Alike(l(w), l(u), LandingNames)
  <2> DEFINE t == LandingType(p)
             always(x) == [landing_action |-> t # "none", landing_risk |-> LandingRisk(p, x)]
             kind == When(t # "none",
                          [landing_action_type |-> t, requires_validation |-> TRUE])
             deployed(x) == When(t = "deploy",
                                 [deployment_risk |-> LandingRisk(p, x),
                                  environment_classification |-> p.environment])
             released(x) == When(t \in {"publish", "release"},
                                 [release_risk |-> LandingRisk(p, x)])
  <2>1. \A x \in {w, u} : l(x) = ((always(x) ++ kind) ++ deployed(x)) ++ released(x)
    BY DEF LandingGateSignals
  <2>2. /\ Alike(always(w), always(u), LandingNames)
        /\ Alike(kind, kind, LandingNames)
    BY DEF Alike, LandingNames
  <2>3. Alike(deployed(w), deployed(u), LandingNames)
    BY DEF Alike, LandingNames, When
  <2>4. Alike(released(w), released(u), LandingNames)
    BY DEF Alike, LandingNames, When
  <2> HIDE DEF always, kind, deployed, released, l
  <2>5. Alike(always(w) ++ kind, always(u) ++ kind, LandingNames)
    BY <2>2, AlikeJoin
  <2>6. Alike((always(w) ++ kind) ++ deployed(w), (always(u) ++ kind) ++ deployed(u),
              LandingNames)
    BY <2>3, <2>5, AlikeJoin
  <2> QED
    BY <2>1, <2>4, <2>6, AlikeJoin
<1> HIDE DEF d, r, g, v, c, l
<1>7. \A names \in {StatusNames, LandingNames} :
        Alike(l(w), l(u), names) => Alike(Signals(p, w), Signals(p, u), names)
  <2> SUFFICES ASSUME NEW names \in {StatusNames, LandingNames}, Alike(l(w), l(u), names)
               PROVE  Alike(Signals(p, w), Signals(p, u), names)
    OBVIOUS
  <2>1. Alike(v(w), v(u), names)
    BY <1>4 DEF Alike, StatusNames, LandingNames
  <2>2. Alike(r ++ g(w), r ++ g(u), names) /\ Alike(c, c, names) /\ Alike(d, d, names)
    BY <1>2 DEF Alike
  <2>3. Alike((((r ++ g(w)) ++ v(w)) ++ c) ++ l(w), (((r ++ g(u)) ++ v(u)) ++ c) ++ l(u),
              names)
    BY <2>1, <2>2, AlikeJoin
  <2> QED
    BY <1>1, <2>2, <2>3, AlikeJoin
<1>8. LandingRisk(p, w) = LandingRisk(p, u) => Alike(l(w), l(u), StatusNames)
  BY <1>3 DEF Alike
<1> QED
  BY <1>1, <1>2, <1>3, <1>5, <1>6, <1>7, <1>8

\* Short of failed validation, what a commit, a merge or a push risks does not depend on
\* the validation.
LEMMA LandingRiskAlike ==
  ASSUME NEW p, NEW w, NEW u, w.repo = u.repo,
         ValidationStatus(p, w) # "failed", ValidationStatus(p, u) # "failed",
         \/ LandingType(p) \in {"commit", "merge", "push"}
         \/ ValidationStatus(p, w) = ValidationStatus(p, u)
  PROVE  LandingRisk(p, w) = LandingRisk(p, u)
<1> DEFINE v(x) == ValidationStatus(p, x)
           t == LandingType(p)
           protected(x) == OnProtectedBranch(x)
           pushes(x) == PushesToProtected(p, x)
           dirty(x) == IsDirty(x)
<1>1. /\ pushes(w) <=> pushes(u)
      /\ protected(w) <=> protected(u)
      /\ dirty(w) <=> dirty(u)
  BY DEF PushesToProtected, OnProtectedBranch, IsDirty
<1>2. /\ v(w) # "failed" /\ v(u) # "failed"
      /\ t \in {"commit", "merge", "push"} \/ v(w) = v(u)
  OBVIOUS
<1>3. \A x \in {w, u} :
        LandingRisk(p, x) =
          IF t = "none" THEN "low"
          ELSE IF pushes(x) \/ ForcesPush(p) \/ BypassesHooks(p) THEN "critical"
          ELSE IF v(x) = "failed" THEN "high"
          ELSE IF t = "deploy"
               THEN (IF p.environment = "production" THEN "critical" ELSE "high")
          ELSE IF t \in {"publish", "release"}
               THEN (IF protected(x) THEN "critical" ELSE "high")
          ELSE IF protected(x) /\ t \in {"commit", "merge", "rebase"} THEN "high"
          ELSE IF dirty(x) /\ t = "push" THEN "high"
          ELSE IF t \in {"commit", "push", "merge", "rebase"} \/ v(x) \in {"not_run", "stale"}
               THEN "medium"
          ELSE "unknown"
  BY DEF LandingRisk
<1> HIDE DEF v, t, protected, pushes, dirty
<1> QED
  BY <1>1, <1>2, <1>3

\* Passing all commands settles the validation of a commit or a push, and changes no
\* risk but that of failed validation.
LEMMA PassedWorld ==
  ASSUME NEW p, NEW w \in World
  PROVE  /\ Passed(w).repo = w.repo
         /\ ValidationStatus(p, Passed(w)) =
              IF ValidationScope(p) \in {"before_commit", "before_push"} THEN "passed"
              ELSE ValidationStatus(p, w)
         /\ ValidationStatus(p, w) # "failed"
              => LandingRisk(p, w) = LandingRisk(p, Passed(w))
<1>1. Passed(w).repo = w.repo /\ Passed(w).results = [c \in Commands |-> "passed"]
  BY DEF Passed, World
<1>2. ValidationStatus(p, Passed(w)) =
        IF ValidationScope(p) \in {"before_commit", "before_push"} THEN "passed"
        ELSE ValidationStatus(p, w)
  BY <1>1 DEF ValidationStatus, StrongestStatus, RequiredCommands, Commands
<1>3. ASSUME ValidationStatus(p, w) # "failed"
      PROVE  LandingRisk(p, w) = LandingRisk(p, Passed(w))
  <2>1. ValidationStatus(p, Passed(w)) # "failed"
    BY <1>2, <1>3
  <2>2. \/ LandingType(p) \in {"commit", "merge", "push"}
        \/ ValidationStatus(p, w) = ValidationStatus(p, Passed(w))
    BY <1>2 DEF LandingType, ValidationScope
  <2> QED
    BY <1>1, <1>3, <2>1, <2>2, LandingRiskAlike
<1> QED
  BY <1>1, <1>2, <1>3

\* A command's signals name no file and no context, and the status of its validation,
\* where they name it, as it is.
LEMMA CommandFacts ==
  ASSUME NEW p, NEW w, ~IsFileAction(p)
  PROVE  LET s == Signals(p, w) IN
         /\ DOMAIN s \cap {"target_file_freshness", "related_test_paths",
                           "related_tests_found", "context_completeness_score"} = {}
         /\ "validation_status" \in DOMAIN s
              => s["validation_status"] = ValidationStatus(p, w)
         /\ ValidationScope(p) \in {"before_commit", "before_push"} =>
              /\ Meets(s, "validation_required", Yes)
              /\ Meets(s, "validation_scope", {ValidationScope(p)})
              /\ Meets(s, "validation_status", {ValidationStatus(p, w)})
<1> DEFINE s == Signals(p, w)
<1>1. DOMAIN s \cap {"target_file_freshness", "related_test_paths",
                    "related_tests_found", "context_completeness_score"} = {}
  <2>1. DOMAIN s \subseteq BaseNames \cup GitNames \cup ValidationNames
                              \cup CommandRiskNames \cup LandingGateNames
    BY CommandParts
  <2> HIDE DEF s
  <2> QED
    BY <2>1 DEF BaseNames, GitNames, ValidationNames, CommandRiskNames, LandingGateNames
<1>2. "validation_status" \in DOMAIN s => s["validation_status"] = ValidationStatus(p, w)
  BY CommandParts, ValidationGateValues DEF ValidationNames
<1>3. ValidationScope(p) \in {"before_commit", "before_push"} =>
        /\ Meets(s, "validation_required", Yes)
        /\ Meets(s, "validation_scope", {ValidationScope(p)})
        /\ Meets(s, "validation_status", {ValidationStatus(p, w)})
  BY CommandParts, ValidationGateValues DEF Meets, ValidationNames
<1> QED
  BY <1>1, <1>2, <1>3

\* What the validation of a landing has to do with the rules it matches.
LEMMA LandingMatches ==
  ASSUME NEW p, NEW w, ~IsFileAction(p)
  PROVE  LET M == MatchedRules(DefaultRules, Signals(p, w))
             v == ValidationStatus(p, w)
         IN /\ M \cap {11, 12} # {} <=> v = "failed"
            /\ M \cap {9, 10} # {} <=> v \in NotRunOrStale
            /\ M \cap {1, 13} = {}
<1> DEFINE s == Signals(p, w)
           M == MatchedRules(DefaultRules, s)
           v == ValidationStatus(p, w)
<1>1. v \in {"failed"} \cup NotRunOrStale
        => ValidationScope(p) \in {"before_commit", "before_push"}
  BY DEF ValidationStatus, NotRunOrStale
<1>2. ValidationScope(p) \in {"before_commit", "before_push"} =>
        /\ Meets(s, "validation_required", Yes)
        /\ Meets(s, "validation_scope", {ValidationScope(p)})
        /\ Meets(s, "validation_status", {v})
  BY CommandFacts
<1>3. "validation_status" \in DOMAIN s => s["validation_status"] = v
  BY CommandFacts
<1>4. DOMAIN s \cap {"target_file_freshness", "context_completeness_score"} = {}
  BY CommandFacts
<1> HIDE DEF s, v
<1>5. /\ Meets(s, "validation_status", {"failed"}) => v = "failed"
      /\ Meets(s, "validation_status", NotRunOrStale) => v \in NotRunOrStale
  BY <1>3 DEF Meets
<1>6. M \cap {11, 12} # {} <=> v = "failed"
  <2>1. ASSUME v = "failed" PROVE M \cap {11, 12} # {}
    BY <1>1, <1>2, <2>1, DefaultMatches
  <2> QED
    BY <1>5, <2>1, DefaultMatches
<1>7. M \cap {9, 10} # {} <=> v \in NotRunOrStale
  <2>1. ASSUME v \in NotRunOrStale PROVE M \cap {9, 10} # {}
    <3>1. Meets(s, "validation_status", NotRunOrStale)
      BY <1>1, <1>2, <2>1 DEF Meets
    <3> QED
      BY <1>1, <1>2, <2>1, <3>1, DefaultMatches
  <2> QED
    BY <1>5, <2>1, DefaultMatches
<1>8. M \cap {1, 13} = {}
  BY <1>4, DefaultMatches DEF Meets
<1> QED
  BY <1>6, <1>7, <1>8 DEF M, s, v

\* The details of a DEFER of a landing action: the validation, unless it has passed.
LEMMA LandingPlan ==
  ASSUME NEW p, NEW w, ~IsFileAction(p),
         Decide(DefaultRules, Signals(p, w)).decision = "DEFER"
  PROVE  Decide(DefaultRules, Signals(p, w)).plan
           = EvidenceForLanding(ValidationStatus(p, w))
<1> DEFINE s == Signals(p, w)
           M == MatchedRules(DefaultRules, s)
           v == ValidationStatus(p, w)
           category == ClassifyDeferReason(DefaultRules, M, s)
           reducible == \E n \in M : IsReducibleDeferRule(DefaultRules[n])
<1>1. Decide(DefaultRules, s).plan = FetchPlan(category, s)
  BY DEF Decide
<1>2. ~IsSet(s, "related_tests_found") /\ RelatedTests(s) = {}
  BY CommandFacts DEF IsSet, RelatedTests
<1>3. SignalOf(s, "target_file_freshness") = "undefined"
  BY CommandFacts DEF SignalOf
<1>4. SignalOf(s, "validation_status") \in {"undefined", v}
  BY CommandFacts DEF SignalOf
<1>5. reducible <=> v \in NotRunOrStale
  <2>1. ASSUME v \in NotRunOrStale PROVE reducible
    <3>1. PICK n \in M : n \in {9, 10}
      BY <2>1, LandingMatches
    <3> QED
      BY <3>1, EvidenceKinds
  <2>2. ASSUME reducible PROVE v \in NotRunOrStale
    <3>1. PICK n \in M : IsReducibleDeferRule(DefaultRules[n])
      BY <2>2
    <3>2. n \in {1, 9, 10}
      BY <3>1, EvidenceKinds, DefaultMatches DEF EvidenceRules
    <3> QED
      BY <3>1, <3>2, LandingMatches
  <2> QED
    BY <2>1, <2>2
<1>6. v \in NotRunOrStale => SignalOf(s, "validation_status") = v
  <2>1. v \in NotRunOrStale => ValidationScope(p) \in {"before_commit", "before_push"}
    BY DEF ValidationStatus, NotRunOrStale
  <2>2. v \in NotRunOrStale => "validation_status" \in DOMAIN s
    BY <2>1, CommandFacts DEF Meets
  <2> QED
    BY <2>2, CommandFacts DEF SignalOf
<1>7. FetchPlan(category, s) = ContextFor(category, s)
  BY <1>2 DEF FetchPlan
<1> HIDE DEF s, v
<1>8. CASE v \in NotRunOrStale
  <2>1. SignalOf(s, "target_file_freshness") \notin DOMAIN FreshnessCategory
    BY <1>3 DEF FreshnessCategory
  <2>2. v \in DOMAIN ValidationCategory
    BY <1>8 DEF NotRunOrStale, ValidationCategory
  <2>3. category = ValidationCategory[v]
    BY <1>3, <1>5, <1>6, <1>8, <2>1, <2>2 DEF ClassifyDeferReason
  <2>4. category \in {"validation_not_run", "validation_stale"}
    BY <1>8, <2>3 DEF ValidationCategory, NotRunOrStale
  <2>5. ContextFor(category, s) = {"validation"}
    BY <2>4 DEF ContextFor, TargetCategories, ValidationCategories, FreshnessCategory
  <2> QED
    BY <1>1, <1>7, <1>8, <2>5 DEF EvidenceForLanding, NotRunOrStale, Validation, s, v
<1>9. CASE v \notin NotRunOrStale
  <2>1. category \in {"context_incomplete", "unknown_defer_reason"}
    BY <1>5, <1>9 DEF ClassifyDeferReason
  <2>2. category \notin TargetCategories \cup ValidationCategories
    BY <2>1 DEF ValidationCategories, TargetCategories, FreshnessCategory
  <2>3. ContextFor(category, s) = {}
    BY <1>2, <2>1, <2>2 DEF ContextFor
  <2> QED
    BY <1>1, <1>7, <1>9, <2>3 DEF EvidenceForLanding, NotRunOrStale, s, v
<1> QED
  BY <1>8, <1>9

\* What the 22 default rules come to on a command.
LEMMA LandingVerdict ==
  ASSUME NEW p, NEW w \in World, ~IsFileAction(p)
  PROVE  DecisionOf(DefaultRules, Signals(p, w))
           = VerdictOnLanding(RiskOf(p, w), ValidationStatus(p, w))
<1> DEFINE s == Signals(p, w)
           u == Signals(p, Passed(w))
           M == MatchedRules(DefaultRules, s)
           N == MatchedRules(DefaultRules, u)
           v == ValidationStatus(p, w)
<1>1. RiskOf(p, w) = DecisionOf(DefaultRules, u)
  BY DEF RiskOf, Passed
<1>2. CASE v = "failed"
  <2>1. M \cap BlockRules # {}
    BY <1>2, LandingMatches DEF BlockRules
  <2> QED
    BY <1>2, <2>1, DefaultVerdict DEF VerdictOnLanding
<1>3. CASE v \notin {"failed"} \cup NotRunOrStale
  <2>1. ValidationScope(p) \in {"before_commit", "before_push"} => v = "passed"
    BY <1>3 DEF ValidationStatus, StrongestStatus, NotRunOrStale
  <2>2. v = ValidationStatus(p, Passed(w))
    BY <2>1, PassedWorld
  <2>3. LandingRisk(p, w) = LandingRisk(p, Passed(w)) /\ w.repo = Passed(w).repo
    BY <1>3, PassedWorld
  <2>4. s = u
    BY <2>2, <2>3, CommandAlike
  <2> QED
    BY <1>1, <1>3, <2>4 DEF VerdictOnLanding, NotRunOrStale
<1>4. CASE v \in NotRunOrStale
  <2>1. LandingRisk(p, w) = LandingRisk(p, Passed(w)) /\ w.repo = Passed(w).repo
    BY <1>4, PassedWorld DEF NotRunOrStale
  <2>2. Alike(s, u, StatusNames)
    BY <2>1, CommandAlike
  <2>3. ValidationStatus(p, Passed(w)) \notin {"failed"} \cup NotRunOrStale
    <3>1. ValidationScope(p) \in {"before_commit", "before_push"}
      BY <1>4 DEF ValidationStatus, NotRunOrStale
    <3> QED
      BY <3>1, PassedWorld DEF NotRunOrStale
  <2>4. M \cap {11, 12} = {} /\ N \cap {11, 12} = {}
    BY <1>4, <2>3, LandingMatches DEF NotRunOrStale
  <2>5. M \cap EvidenceRules # {}
    BY <1>4, LandingMatches DEF EvidenceRules
  <2> HIDE DEF s, u
  <2>6. \A x, V : x # "validation_status" => (Meets(s, x, V) <=> Meets(u, x, V))
    BY <2>2 DEF Alike, Meets, StatusNames
  <2>7. \A n \in BlockRules \ {11, 12} : n \in M <=> n \in N
    <3>1. \A n \in {2, 3, 7, 8} : n \in M <=> n \in N
      BY <2>6, DefaultMatches
    <3>2. \A n \in {14, 15, 16, 19} : n \in M <=> n \in N
      BY <2>6, DefaultMatches
    <3> QED
      BY <3>1, <3>2 DEF BlockRules
  <2>8. M \cap BlockRules # {} <=> N \cap BlockRules # {}
    BY <2>4, <2>7
  <2>9. DecisionOf(DefaultRules, s) = IF N \cap BlockRules # {} THEN "BLOCK" ELSE "DEFER"
    BY <2>5, <2>8, DefaultVerdict
  <2>10. DecisionOf(DefaultRules, u) = "BLOCK" <=> N \cap BlockRules # {}
    BY DefaultVerdict
  <2> QED
    BY <1>1, <1>4, <2>9, <2>10 DEF VerdictOnLanding, NotRunOrStale, s, u
<1> QED
  BY <1>2, <1>3, <1>4

-----------------------------------------------------------------------------
(* The summary of the rules *)

\* A decision is what its summary says, and so is its plan.
LEMMA SummaryOfDecision ==
  ASSUME NEW p \in Proposals, NEW w \in World
  PROVE  LET d     == Decide(DefaultRules, Signals(p, w))
             st    == TargetFreshness(p, w)
             found == IF p.type = "delete_file" THEN {} ELSE ExistingTests(p, w)
             read  == \E t \in found : IsFresh(t, w)
             v     == ValidationStatus(p, w)
         IN IF IsFileAction(p)
            THEN /\ d.decision = VerdictOnEdit(RiskOf(p, w), st, found, read)
                 /\ d.decision = "DEFER" => d.plan = EvidenceForEdit(Target, st, found, read)
            ELSE /\ d.decision = VerdictOnLanding(RiskOf(p, w), v)
                 /\ d.decision = "DEFER" => d.plan = EvidenceForLanding(v)
<1>1. Decide(DefaultRules, Signals(p, w)).decision = DecisionOf(DefaultRules, Signals(p, w))
  BY DEF Decide, DecisionOf
<1>2. CASE IsFileAction(p)
  <2> DEFINE found == IF p.type = "delete_file" THEN {} ELSE ExistingTests(p, w)
             read  == \E t \in found : IsFresh(t, w)
  <2>1. LacksTests(p, w) <=> found # {} /\ ~read
    BY DEF LacksTests
  <2> HIDE DEF found, read
  <2>2. DecisionOf(DefaultRules, Signals(p, w))
          = VerdictOnEdit(RiskOf(p, w), TargetFreshness(p, w), found, read)
    BY <1>2, <2>1, FileVerdict, FileRisk DEF VerdictOnEdit
  <2> QED
    BY <1>1, <1>2, <2>2, FilePlan DEF found, read
<1>3. CASE ~IsFileAction(p)
  BY <1>1, <1>3, LandingVerdict, LandingPlan
<1> QED
  BY <1>2, <1>3

\* The 22 rules and the classification of deferrals come to a summary of a few lines: of
\* a file action the freshness of its target, its related tests and its risk decide, of
\* a landing action the status of its validation and its risk.
THEOREM SummaryHolds == Spec => []SummaryAgrees
<1>1. StandingInv => SummaryAgrees
  <2> SUFFICES ASSUME StandingInv, since = "nothing"
               PROVE  SummaryAgrees
    BY DEF SummaryAgrees
  <2>1. /\ proposal \in Proposals /\ world \in World
        /\ last = Decide(DefaultRules, Signals(proposal, world))
    BY DEF StandingInv
  <2>2. CASE IsFileAction(proposal)
    <3>1. TargetFreshness(proposal, world) =
            IF HasSecretPath THEN "unknown"
            ELSE Freshness(world.obs[Target], world.disk[Target])
      BY <2>1, <2>2, FileProposalsAssumption DEF HasSecretPath, TargetFreshness
    <3> QED
      BY <2>1, <2>2, <3>1, SummaryOfDecision DEF SummaryAgrees
  <2>3. CASE ~IsFileAction(proposal)
    BY <2>1, <2>3, SummaryOfDecision DEF SummaryAgrees
  <2> QED
    BY <2>2, <2>3
<1> QED
  BY <1>1, InitStands, StandingStep, PTL DEF Spec

-----------------------------------------------------------------------------
(* Types *)

LEMMA ExpectedTypes ==
  ASSUME NEW category, NEW s
  PROVE  ExpectedNextDecision(category, s) \in {"PROCEED", "ESCALATE", "UNKNOWN"}
<1>1. CASE category \in TargetCategories \cup {"context_incomplete"}
  <2>1. ExpectedNextDecision(category, s) =
          IF IsSensitiveOrDestructive(s) THEN "ESCALATE" ELSE "PROCEED"
    BY <1>1 DEF ExpectedNextDecision, TargetCategories, ValidationCategories, FreshnessCategory
  <2> QED
    BY <2>1
<1>2. CASE /\ category \in ValidationCategories
           /\ category \notin TargetCategories \cup {"context_incomplete"}
  BY <1>2 DEF ExpectedNextDecision
<1>3. CASE category
             \notin TargetCategories \cup {"context_incomplete"} \cup ValidationCategories
  BY <1>3 DEF ExpectedNextDecision
<1> QED
  BY <1>1, <1>2, <1>3

LEMMA DecideTypes ==
  ASSUME NEW p \in Proposals, NEW w \in World
  PROVE  LET d == Decide(DefaultRules, Signals(p, w)) IN
         /\ d.decision \in Postures
         /\ d.plan \subseteq Files \cup {Validation}
         /\ d.expected \in {"PROCEED", "ESCALATE", "UNKNOWN", "none"}
<1> DEFINE s == Signals(p, w)
           d == Decide(DefaultRules, s)
           N == MatchedRules(DefaultRules, s)
           winner == WinningRule(DefaultRules, N)
           category == ClassifyDeferReason(DefaultRules, N, s)
<1>1. winner.decision \in Postures
  BY MatchedTypes, DefaultIsPolicy, WinnerMatches DEF WinningRule, NoRule, Postures
<1>2. d.decision = "DEFER" => d.plan \subseteq Files \cup {Validation}
  BY SummaryOfDecision, FileProposalsAssumption
  DEF EvidenceForEdit, EvidenceForLanding, ExistingTests, Files
<1>3. CASE winner.decision # "DEFER"
  BY <1>1, <1>3 DEF Decide
<1>4. CASE winner.decision = "DEFER"
  <2>1. d.decision = "DEFER" /\ d.expected = ExpectedNextDecision(category, s)
    BY <1>4 DEF Decide
  <2> QED
    BY <1>2, <2>1, ExpectedTypes DEF Postures
<1> QED
  BY <1>3, <1>4

LEMMA TypeInit == Init => TypeOK
<1> SUFFICES ASSUME Init PROVE TypeOK
  OBVIOUS
<1>1. StandingInv
  BY InitStands
<1> QED
  BY <1>1, MaxDriftType DEF Init, TypeOK, StandingInv, NoDecision

LEMMA TypeStep == TypeOK /\ [Next]_vars => TypeOK'
<1> SUFFICES ASSUME TypeOK, [Next]_vars
             PROVE  TypeOK'
  OBVIOUS
<1>1. CASE DecideProposal
  <2>1. /\ last' = Decide(DefaultRules, Signals(proposal, world))
        /\ proposal \in Proposals /\ world \in World
    BY <1>1 DEF DecideProposal, TypeOK
  <2>2. /\ last'.decision \in Postures
        /\ last'.plan \subseteq Files \cup {Validation}
        /\ last'.expected \in {"PROCEED", "ESCALATE", "UNKNOWN", "none"}
    BY <2>1, DecideTypes
  <2> QED
    BY <1>1, <2>2 DEF DecideProposal, TypeOK
<1>2. ASSUME NEW f \in Files, ReadFile(f) \/ GlanceAt(f)
      PROVE  TypeOK'
  <2>1. world' \in World
    BY <1>2, ReadingKeepsWorld DEF ReadFile, GlanceAt, TypeOK
  <2> QED
    BY <1>2, <2>1 DEF ReadFile, GlanceAt, Gathered, TypeOK
<1>3. ASSUME NEW c \in Commands, PassCommand(c) \/ FailCommand(c)
      PROVE  TypeOK'
  <2>1. world' \in World
    BY <1>3, ResultKeepsWorld DEF PassCommand, FailCommand, CommandStatuses, TypeOK
  <2>2. todo' \subseteq last'.plan
    BY <1>3 DEF PassCommand, FailCommand, TypeOK
  <2> QED
    BY <1>3, <2>1, <2>2 DEF PassCommand, FailCommand, Gathered, TypeOK
<1>4. CASE Drift
  <2>1. world' \in World
    BY <1>4, DriftKeepsWorld DEF Drift, TypeOK
  <2> QED
    BY <1>4, <2>1, MaxDriftType DEF Drift, TypeOK
<1>5. CASE UNCHANGED vars
  BY <1>5 DEF vars, TypeOK
<1> QED
  BY <1>1, <1>2, <1>3, <1>4, <1>5 DEF Next

\* Every variable keeps its type, and a fetch plan names only files that the proposal
\* concerns, or the validation.
THEOREM TypeCorrect == Spec => []TypeOK
  BY TypeInit, TypeStep, PTL DEF Spec

-----------------------------------------------------------------------------
(* What gathering evidence does *)

\* A DEFER of a landing action announces the human that its risk asks for.
LEMMA LandingAnnounced ==
  ASSUME NEW p, NEW w \in World, ~IsFileAction(p),
         Decide(DefaultRules, Signals(p, w)).decision = "DEFER",
         RiskOf(p, w) = "ESCALATE"
  PROVE  Decide(DefaultRules, Signals(p, w)).pendingEscalation
<1> DEFINE s == Signals(p, w)
           u == Signals(p, Passed(w))
           M == MatchedRules(DefaultRules, s)
           N == MatchedRules(DefaultRules, u)
           v == ValidationStatus(p, w)
<1>1. /\ DecisionOf(DefaultRules, s) = "DEFER"
      /\ Decide(DefaultRules, s).pendingEscalation
           = (\E n \in M : DefaultRules[n].decision = "ESCALATE")
  BY DEF Decide, DecisionOf
<1>2. v \in NotRunOrStale
  BY <1>1, LandingVerdict DEF VerdictOnLanding, NotRunOrStale
<1>3. LandingRisk(p, w) = LandingRisk(p, Passed(w)) /\ w.repo = Passed(w).repo
  BY <1>2, PassedWorld DEF NotRunOrStale
<1>4. Alike(s, u, StatusNames)
  BY <1>3, CommandAlike
<1>5. N \cap EscalationRules # {}
  <2>1. DecisionOf(DefaultRules, u) = "ESCALATE"
    BY DEF RiskOf, Passed
  <2> QED
    BY <2>1, DefaultVerdict
<1> HIDE DEF s, u
<1>6. \A x, V : x # "validation_status" => (Meets(s, x, V) <=> Meets(u, x, V))
  BY <1>4 DEF Alike, Meets, StatusNames
<1>7. \A n \in EscalationRules : n \in M <=> n \in N
  BY <1>6, DefaultMatches DEF EscalationRules
<1>8. \E n \in M : DefaultRules[n].decision = "ESCALATE"
  BY <1>5, <1>7, RuleKinds
<1> QED
  BY <1>1, <1>8 DEF s

\* Where failed validation is all that blocks a landing action, a rule on failed
\* validation decides.
LEMMA LandingBlocked ==
  ASSUME NEW p, NEW w \in World, ~IsFileAction(p),
         Decide(DefaultRules, Signals(p, w)).decision = "BLOCK"
  PROVE  \/ RiskOf(p, w) = "BLOCK"
         \/ Decide(DefaultRules, Signals(p, w)).rule \in FailedValidationRules
<1> DEFINE s == Signals(p, w)
           u == Signals(p, Passed(w))
           M == MatchedRules(DefaultRules, s)
           N == MatchedRules(DefaultRules, u)
           blocks == {n \in M : DefaultRules[n].decision = "BLOCK"}
<1>1. /\ DecisionOf(DefaultRules, s) = "BLOCK"
      /\ Decide(DefaultRules, s).rule = WinningRule(DefaultRules, M).id
  BY DEF Decide, DecisionOf
<1>2. RiskOf(p, w) = "BLOCK" <=> N \cap BlockRules # {}
  BY DefaultVerdict DEF RiskOf, Passed
<1>3. M \cap BlockRules # {}
  BY <1>1, DefaultVerdict
<1>4. blocks = M \cap BlockRules
  <2>1. \A n \in M : n \in BlockRules \cup EvidenceRules \cup EscalationRules \cup PauseRules
    BY MatchedTypes, DefaultIsPolicy, RuleKinds
  <2>2. ASSUME NEW n \in blocks PROVE n \in M \cap BlockRules
    BY <2>1, RuleKinds
  <2>3. ASSUME NEW n \in M \cap BlockRules PROVE n \in blocks
    BY RuleKinds
  <2> QED
    BY <2>2, <2>3
<1>5. \A n \in BlockRules \ {11, 12} : n \in M => n \in N
  <2>1. /\ Alike(s, u, LandingNames)
        /\ LandingRisk(p, w) = LandingRisk(p, Passed(w)) => Alike(s, u, StatusNames)
    BY PassedWorld, CommandAlike
  <2>2. LandingRisk(p, w) = "critical" => LandingRisk(p, Passed(w)) = "critical"
    <3>1. CASE ValidationStatus(p, w) # "failed"
      BY <3>1, PassedWorld
    <3>2. CASE ValidationStatus(p, w) = "failed"
      BY <3>2, PassedWorld DEF LandingRisk, PushesToProtected, OnProtectedBranch
    <3> QED
      BY <3>1, <3>2
  <2>3. "landing_risk" \in DOMAIN s => s["landing_risk"] = LandingRisk(p, w)
    BY CommandParts, LandingRiskReported DEF LandingGateNames
  <2> HIDE DEF s, u
  <2>4. \A x, V : x \notin LandingNames => (Meets(s, x, V) <=> Meets(u, x, V))
    BY <2>1 DEF Alike, Meets
  <2>5. \A n \in {2, 3, 7, 8, 14, 15, 16} : n \in M <=> n \in N
    BY <2>4, DefaultMatches DEF LandingNames
  <2>6. 19 \in M => 19 \in N
    <3>1. ASSUME Meets(s, "landing_risk", {"critical"})
          PROVE  Meets(u, "landing_risk", {"critical"})
      BY <2>1, <2>2, <2>3, <3>1 DEF Meets, Alike, StatusNames
    <3> QED
      BY <3>1, DefaultMatches
  <2> QED
    BY <2>5, <2>6 DEF BlockRules
<1>6. ASSUME M \cap BlockRules \subseteq {11, 12}
      PROVE  WinningRule(DefaultRules, M).id \in FailedValidationRules
  <2>1. blocks # {} /\ blocks \in SUBSET Nat /\ blocks \subseteq {11, 12}
    BY <1>3, <1>4, <1>6
  <2>2. FirstOf(blocks) \in {11, 12}
    BY <2>1, FirstOfMember
  <2>3. WinningRule(DefaultRules, M) = DefaultRules[FirstOf(blocks)]
    BY <1>3, <2>1 DEF WinningRule, ChooseWinningRule
  <2> QED
    BY <2>2, <2>3, SMTT(30) DEF DefaultRules, Rule, FailedValidationRules
<1> QED
  BY <1>1, <1>2, <1>5, <1>6

\* What reading an existing file does to the evidence.
LEMMA ReadingHelps ==
  ASSUME NEW p \in Proposals, NEW w \in World, IsFileAction(p),
         NEW f \in Files, w.disk[f] # "absent"
  PROVE  LET u == AfterReading(w, f, "full") IN
         /\ ExistingTests(p, u) = ExistingTests(p, w)
         /\ TargetFreshness(p, w) = "fresh" => TargetFreshness(p, u) = "fresh"
         /\ f = Target /\ ~IsSecretPath(p) => TargetFreshness(p, u) = "fresh"
         /\ ~LacksTests(p, w) \/ f \in ExistingTests(p, w) => ~LacksTests(p, u)
<1> DEFINE u == AfterReading(w, f, "full")
<1>1. /\ u.disk = w.disk
      /\ u.obs[f] = w.disk[f]
      /\ \A g \in Files \ {f} : u.obs[g] = w.obs[g]
  BY DEF AfterReading, ObservationOf, World
<1>2. w.disk[f] \in Contents
  BY DEF World
<1>3. IsFresh(f, u)
  BY <1>1, <1>2, ContentsAreNoMarks DEF IsFresh, Freshness
<1>4. \A g \in Files \ {f} : Freshness(u.obs[g], u.disk[g]) = Freshness(w.obs[g], w.disk[g])
  BY <1>1
<1>5. \A g \in Files : Freshness(w.obs[g], w.disk[g]) = "fresh"
                         => Freshness(u.obs[g], u.disk[g]) = "fresh"
  BY <1>3, <1>4 DEF IsFresh
<1>6. p.target = Target /\ p.tests \subseteq Files /\ Target \in Files
  BY FileProposalsAssumption DEF Files
<1>7. ExistingTests(p, u) = ExistingTests(p, w)
  BY <1>1 DEF ExistingTests
<1> HIDE DEF u
<1>8. /\ TargetFreshness(p, w) = "fresh" => TargetFreshness(p, u) = "fresh"
      /\ f = Target /\ ~IsSecretPath(p) => TargetFreshness(p, u) = "fresh"
  BY <1>3, <1>5, <1>6 DEF TargetFreshness, IsFresh
<1>9. ~LacksTests(p, w) \/ f \in ExistingTests(p, w) => ~LacksTests(p, u)
  <2>1. \A t \in ExistingTests(p, w) : t \in Files
    BY <1>6 DEF ExistingTests
  <2> QED
    BY <1>3, <1>5, <1>7, <2>1 DEF LacksTests, IsFresh
<1> QED
  BY <1>7, <1>8, <1>9 DEF u

\* What a passed command does to the status of the validation.
LEMMA PassingHelps ==
  ASSUME NEW p, NEW w \in World, ~IsFileAction(p), NEW c \in RequiredFor(p)
  PROVE  LET u == AfterResult(w, c, "passed")
             v(x) == ValidationStatus(p, x)
         IN /\ v(w) # "failed" => v(u) # "failed"
            /\ v(w) \notin {"failed", "not_run", "stale"} => v(u) = v(w)
            /\ (\A d \in RequiredFor(p) : u.results[d] = "passed") => v(u) = "passed"
            /\ RiskOf(p, u) = RiskOf(p, w)
<1> DEFINE u == AfterResult(w, c, "passed")
<1>1. ValidationScope(p) \in {"before_commit", "before_push"}
  BY DEF RequiredFor, RequiredCommands
<1>2. /\ RequiredFor(p) = RequiredCommands(ValidationScope(p))
      /\ RequiredFor(p) \subseteq Commands /\ RequiredFor(p) # {}
  BY <1>1 DEF RequiredFor, RequiredCommands, Commands
<1>3. \A x \in {w, u} : ValidationStatus(p, x) = StrongestStatus(x.results, RequiredFor(p))
  BY <1>1, <1>2 DEF ValidationStatus
<1>4. /\ u.results[c] = "passed"
      /\ \A d \in Commands \ {c} : u.results[d] = w.results[d]
      /\ \A d \in Commands : w.results[d] \in CommandStatuses
  BY <1>2 DEF AfterResult, World
<1>5. [u EXCEPT !.results = [d \in Commands |-> "passed"]]
        = [w EXCEPT !.results = [d \in Commands |-> "passed"]]
  BY DEF AfterResult, World
<1>6. RiskOf(p, u) = RiskOf(p, w)
  BY <1>5 DEF RiskOf
<1> HIDE DEF u
<1>7. \A x \in {w, u} :
        /\ ValidationStatus(p, x) = "failed"
             <=> \E d \in RequiredFor(p) : x.results[d] = "failed"
        /\ ValidationStatus(p, x) \in {"failed", "not_run", "stale", "passed"}
        /\ (\A d \in RequiredFor(p) : x.results[d] = "passed")
             => ValidationStatus(p, x) = "passed"
  BY <1>2, <1>3 DEF StrongestStatus
<1>8. ValidationStatus(p, w) = "passed"
        => \A d \in RequiredFor(p) : w.results[d] = "passed"
  BY <1>2, <1>3, <1>4, StatusOfLacking DEF World
<1> QED
  BY <1>2, <1>4, <1>6, <1>7, <1>8 DEF u

\* What an action waits for is not there.
Lacks(p, w) ==
  IF IsFileAction(p) THEN TargetFreshness(p, w) # "fresh" \/ LacksTests(p, w)
  ELSE ValidationStatus(p, w) \in {"failed"} \cup NotRunOrStale

\* What a decision d, of whose plan the steps left are not yet done, says of a world
\* in which nothing but gathering evidence has happened since.
Progress(p, w, d, left) ==
  /\ d.decision \in Postures
  /\ d.plan # {} => d.decision = "DEFER"
  /\ d.decision \in {"PROCEED", "ESCALATE"} => ~Lacks(p, w) /\ RiskOf(p, w) = d.decision
  /\ d.decision = "BLOCK" => RiskOf(p, w) = "BLOCK" \/ d.rule \in FailedValidationRules
  /\ d.decision = "DEFER" => RiskOf(p, w) # "BLOCK"
  /\ d.decision = "DEFER" /\ IsFileAction(p) =>
       /\ d.expected = RiskOf(p, w)
       /\ Target \notin left /\ ~IsSecretPath(p) => TargetFreshness(p, w) = "fresh"
       /\ ExistingTests(p, w) \cap left = {} => ~LacksTests(p, w)
  /\ d.decision = "DEFER" /\ ~IsFileAction(p) =>
       /\ ValidationStatus(p, w) # "failed"
       /\ RiskOf(p, w) = "ESCALATE" => d.pendingEscalation
       /\ Validation \notin left => ValidationStatus(p, w) \notin NotRunOrStale

\* With nothing lacking the risk decides; with something lacking, it only blocks.
LEMMA VerdictOfRisk ==
  ASSUME NEW p \in Proposals, NEW w \in World
  PROVE  LET d == Decide(DefaultRules, Signals(p, w)).decision IN
         /\ ~Lacks(p, w) => d = RiskOf(p, w)
         /\ Lacks(p, w) => d \in {"DEFER", "BLOCK"}
         /\ d = "BLOCK" <=> \/ RiskOf(p, w) = "BLOCK"
                            \/ ~IsFileAction(p) /\ ValidationStatus(p, w) = "failed"
         /\ d \in Postures
<1> DEFINE d == Decide(DefaultRules, Signals(p, w)).decision
<1>1. d = DecisionOf(DefaultRules, Signals(p, w))
  BY DEF Decide, DecisionOf
<1>2. d \in Postures
  BY DecideTypes
<1>3. CASE IsFileAction(p)
  BY <1>1, <1>2, <1>3, FileVerdict, FileRisk DEF Lacks
<1>4. CASE ~IsFileAction(p)
  BY <1>1, <1>2, <1>4, LandingVerdict DEF Lacks, VerdictOnLanding, NotRunOrStale
<1> QED
  BY <1>2, <1>3, <1>4

\* A decision is about the world it was made in.
LEMMA DecisionIsProgress ==
  ASSUME NEW p \in Proposals, NEW w \in World
  PROVE  LET d == Decide(DefaultRules, Signals(p, w)) IN Progress(p, w, d, d.plan)
<1> DEFINE d == Decide(DefaultRules, Signals(p, w))
<1>1. d.plan # {} => d.decision = "DEFER"
  BY DEF Decide
<1>2. d.decision = "BLOCK" => RiskOf(p, w) = "BLOCK" \/ d.rule \in FailedValidationRules
  BY VerdictOfRisk, LandingBlocked
<1>3. ASSUME d.decision = "DEFER", IsFileAction(p)
      PROVE  /\ d.expected = RiskOf(p, w)
             /\ Target \notin d.plan /\ ~IsSecretPath(p) => TargetFreshness(p, w) = "fresh"
             /\ ExistingTests(p, w) \cap d.plan = {} => ~LacksTests(p, w)
  <2>1. d.expected = RiskOf(p, w)
    BY <1>3, FilePlan
  <2>2. TargetFreshness(p, w) # "fresh" => Target \in d.plan
    BY <1>3, FilePlan DEF EvidenceForEdit
  <2>3. LacksTests(p, w) => ExistingTests(p, w) \subseteq d.plan
    BY <1>3, FilePlan DEF EvidenceForEdit, LacksTests
  <2>4. LacksTests(p, w) => ExistingTests(p, w) # {}
    BY DEF LacksTests
  <2> HIDE DEF d
  <2> QED
    BY <2>1, <2>2, <2>3, <2>4
<1>4. ASSUME d.decision = "DEFER", ~IsFileAction(p)
      PROVE  /\ ValidationStatus(p, w) # "failed"
             /\ RiskOf(p, w) = "ESCALATE" => d.pendingEscalation
             /\ Validation \notin d.plan => ValidationStatus(p, w) \notin NotRunOrStale
  <2>1. ValidationStatus(p, w) # "failed"
    BY <1>4, VerdictOfRisk
  <2>2. RiskOf(p, w) = "ESCALATE" => d.pendingEscalation
    BY <1>4, LandingAnnounced
  <2>3. d.plan = EvidenceForLanding(ValidationStatus(p, w))
    BY <1>4, LandingPlan
  <2> QED
    BY <2>1, <2>2, <2>3 DEF EvidenceForLanding, NotRunOrStale
<1>5. /\ d.decision \in Postures
      /\ d.decision \in {"PROCEED", "ESCALATE"} => ~Lacks(p, w) /\ RiskOf(p, w) = d.decision
      /\ d.decision = "DEFER" => RiskOf(p, w) # "BLOCK"
  BY VerdictOfRisk
<1> HIDE DEF d
<1> QED
  BY <1>1, <1>2, <1>3, <1>4, <1>5 DEF Progress, d

\* A file that is read, and a command that passes, is done with.
LEMMA ReadingIsProgress ==
  ASSUME NEW p \in Proposals, NEW w \in World, IsFileAction(p),
         NEW f \in Files, w.disk[f] # "absent",
         NEW d, NEW left, Progress(p, w, d, left)
  PROVE  Progress(p, AfterReading(w, f, "full"), d, left \ {f})
<1> DEFINE u == AfterReading(w, f, "full")
<1>1. /\ ExistingTests(p, u) = ExistingTests(p, w)
      /\ TargetFreshness(p, w) = "fresh" => TargetFreshness(p, u) = "fresh"
      /\ f = Target /\ ~IsSecretPath(p) => TargetFreshness(p, u) = "fresh"
      /\ ~LacksTests(p, w) \/ f \in ExistingTests(p, w) => ~LacksTests(p, u)
  BY ReadingHelps
<1>2. RiskOf(p, u) = RiskOf(p, w)
  BY FileRisk
<1> HIDE DEF u
<1>3. ~Lacks(p, w) => ~Lacks(p, u)
  BY <1>1 DEF Lacks
<1>4. ASSUME d.decision = "DEFER"
      PROVE  /\ d.expected = RiskOf(p, u)
             /\ Target \notin left \ {f} /\ ~IsSecretPath(p) => TargetFreshness(p, u) = "fresh"
             /\ ExistingTests(p, u) \cap (left \ {f}) = {} => ~LacksTests(p, u)
  BY <1>1, <1>2, <1>4 DEF Progress
<1> QED
  BY <1>2, <1>3, <1>4 DEF Progress, u

LEMMA PassingIsProgress ==
  ASSUME NEW p \in Proposals, NEW w \in World, ~IsFileAction(p), NEW c \in RequiredFor(p),
         NEW d, NEW left, Progress(p, w, d, left)
  PROVE  LET u == AfterResult(w, c, "passed") IN
         Progress(p, u, d, IF \A e \in RequiredFor(p) : u.results[e] = "passed"
                           THEN left \ {Validation} ELSE left)
<1> DEFINE u == AfterResult(w, c, "passed")
           done == \A e \in RequiredFor(p) : u.results[e] = "passed"
           rest == IF done THEN left \ {Validation} ELSE left
           v(x) == ValidationStatus(p, x)
<1>1. /\ v(w) # "failed" => v(u) # "failed"
      /\ v(w) \notin {"failed", "not_run", "stale"} => v(u) = v(w)
      /\ done => v(u) = "passed"
      /\ RiskOf(p, u) = RiskOf(p, w)
  BY PassingHelps
<1> HIDE DEF u, done, v
<1>2. ~Lacks(p, w) => ~Lacks(p, u)
  BY <1>1 DEF Lacks, NotRunOrStale, v
<1>3. ASSUME d.decision = "DEFER"
      PROVE  /\ v(u) # "failed"
             /\ RiskOf(p, u) = "ESCALATE" => d.pendingEscalation
             /\ Validation \notin rest => v(u) \notin NotRunOrStale
  BY <1>1, <1>3 DEF Progress, NotRunOrStale, v
<1> HIDE DEF rest
<1>4. Progress(p, u, d, rest)
  BY <1>1, <1>2, <1>3 DEF Progress, v
<1> QED
  BY <1>4 DEF u, done, rest

-----------------------------------------------------------------------------
(* From a decision to the next *)

\* Nothing but gathering evidence happens between a decision and the next, unless
\* "drift" says so.
ProgressInv ==
  /\ proposal \in Proposals
  /\ world \in World
  /\ since # "drift" => Progress(proposal, world, last, todo)

LEMMA ProgressStep == ProgressInv /\ [Next]_vars => ProgressInv'
<1> SUFFICES ASSUME ProgressInv, [Next]_vars
             PROVE  ProgressInv'
  OBVIOUS
<1>1. CASE DecideProposal
  <2>1. /\ proposal' \in Proposals /\ world' \in World
        /\ last' = Decide(DefaultRules, Signals(proposal', world')) /\ todo' = last'.plan
    BY <1>1 DEF DecideProposal, ProgressInv
  <2>2. Progress(proposal', world', last', todo')
    BY <2>1, DecisionIsProgress
  <2> QED
    BY <2>1, <2>2 DEF ProgressInv
<1>2. ASSUME NEW f \in Files, ReadFile(f)
      PROVE  ProgressInv'
  <2>1. /\ proposal' = proposal /\ last' = last /\ IsFileAction(proposal)
        /\ world.disk[f] # "absent" /\ todo' = todo \ {f}
        /\ world' = AfterReading(world, f, "full")
        /\ since' # "drift" => since # "drift"
    BY <1>2 DEF ReadFile, Gathered
  <2>2. world' \in World
    BY <2>1, ReadingKeepsWorld DEF ProgressInv
  <2>3. since # "drift" => Progress(proposal, AfterReading(world, f, "full"), last, todo \ {f})
    BY <2>1, ReadingIsProgress DEF ProgressInv
  <2> QED
    BY <2>1, <2>2, <2>3 DEF ProgressInv
<1>3. ASSUME NEW c \in Commands, PassCommand(c)
      PROVE  ProgressInv'
  <2> DEFINE u == AfterResult(world, c, "passed")
             rest == IF \A e \in RequiredFor(proposal) : u.results[e] = "passed"
                     THEN todo \ {Validation} ELSE todo
  <2>1. /\ proposal' = proposal /\ last' = last /\ c \in RequiredFor(proposal)
        /\ world' = u /\ todo' = rest
        /\ since' # "drift" => since # "drift"
    BY <1>3 DEF PassCommand, Gathered, Required
  <2>2. world' \in World
    BY <2>1, ResultKeepsWorld DEF ProgressInv, CommandStatuses
  <2>3. ~IsFileAction(proposal)
    BY <2>1 DEF RequiredFor
  <2>4. since # "drift" => Progress(proposal, u, last, rest)
    BY <2>1, <2>3, PassingIsProgress DEF ProgressInv
  <2> HIDE DEF u, rest
  <2> QED
    BY <2>1, <2>2, <2>4 DEF ProgressInv
<1>4. CASE \/ \E f \in Files : GlanceAt(f)
           \/ \E c \in Commands : FailCommand(c)
           \/ Drift
  <2>1. since' = "drift" /\ proposal' = proposal
    BY <1>4 DEF GlanceAt, FailCommand, Drift
  <2>2. world' \in World
    BY <1>4, ReadingKeepsWorld, ResultKeepsWorld, DriftKeepsWorld
    DEF GlanceAt, FailCommand, Drift, ProgressInv, CommandStatuses
  <2> QED
    BY <2>1, <2>2 DEF ProgressInv
<1>5. CASE UNCHANGED vars
  BY <1>5 DEF vars, ProgressInv
<1> QED
  BY <1>1, <1>2, <1>3, <1>4, <1>5 DEF Next

LEMMA ProgressInit == Init => ProgressInv
  BY FreshIsWorld DEF Init, ProgressInv

\* The steps at which a proposal is decided again.
LEMMA DecidedAgainStep ==
  ASSUME ProgressInv, [Next]_vars, DecidedAgain
  PROVE  /\ proposal \in Proposals /\ world \in World
         /\ last' = Decide(DefaultRules, Signals(proposal, world))
         /\ since = "gathering" => Progress(proposal, world, last, todo)
<1>1. DecideProposal
  BY DEF DecidedAgain, Next, ReadFile, GlanceAt, PassCommand, FailCommand, Drift, Gathered, vars
<1> QED
  BY <1>1 DEF DecideProposal, ProgressInv

\* Where the plan has been carried out nothing lacks, and the risk decides.
LEMMA PlanDoneStep ==
  ASSUME ProgressInv, [Next]_vars, DecidedAgain, PlanDone, ~HasSecretPath
  PROVE  /\ last.decision = "DEFER"
         /\ ~Lacks(proposal, world)
         /\ last'.decision = RiskOf(proposal, world)
<1>1. /\ proposal \in Proposals /\ world \in World
      /\ last' = Decide(DefaultRules, Signals(proposal, world))
      /\ Progress(proposal, world, last, todo)
  BY DecidedAgainStep DEF PlanDone
<1>2. last.decision = "DEFER" /\ todo = {}
  BY <1>1 DEF Progress, PlanDone
<1>3. ~Lacks(proposal, world)
  BY <1>1, <1>2 DEF Progress, Lacks, HasSecretPath
<1> QED
  BY <1>1, <1>2, <1>3, VerdictOfRisk

\* A fetch plan is complete: carried out once in an otherwise unchanged world, it lifts
\* the deferral, and the next decision asks for nothing more.
THEOREM PlansSuffice == Spec => PlanSuffices
<1>1. ASSUME ProgressInv, [Next]_vars, DecidedAgain, PlanDone, ~HasSecretPath
      PROVE  last'.plan = {}
  <2>1. /\ proposal \in Proposals /\ world \in World
        /\ last' = Decide(DefaultRules, Signals(proposal, world))
        /\ ~Lacks(proposal, world)
    BY <1>1, DecidedAgainStep, PlanDoneStep
  <2>2. CASE last'.decision # "DEFER"
    BY <2>1, <2>2 DEF Decide
  <2>3. CASE last'.decision = "DEFER" /\ ~IsFileAction(proposal)
    <3>1. last'.plan = EvidenceForLanding(ValidationStatus(proposal, world))
      BY <2>1, <2>3, LandingPlan
    <3> QED
      BY <2>1, <2>3, <3>1 DEF EvidenceForLanding, Lacks, NotRunOrStale
  <2>4. ~(last'.decision = "DEFER" /\ IsFileAction(proposal))
    <3>1. IsFileAction(proposal) => RiskOf(proposal, world) \in {"BLOCK", "ESCALATE", "PROCEED"}
      BY FileRisk
    <3> QED
      BY <2>1, <3>1, VerdictOfRisk
  <2> QED
    BY <2>2, <2>3, <2>4
<1>2. ProgressInv /\ [Next]_vars =>
        [DecidedAgain /\ PlanDone /\ ~HasSecretPath => last'.plan = {}]_vars
  BY <1>1
<1> QED
  BY <1>2, ProgressInit, ProgressStep, PTL DEF Spec, PlanSuffices

\* What a deferral foretells comes: of a file action the expected decision, of a
\* landing action no BLOCK, and a human only where one was announced.
THEOREM OutcomesForetold == Spec => OutcomeForetold
<1> DEFINE A == DecidedAgain /\ PlanDone /\ ~HasSecretPath =>
                  IF IsFileAction(proposal) THEN last'.decision = last.expected
                  ELSE /\ last'.decision # "BLOCK"
                       /\ last'.decision = "ESCALATE" => last.pendingEscalation
<1>1. ASSUME ProgressInv, [Next]_vars PROVE A
  <2> SUFFICES ASSUME DecidedAgain, PlanDone, ~HasSecretPath
               PROVE  IF IsFileAction(proposal) THEN last'.decision = last.expected
                      ELSE /\ last'.decision # "BLOCK"
                           /\ last'.decision = "ESCALATE" => last.pendingEscalation
    OBVIOUS
  <2>1. /\ Progress(proposal, world, last, todo)
        /\ last.decision = "DEFER"
        /\ last'.decision = RiskOf(proposal, world)
    BY <1>1, DecidedAgainStep, PlanDoneStep DEF PlanDone
  <2> QED
    BY <2>1 DEF Progress
<1>2. ProgressInv /\ [Next]_vars => [A]_vars
  BY <1>1
<1> QED
  BY <1>2, ProgressInit, ProgressStep, PTL DEF Spec, OutcomeForetold

\* Gathering evidence changes a decision only from DEFER, or from a BLOCK for failed
\* validation, and never to BLOCK.
THEOREM GatheringLifts == Spec => EvidenceOnlyLifts
<1> DEFINE A == DecidedAgain /\ since = "gathering" /\ last'.decision # last.decision =>
                  /\ last.decision = "DEFER" \/ last.rule \in FailedValidationRules
                  /\ last'.decision # "BLOCK"
<1>1. ASSUME ProgressInv, [Next]_vars PROVE A
  <2> SUFFICES ASSUME DecidedAgain, since = "gathering", last'.decision # last.decision
               PROVE  /\ last.decision = "DEFER" \/ last.rule \in FailedValidationRules
                      /\ last'.decision # "BLOCK"
    OBVIOUS
  <2>1. /\ Progress(proposal, world, last, todo)
        /\ proposal \in Proposals /\ world \in World
        /\ last' = Decide(DefaultRules, Signals(proposal, world))
    BY <1>1, DecidedAgainStep
  <2>2. last.decision \in Postures
    BY <2>1 DEF Progress
  <2>3. CASE last.decision \in {"PROCEED", "ESCALATE"}
    <3>1. ~Lacks(proposal, world) /\ RiskOf(proposal, world) = last.decision
      BY <2>1, <2>3 DEF Progress
    <3> QED
      BY <2>1, <3>1, VerdictOfRisk
  <2>4. CASE last.decision = "BLOCK"
    <3>1. RiskOf(proposal, world) = "BLOCK" \/ last.rule \in FailedValidationRules
      BY <2>1, <2>4 DEF Progress
    <3> QED
      BY <2>1, <2>4, <3>1, VerdictOfRisk
  <2>5. CASE last.decision = "DEFER"
    <3>1. /\ RiskOf(proposal, world) # "BLOCK"
          /\ ~IsFileAction(proposal) => ValidationStatus(proposal, world) # "failed"
      BY <2>1, <2>5 DEF Progress
    <3> QED
      BY <2>1, <2>5, <3>1, VerdictOfRisk
  <2> QED
    BY <2>2, <2>3, <2>4, <2>5 DEF Postures
<1>2. ProgressInv /\ [Next]_vars => [A]_vars
  BY <1>1
<1> QED
  BY <1>2, ProgressInit, ProgressStep, PTL DEF Spec, EvidenceOnlyLifts
=============================================================================
