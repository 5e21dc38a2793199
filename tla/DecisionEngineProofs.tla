------------------------ MODULE DecisionEngineProofs ------------------------
(***************************************************************************)
(* What the decision engine promises of every policy, the default one and  *)
(* those a project writes for itself: the rule that wins is one of those   *)
(* that match, and the order the rules are listed in takes no action past  *)
(* a matched BLOCK nor past evidence a matched rule asks for.  Nothing is  *)
(* assumed there of the conditions of a rule or of the signals.            *)
(*                                                                         *)
(* Then the 22 default rules: which kind of rule decides, whatever is      *)
(* reported (DefaultVerdict), what they come to on a file action           *)
(* (FileVerdict), and that evidence which lacks shows in what the          *)
(* detectors report and is asked for.  The components that decide in a     *)
(* changing world build on these lemmas.                                   *)
(***************************************************************************)
EXTENDS DecisionEngine, Worlds,
        FiniteSetTheorems, WellFoundedInduction, TLAPS

\* A policy is a list of rules, each with one of the four decisions.
IsPolicy(rules) ==
  /\ DOMAIN rules = 1..Len(rules)
  /\ Len(rules) \in Nat
  /\ \A n \in DOMAIN rules : rules[n].decision \in Postures

-----------------------------------------------------------------------------
(* Choosing among numbered rules *)

\* The intervals up to the members of N, ordered by inclusion, have a least.
LEMMA LeastExists ==
  ASSUME NEW N \in SUBSET Nat, N # {}
  PROVE  \E n \in N : \A m \in N : n <= m
<1> DEFINE upTo == {0..n : n \in N}
<1>1. upTo \subseteq FiniteSubsetsOf(Nat) /\ upTo # {}
  <2>1. \A n \in N : 0..n \subseteq Nat
    OBVIOUS
  <2>2. \A n \in N : IsFiniteSet(0..n)
    BY FS_Interval
  <2> QED
    BY <2>1, <2>2 DEF FiniteSubsetsOf
<1>2. PICK I \in upTo : \A J \in upTo : <<J, I>> \notin StrictSubsetOrdering(Nat)
  BY <1>1, FS_StrictSubsetOrderingWellFounded, WFMin
<1>3. PICK n \in N : I = 0..n
  OBVIOUS
<1>4. ASSUME NEW m \in N PROVE n <= m
  <2> SUFFICES ASSUME m < n PROVE FALSE
    OBVIOUS
  <2>1. 0..m \subseteq 0..n /\ n \in 0..n /\ n \notin 0..m
    OBVIOUS
  <2>2. 0..m \in SUBSET Nat /\ 0..n \in SUBSET Nat
    OBVIOUS
  <2>3. 0..m # 0..n
    BY <2>1
  <2>4. <<0..m, 0..n>> \in StrictSubsetOrdering(Nat)
    BY <2>1, <2>2, <2>3 DEF StrictSubsetOrdering
  <2>5. 0..m \in upTo
    OBVIOUS
  <2> QED
    BY <1>2, <1>3, <2>4, <2>5
<1> QED
  BY <1>4

LEMMA FirstOfMember ==
  ASSUME NEW N \in SUBSET Nat, N # {}
  PROVE  FirstOf(N) \in N
  BY LeastExists DEF FirstOf

\* Some rule of N is as severe as any.
LEMMA MostSevereExists ==
  ASSUME NEW rules, NEW N, N # {}, \A n \in N : rules[n].decision \in Postures
  PROVE  {n \in N : \A m \in N :
            Severity[rules[m].decision] <= Severity[rules[n].decision]} # {}
<1>1. \A n \in N : Severity[rules[n].decision] \in 0..3
  BY DEF Severity, Postures
<1> DEFINE sev(n) == Severity[rules[n].decision]
<1> HIDE DEF sev
<1>2. \A n \in N : sev(n) \in 0..3
  BY <1>1 DEF sev
<1>3. \E n \in N : \A m \in N : sev(m) <= sev(n)
  <2>1. CASE \E n \in N : sev(n) = 3
    BY <1>2, <2>1
  <2>2. CASE (\A n \in N : sev(n) # 3) /\ \E n \in N : sev(n) = 2
    BY <1>2, <2>2
  <2>3. CASE (\A n \in N : sev(n) \notin {2, 3}) /\ \E n \in N : sev(n) = 1
    BY <1>2, <2>3
  <2>4. CASE \A n \in N : sev(n) \notin {1, 2, 3}
    BY <1>2, <2>4
  <2> QED
    BY <2>1, <2>2, <2>3, <2>4
<1> QED
  BY <1>3 DEF sev

LEMMA SevereChoice ==
  ASSUME NEW rules, NEW N \in SUBSET Nat, N # {},
         \A n \in N : rules[n].decision \in Postures
  PROVE  /\ ChooseBySeverity(rules, N) \in N
         /\ \A m \in N : Severity[rules[m].decision]
                           <= Severity[rules[ChooseBySeverity(rules, N)].decision]
<1> DEFINE most == {n \in N : \A m \in N :
                      Severity[rules[m].decision] <= Severity[rules[n].decision]}
<1>1. most # {} /\ most \in SUBSET Nat
  BY MostSevereExists
<1>2. FirstOf(most) \in most
  BY <1>1, FirstOfMember
<1> QED
  BY <1>2 DEF ChooseBySeverity

\* The rules that match, by their places in the policy.
LEMMA MatchedTypes ==
  ASSUME NEW rules, IsPolicy(rules), NEW s
  PROVE  /\ MatchedRules(rules, s) \in SUBSET Nat
         /\ MatchedRules(rules, s) \subseteq DOMAIN rules
         /\ \A n \in MatchedRules(rules, s) : rules[n].decision \in Postures
  BY DEF MatchedRules, IsPolicy

\* The rule that wins is one of the rules that match.
THEOREM WinnerMatches ==
  ASSUME NEW rules, NEW N \in SUBSET Nat, N # {},
         \A n \in N : rules[n].decision \in Postures
  PROVE  ChooseWinningRule(rules, N) \in N
<1> DEFINE blocks    == {n \in N : rules[n].decision = "BLOCK"}
           reducible == {n \in N : IsReducibleDeferRule(rules[n])}
           context   == {n \in N : IsContextDeferRule(rules[n])}
<1>1. /\ blocks # {} => FirstOf(blocks) \in blocks
      /\ reducible # {} => FirstOf(reducible) \in reducible
      /\ context # {} => FirstOf(context) \in context
  BY FirstOfMember
<1>2. ChooseBySeverity(rules, N) \in N
  BY SevereChoice
<1>3. CASE blocks # {}
  BY <1>1, <1>3 DEF ChooseWinningRule
<1>4. CASE blocks = {} /\ reducible # {}
  BY <1>1, <1>4 DEF ChooseWinningRule
<1>5. CASE blocks = {} /\ reducible = {} /\ context # {}
  BY <1>1, <1>5 DEF ChooseWinningRule
<1>6. CASE blocks = {} /\ reducible = {} /\ context = {}
  BY <1>2, <1>6 DEF ChooseWinningRule
<1> QED
  BY <1>3, <1>4, <1>5, <1>6

-----------------------------------------------------------------------------
(* What wins *)

\* A matched BLOCK wins, wherever it is listed and whatever else matches.
THEOREM BlockIsNeverHidden ==
  ASSUME NEW rules, IsPolicy(rules), NEW s,
         NEW b \in MatchedRules(rules, s), rules[b].decision = "BLOCK"
  PROVE  DecisionOf(rules, s) = "BLOCK"
<1> DEFINE N      == MatchedRules(rules, s)
           blocks == {n \in N : rules[n].decision = "BLOCK"}
<1>1. N \in SUBSET Nat /\ N # {} /\ blocks # {} /\ blocks \in SUBSET Nat
  BY MatchedTypes
<1>2. FirstOf(blocks) \in blocks
  BY <1>1, FirstOfMember
<1>3. ChooseWinningRule(rules, N) = FirstOf(blocks)
  BY <1>1 DEF ChooseWinningRule
<1> QED
  BY <1>1, <1>2, <1>3 DEF DecisionOf, WinningRule

\* Where a matched rule asks for a file to be read, a validation to be run or more
\* context, the action neither proceeds nor goes to a human: the decision is DEFER or
\* BLOCK.
THEOREM EvidenceComesFirst ==
  ASSUME NEW rules, IsPolicy(rules), NEW s, NEW d \in MatchedRules(rules, s),
         IsReducibleDeferRule(rules[d]) \/ IsContextDeferRule(rules[d])
  PROVE  DecisionOf(rules, s) \in {"DEFER", "BLOCK"}
<1> DEFINE N         == MatchedRules(rules, s)
           blocks    == {n \in N : rules[n].decision = "BLOCK"}
           reducible == {n \in N : IsReducibleDeferRule(rules[n])}
           context   == {n \in N : IsContextDeferRule(rules[n])}
<1>1. N \in SUBSET Nat /\ N # {}
  BY MatchedTypes
<1>2. CASE blocks # {}
  BY <1>2, BlockIsNeverHidden
<1>3. CASE blocks = {} /\ reducible # {}
  <2>1. FirstOf(reducible) \in reducible
    BY <1>1, <1>3, FirstOfMember
  <2>2. ChooseWinningRule(rules, N) = FirstOf(reducible)
    BY <1>3 DEF ChooseWinningRule
  <2> QED
    BY <1>1, <2>1, <2>2 DEF DecisionOf, WinningRule, IsReducibleDeferRule
<1>4. CASE blocks = {} /\ reducible = {}
  <2>1. context # {}
    BY <1>4
  <2>2. FirstOf(context) \in context
    BY <1>1, <2>1, FirstOfMember
  <2>3. ChooseWinningRule(rules, N) = FirstOf(context)
    BY <1>4, <2>1 DEF ChooseWinningRule
  <2> QED
    BY <1>1, <2>2, <2>3 DEF DecisionOf, WinningRule, IsContextDeferRule
<1> QED
  BY <1>2, <1>3, <1>4

\* Without a matched rule that asks for evidence or for context, no matched rule is
\* more severe than the decision, and the action proceeds only if each of them lets
\* it.
THEOREM SeverityDecidesTheRest ==
  ASSUME NEW rules, IsPolicy(rules), NEW s,
         \A n \in MatchedRules(rules, s) :
           ~IsReducibleDeferRule(rules[n]) /\ ~IsContextDeferRule(rules[n])
  PROVE  \A n \in MatchedRules(rules, s) :
           Severity[rules[n].decision] <= Severity[DecisionOf(rules, s)]
<1> DEFINE N      == MatchedRules(rules, s)
           blocks == {n \in N : rules[n].decision = "BLOCK"}
<1>1. /\ N \in SUBSET Nat
      /\ \A n \in N : rules[n].decision \in Postures
  BY MatchedTypes
<1>2. CASE blocks # {}
  <2>1. DecisionOf(rules, s) = "BLOCK"
    BY <1>2, BlockIsNeverHidden
  <2> QED
    BY <1>1, <2>1 DEF Severity, Postures
<1>3. CASE blocks = {} /\ N # {}
  <2>1. /\ {n \in N : IsReducibleDeferRule(rules[n])} = {}
        /\ {n \in N : IsContextDeferRule(rules[n])} = {}
    OBVIOUS
  <2>2. ChooseWinningRule(rules, N) = ChooseBySeverity(rules, N)
    BY <1>3, <2>1 DEF ChooseWinningRule
  <2>3. \A m \in N : Severity[rules[m].decision]
                       <= Severity[rules[ChooseWinningRule(rules, N)].decision]
    BY <1>1, <1>3, <2>2, SevereChoice
  <2> QED
    BY <1>3, <2>3 DEF DecisionOf, WinningRule
<1>4. CASE N = {}
  BY <1>4
<1> QED
  BY <1>2, <1>3, <1>4

-----------------------------------------------------------------------------
(* The default rules *)

LEMMA DefaultIsPolicy == IsPolicy(DefaultRules)
  BY DEF IsPolicy, DefaultRules, Rule, Postures

\* Of a boolean signal a rule asks for TRUE.  (A name for this set, because the
\* provers keep Boolean values apart from others.)
Yes == {TRUE}

\* A signal that is reported and has one of the values a rule accepts.
Meets(s, name, values) == name \in DOMAIN s /\ s[name] \in values

\* What each of the rules asks for.
LEMMA DefaultTable ==
  /\ DOMAIN DefaultRules = 1..22
  /\ DefaultRules[1].when = [action_type |-> MutatingTypes,
                             target_file_freshness |-> {"stale", "unknown", "missing"}]
  /\ DefaultRules[2].when = [workspace_boundary_violation |-> Yes,
                             mutates_filesystem |-> Yes]
  /\ DefaultRules[3].when = [command_risk_score |-> {"critical"}]
  /\ DefaultRules[4].when = [command_risk_score |-> {"high"}]
  /\ DefaultRules[5].when = [destructive_operation |-> Yes, mutates_filesystem |-> Yes]
  /\ DefaultRules[6].when = [path_sensitivity |-> {"high", "critical"},
                             action_type |-> MutatingTypes]
  /\ DefaultRules[7].when = [secret_touch |-> {"probable", "confirmed"},
                             mutates_filesystem |-> Yes]
  /\ DefaultRules[8].when = [secret_touch |-> {"probable", "confirmed"},
                             action_type |-> {"read_file", "run_command"}]
  /\ DefaultRules[9].when = [validation_required |-> Yes,
                             validation_scope |-> {"before_commit"},
                             validation_status |-> NotRunOrStale]
  /\ DefaultRules[10].when = [validation_required |-> Yes,
                              validation_scope |-> {"before_push"},
                              validation_status |-> NotRunOrStale]
  /\ DefaultRules[11].when = [validation_required |-> Yes,
                              validation_scope |-> {"before_commit"},
                              validation_status |-> {"failed"}]
  /\ DefaultRules[12].when = [validation_required |-> Yes,
                              validation_scope |-> {"before_push"},
                              validation_status |-> {"failed"}]
  /\ DefaultRules[13].when = [context_completeness_score |-> 0..69]
  /\ DefaultRules[14].when = [force_push |-> Yes]
  /\ DefaultRules[15].when = [hook_bypass |-> Yes]
  /\ DefaultRules[16].when = [direct_mainline_push |-> Yes]
  /\ DefaultRules[17].when = [direct_mainline_commit |-> Yes]
  /\ DefaultRules[18].when = [branch_risk |-> {"unknown"}]
  /\ DefaultRules[19].when = [landing_risk |-> {"critical"}]
  /\ DefaultRules[20].when = [landing_risk |-> {"high"}]
  /\ DefaultRules[21].when = [landing_action |-> Yes, landing_risk |-> {"unknown"}]
  /\ DefaultRules[22].when = [autonomy_budget_status |-> {"exceeded"}]
<1>1. DOMAIN DefaultRules = 1..22
  BY DEF DefaultRules
<1>2. /\ DefaultRules[1].when = [action_type |-> MutatingTypes,
                                 target_file_freshness |-> {"stale", "unknown", "missing"}]
      /\ DefaultRules[2].when = [workspace_boundary_violation |-> Yes,
                                 mutates_filesystem |-> Yes]
      /\ DefaultRules[3].when = [command_risk_score |-> {"critical"}]
  BY DEF DefaultRules, Rule, Yes
<1>3. /\ DefaultRules[4].when = [command_risk_score |-> {"high"}]
      /\ DefaultRules[5].when = [destructive_operation |-> Yes, mutates_filesystem |-> Yes]
      /\ DefaultRules[6].when = [path_sensitivity |-> {"high", "critical"},
                                 action_type |-> MutatingTypes]
  BY DEF DefaultRules, Rule, Yes
<1>4. /\ DefaultRules[7].when = [secret_touch |-> {"probable", "confirmed"},
                                 mutates_filesystem |-> Yes]
      /\ DefaultRules[8].when = [secret_touch |-> {"probable", "confirmed"},
                                 action_type |-> {"read_file", "run_command"}]
      /\ DefaultRules[9].when = [validation_required |-> Yes,
                                 validation_scope |-> {"before_commit"},
                                 validation_status |-> NotRunOrStale]
      /\ DefaultRules[10].when = [validation_required |-> Yes,
                                  validation_scope |-> {"before_push"},
                                  validation_status |-> NotRunOrStale]
      /\ DefaultRules[11].when = [validation_required |-> Yes,
                                  validation_scope |-> {"before_commit"},
                                  validation_status |-> {"failed"}]
      /\ DefaultRules[12].when = [validation_required |-> Yes,
                                  validation_scope |-> {"before_push"},
                                  validation_status |-> {"failed"}]
  BY DEF DefaultRules, Rule, Yes
<1>5. /\ DefaultRules[13].when = [context_completeness_score |-> 0..69]
      /\ DefaultRules[14].when = [force_push |-> Yes]
      /\ DefaultRules[15].when = [hook_bypass |-> Yes]
      /\ DefaultRules[16].when = [direct_mainline_push |-> Yes]
      /\ DefaultRules[17].when = [direct_mainline_commit |-> Yes]
      /\ DefaultRules[18].when = [branch_risk |-> {"unknown"}]
      /\ DefaultRules[19].when = [landing_risk |-> {"critical"}]
      /\ DefaultRules[20].when = [landing_risk |-> {"high"}]
      /\ DefaultRules[21].when = [landing_action |-> Yes, landing_risk |-> {"unknown"}]
      /\ DefaultRules[22].when = [autonomy_budget_status |-> {"exceeded"}]
  BY DEF DefaultRules, Rule, Yes
<1> QED
  BY <1>1, <1>2, <1>3, <1>4, <1>5

\* When each of the rules matches.
LEMMA DefaultMatches ==
  ASSUME NEW s
  PROVE  LET M == MatchedRules(DefaultRules, s)
             lands(scope, statuses) == /\ Meets(s, "validation_required", Yes)
                                       /\ Meets(s, "validation_scope", {scope})
                                       /\ Meets(s, "validation_status", statuses)
         IN /\ M \subseteq 1..22
            /\ 1 \in M <=> /\ Meets(s, "action_type", MutatingTypes)
                           /\ Meets(s, "target_file_freshness",
                                    {"stale", "unknown", "missing"})
            /\ 2 \in M <=> /\ Meets(s, "workspace_boundary_violation", Yes)
                           /\ Meets(s, "mutates_filesystem", Yes)
            /\ 3 \in M <=> Meets(s, "command_risk_score", {"critical"})
            /\ 4 \in M <=> Meets(s, "command_risk_score", {"high"})
            /\ 5 \in M <=> /\ Meets(s, "destructive_operation", Yes)
                           /\ Meets(s, "mutates_filesystem", Yes)
            /\ 6 \in M <=> /\ Meets(s, "path_sensitivity", {"high", "critical"})
                           /\ Meets(s, "action_type", MutatingTypes)
            /\ 7 \in M <=> /\ Meets(s, "secret_touch", {"probable", "confirmed"})
                           /\ Meets(s, "mutates_filesystem", Yes)
            /\ 8 \in M <=> /\ Meets(s, "secret_touch", {"probable", "confirmed"})
                           /\ Meets(s, "action_type", {"read_file", "run_command"})
            /\ 9 \in M <=> lands("before_commit", NotRunOrStale)
            /\ 10 \in M <=> lands("before_push", NotRunOrStale)
            /\ 11 \in M <=> lands("before_commit", {"failed"})
            /\ 12 \in M <=> lands("before_push", {"failed"})
            /\ 13 \in M <=> Meets(s, "context_completeness_score", 0..69)
            /\ 14 \in M <=> Meets(s, "force_push", Yes)
            /\ 15 \in M <=> Meets(s, "hook_bypass", Yes)
            /\ 16 \in M <=> Meets(s, "direct_mainline_push", Yes)
            /\ 17 \in M <=> Meets(s, "direct_mainline_commit", Yes)
            /\ 18 \in M <=> Meets(s, "branch_risk", {"unknown"})
            /\ 19 \in M <=> Meets(s, "landing_risk", {"critical"})
            /\ 20 \in M <=> Meets(s, "landing_risk", {"high"})
            /\ 21 \in M <=> /\ Meets(s, "landing_action", Yes)
                            /\ Meets(s, "landing_risk", {"unknown"})
            /\ 22 \in M <=> Meets(s, "autonomy_budget_status", {"exceeded"})
<1> DEFINE M == MatchedRules(DefaultRules, s)
           lands(scope, statuses) == /\ Meets(s, "validation_required", Yes)
                                     /\ Meets(s, "validation_scope", {scope})
                                     /\ Meets(s, "validation_status", statuses)
<1>1. /\ M \subseteq 1..22
      /\ 1 \in M <=> /\ Meets(s, "action_type", MutatingTypes)
                     /\ Meets(s, "target_file_freshness",
                              {"stale", "unknown", "missing"})
      /\ 2 \in M <=> /\ Meets(s, "workspace_boundary_violation", Yes)
                     /\ Meets(s, "mutates_filesystem", Yes)
      /\ 3 \in M <=> Meets(s, "command_risk_score", {"critical"})
      /\ 4 \in M <=> Meets(s, "command_risk_score", {"high"})
      /\ 5 \in M <=> /\ Meets(s, "destructive_operation", Yes)
                     /\ Meets(s, "mutates_filesystem", Yes)
  BY DefaultTable, SMTT(30) DEF MatchedRules, Matches, Meets
<1>2. /\ 6 \in M <=> /\ Meets(s, "path_sensitivity", {"high", "critical"})
                     /\ Meets(s, "action_type", MutatingTypes)
      /\ 7 \in M <=> /\ Meets(s, "secret_touch", {"probable", "confirmed"})
                     /\ Meets(s, "mutates_filesystem", Yes)
      /\ 8 \in M <=> /\ Meets(s, "secret_touch", {"probable", "confirmed"})
                     /\ Meets(s, "action_type", {"read_file", "run_command"})
  BY DefaultTable, SMTT(30) DEF MatchedRules, Matches, Meets
<1>3. /\ 9 \in M <=> lands("before_commit", NotRunOrStale)
      /\ 10 \in M <=> lands("before_push", NotRunOrStale)
      /\ 11 \in M <=> lands("before_commit", {"failed"})
      /\ 12 \in M <=> lands("before_push", {"failed"})
  BY DefaultTable, SMTT(30) DEF MatchedRules, Matches, Meets
<1>4. /\ 13 \in M <=> Meets(s, "context_completeness_score", 0..69)
      /\ 14 \in M <=> Meets(s, "force_push", Yes)
      /\ 15 \in M <=> Meets(s, "hook_bypass", Yes)
      /\ 16 \in M <=> Meets(s, "direct_mainline_push", Yes)
      /\ 17 \in M <=> Meets(s, "direct_mainline_commit", Yes)
      /\ 18 \in M <=> Meets(s, "branch_risk", {"unknown"})
      /\ 19 \in M <=> Meets(s, "landing_risk", {"critical"})
      /\ 20 \in M <=> Meets(s, "landing_risk", {"high"})
      /\ 21 \in M <=> /\ Meets(s, "landing_action", Yes)
                      /\ Meets(s, "landing_risk", {"unknown"})
      /\ 22 \in M <=> Meets(s, "autonomy_budget_status", {"exceeded"})
  BY DefaultTable, SMTT(30) DEF MatchedRules, Matches, Meets
<1> QED
  BY <1>1, <1>2, <1>3, <1>4

\* The rules by what they decide; the two kinds of DEFER are those that wait for
\* evidence and those that only pause.
BlockRules == {2, 3, 7, 8, 11, 12, 14, 15, 16, 19}
EvidenceRules == {1, 9, 10, 13}
EscalationRules == {4, 5, 6, 17, 20}
PauseRules == {18, 21, 22}

LEMMA RuleKinds ==
  /\ DOMAIN DefaultRules = BlockRules \cup EvidenceRules \cup EscalationRules \cup PauseRules
  /\ \A n \in BlockRules : DefaultRules[n].decision = "BLOCK"
  /\ \A n \in EvidenceRules \cup PauseRules : DefaultRules[n].decision = "DEFER"
  /\ \A n \in EscalationRules : DefaultRules[n].decision = "ESCALATE"
  BY DEF DefaultRules, Rule, BlockRules, EvidenceRules, EscalationRules, PauseRules

\* The engine tells the rules that wait for evidence from the others by the names of
\* the signals they mention.
LEMMA EvidenceKinds ==
  /\ \A n \in {1, 9, 10} : /\ IsReducibleDeferRule(DefaultRules[n])
                           /\ ~IsContextDeferRule(DefaultRules[n])
  /\ IsContextDeferRule(DefaultRules[13]) /\ ~IsReducibleDeferRule(DefaultRules[13])
  /\ \A n \in (1..22) \ EvidenceRules :
       ~IsReducibleDeferRule(DefaultRules[n]) /\ ~IsContextDeferRule(DefaultRules[n])
<1>1. /\ DOMAIN DefaultRules[1].when = {"action_type", "target_file_freshness"}
      /\ DefaultRules[1].when["target_file_freshness"] = {"stale", "unknown", "missing"}
  BY DefaultTable
<1>2. \A n \in {9, 10} :
        /\ DOMAIN DefaultRules[n].when =
             {"validation_required", "validation_scope", "validation_status"}
        /\ DefaultRules[n].when["validation_status"] = {"not_run", "stale"}
  BY DefaultTable DEF NotRunOrStale
<1>3. \A n \in {1, 9, 10} : /\ IsReducibleDeferRule(DefaultRules[n])
                            /\ ~IsContextDeferRule(DefaultRules[n])
  BY <1>1, <1>2, RuleKinds
  DEF IsReducibleDeferRule, IsContextDeferRule, AcceptsSome, EvidenceRules
<1>4. DOMAIN DefaultRules[13].when = {"context_completeness_score"}
  BY DefaultTable
<1>5. IsContextDeferRule(DefaultRules[13]) /\ ~IsReducibleDeferRule(DefaultRules[13])
  BY <1>4, RuleKinds
  DEF IsContextDeferRule, IsReducibleDeferRule, AcceptsSome, EvidenceRules
<1>6. \A n \in BlockRules \cup EscalationRules : DefaultRules[n].decision # "DEFER"
  BY RuleKinds
<1>7. \A n \in PauseRules :
        ~IsReducibleDeferRule(DefaultRules[n]) /\ ~IsContextDeferRule(DefaultRules[n])
  BY DefaultTable DEF IsReducibleDeferRule, IsContextDeferRule, AcceptsSome, PauseRules
<1>8. \A n \in (1..22) \ EvidenceRules :
        n \in BlockRules \cup EscalationRules \cup PauseRules
  BY RuleKinds, DefaultTable
<1> QED
  BY <1>3, <1>5, <1>6, <1>7, <1>8 DEF IsReducibleDeferRule, IsContextDeferRule

\* What the default policy decides, whatever is reported: a rule that blocks wins,
\* then one that waits for evidence, then one that escalates, and a rule that only
\* pauses decides where no other kind matches.
THEOREM DefaultVerdict ==
  ASSUME NEW s
  PROVE  LET M == MatchedRules(DefaultRules, s) IN
         DecisionOf(DefaultRules, s) =
           IF M \cap BlockRules # {} THEN "BLOCK"
           ELSE IF M \cap EvidenceRules # {} THEN "DEFER"
           ELSE IF M \cap EscalationRules # {} THEN "ESCALATE"
           ELSE IF M \cap PauseRules # {} THEN "DEFER"
           ELSE "PROCEED"
<1> DEFINE M == MatchedRules(DefaultRules, s)
           v == DecisionOf(DefaultRules, s)
<1>1. M \in SUBSET Nat /\ M \subseteq DOMAIN DefaultRules
      /\ \A n \in M : DefaultRules[n].decision \in Postures
  BY MatchedTypes, DefaultIsPolicy
<1>2. CASE M \cap BlockRules # {}
  <2>1. v = "BLOCK"
    BY <1>2, RuleKinds, BlockIsNeverHidden, DefaultIsPolicy
  <2> QED
    BY <1>2, <2>1
<1>3. M = {} => v = "PROCEED"
  BY DEF DecisionOf, WinningRule, NoRule
<1>4. M # {} => \E n \in M : v = DefaultRules[n].decision
  BY <1>1, WinnerMatches DEF DecisionOf, WinningRule
<1>5. CASE M \cap BlockRules = {} /\ M \cap EvidenceRules # {}
  <2>1. v \in {"DEFER", "BLOCK"}
    BY <1>5, EvidenceKinds, EvidenceComesFirst, DefaultIsPolicy DEF EvidenceRules
  <2>2. v # "BLOCK"
    BY <1>1, <1>4, <1>5, RuleKinds
  <2> QED
    BY <1>5, <2>1, <2>2
<1>6. CASE M \cap BlockRules = {} /\ M \cap EvidenceRules = {}
  <2>1. \A n \in M : Severity[DefaultRules[n].decision] <= Severity[v]
    <3>1. \A n \in M : n \in (1..22) \ EvidenceRules
      BY <1>1, <1>6, DefaultTable
    <3>2. \A n \in M : /\ ~IsReducibleDeferRule(DefaultRules[n])
                       /\ ~IsContextDeferRule(DefaultRules[n])
      BY <3>1, EvidenceKinds
    <3> QED
      BY <3>2, SeverityDecidesTheRest, DefaultIsPolicy
  <2>2. \A n \in M : n \in EscalationRules \cup PauseRules
    BY <1>1, <1>6, RuleKinds
  <2>3. M # {} => v \in {"ESCALATE", "DEFER"}
    BY <1>4, <2>2, RuleKinds
  <2>4. CASE M \cap EscalationRules # {}
    <3>1. Severity["ESCALATE"] <= Severity[v]
      BY <2>1, <2>4, RuleKinds
    <3>2. v = "ESCALATE"
      BY <2>3, <2>4, <3>1 DEF Severity
    <3> QED
      BY <1>6, <2>4, <3>2
  <2>5. CASE M \cap EscalationRules = {} /\ M # {}
    <3>1. M \cap PauseRules # {} /\ v = "DEFER"
      BY <1>4, <2>2, <2>5, RuleKinds
    <3> QED
      BY <1>6, <2>5, <3>1
  <2>6. CASE M = {}
    BY <1>3, <2>6
  <2> QED
    BY <2>4, <2>5, <2>6
<1> QED
  BY <1>2, <1>5, <1>6

-----------------------------------------------------------------------------
(* The signals of a file action *)

\* What two detectors report together.
LEMMA JoinFacts ==
  ASSUME NEW a, NEW b
  PROVE  /\ DOMAIN (a ++ b) = DOMAIN a \cup DOMAIN b
         /\ \A x \in DOMAIN a : (a ++ b)[x] = a[x]
         /\ \A x \in DOMAIN b \ DOMAIN a : (a ++ b)[x] = b[x]
  BY DEF ++
LEMMA MeetsJoin ==
  ASSUME NEW a, NEW b, NEW x, NEW V
  PROVE  /\ x \in DOMAIN a => (Meets(a ++ b, x, V) <=> Meets(a, x, V))
         /\ x \notin DOMAIN a => (Meets(a ++ b, x, V) <=> Meets(b, x, V))
  BY DEF ++, Meets

\* The signals a file action may have.
FileRiskNames ==
  {"action_type", "target_path", "mutates_filesystem", "destructive_operation",
   "workspace_boundary_violation", "workspace_boundary_status", "path_sensitivity",
   "secret_touch", "secret_path_match", "secret_pattern_match"}
SeverityNames == {"destructive_score", "destructive_severity"}
ReadNames == {"target_file_freshness", "target_file_read_recently", "metadata_only"}
FreshnessNames == ReadNames \cup {"file_changed_since_read", "last_read_hash"}
ContextNames ==
  {"related_tests_found", "related_tests_read", "related_test_paths",
   "context_completeness_score"}
FileNames ==
  {"delegation_provenance", "landing_action", "landing_risk"} \cup FileRiskNames
    \cup SeverityNames \cup FreshnessNames \cup ContextNames

\* What each detector reports, and nothing else.
LEMMA FileRiskDomain ==
  ASSUME NEW p
  PROVE  LET a == FileRiskSignals(p) IN
         /\ FileRiskNames \subseteq DOMAIN a
         /\ DOMAIN a \subseteq FileRiskNames \cup SeverityNames
<1> DEFINE always == [action_type |-> p.type, target_path |-> p.target,
                      mutates_filesystem |-> TRUE,
                      destructive_operation |-> IsDestructive(p),
                      workspace_boundary_violation |-> p.outside,
                      workspace_boundary_status |->
                        IF p.outside THEN "outside" ELSE "inside",
                      path_sensitivity |-> PathSensitivity(p),
                      secret_touch |-> SecretTouch(p),
                      secret_path_match |-> IsSecretPath(p),
                      secret_pattern_match |-> p.secret = "content"]
           sometimes == When(IsDestructive(p),
                             [destructive_score |-> DestructiveScore(p),
                              destructive_severity |->
                                IF p.type # "delete_file" THEN p.destructive ELSE "high"])
<1>1. DOMAIN always = FileRiskNames
  BY DEF FileRiskNames
<1>2. DOMAIN sometimes \subseteq SeverityNames
  BY DEF When, SeverityNames
<1>3. FileRiskSignals(p) = always ++ sometimes
  BY DEF FileRiskSignals
<1> HIDE DEF always, sometimes
<1> QED
  BY <1>1, <1>2, <1>3, JoinFacts

LEMMA FreshnessDomain ==
  ASSUME NEW p, NEW w
  PROVE  LET b == ReadBeforeWriteSignals(p, w) IN
         /\ ReadNames \subseteq DOMAIN b
         /\ DOMAIN b \subseteq FreshnessNames
<1> DEFINE freshness == IF IsSecretPath(p) THEN "unknown"
                        ELSE Freshness(w.obs[p.target], w.disk[p.target])
           hashed == ~IsSecretPath(p) /\ w.obs[p.target] \notin {"never", "missing", "metadata"}
           always == [target_file_freshness |-> freshness,
                      target_file_read_recently |-> freshness = "fresh",
                      metadata_only |-> ~IsSecretPath(p) /\ w.obs[p.target] = "metadata"]
           changed == When(freshness = "stale"
                             \/ (freshness = "missing" /\ w.obs[p.target] # "missing"),
                           [file_changed_since_read |-> TRUE])
           same == When(freshness = "fresh", [file_changed_since_read |-> FALSE])
           lastHash == When(hashed, [last_read_hash |-> w.obs[p.target]])
<1>1. DOMAIN always = ReadNames
  BY DEF ReadNames
<1>2. /\ DOMAIN changed \subseteq FreshnessNames
      /\ DOMAIN same \subseteq FreshnessNames
      /\ DOMAIN lastHash \subseteq FreshnessNames
  BY DEF When, FreshnessNames
<1>3. ReadBeforeWriteSignals(p, w) = ((always ++ changed) ++ same) ++ lastHash
  BY DEF ReadBeforeWriteSignals
<1> HIDE DEF always, changed, same, lastHash
<1>4. DOMAIN (always ++ changed) = DOMAIN always \cup DOMAIN changed
  BY JoinFacts
<1>5. DOMAIN ((always ++ changed) ++ same) = DOMAIN (always ++ changed) \cup DOMAIN same
  BY JoinFacts
<1>6. DOMAIN ReadBeforeWriteSignals(p, w) =
        DOMAIN ((always ++ changed) ++ same) \cup DOMAIN lastHash
  BY <1>3, JoinFacts
<1> QED
  BY <1>1, <1>2, <1>4, <1>5, <1>6 DEF FreshnessNames

LEMMA ContextDomain ==
  ASSUME NEW p, NEW w
  PROVE  DOMAIN RelatedContextSignals(p, w) =
           IF p.type = "delete_file" THEN {} ELSE ContextNames
  BY DEF RelatedContextSignals, ContextNames

\* The signals are those of the detectors, no two of which report the same name.
LEMMA FileParts ==
  ASSUME NEW p, NEW w, IsFileAction(p)
  PROVE  LET s == Signals(p, w)
             a == FileRiskSignals(p)
             b == ReadBeforeWriteSignals(p, w)
             c == RelatedContextSignals(p, w)
         IN /\ DOMAIN s = {"delegation_provenance", "landing_action", "landing_risk"}
                            \cup DOMAIN a \cup DOMAIN b \cup DOMAIN c
            /\ DOMAIN s \subseteq FileNames
            /\ \A x \in DOMAIN a : s[x] = a[x]
            /\ \A x \in DOMAIN b : s[x] = b[x]
            /\ \A x \in DOMAIN c : s[x] = c[x]
            /\ s["landing_risk"] = "low"
<1> DEFINE d == [delegation_provenance |-> IF p.named THEN "partial" ELSE "unknown"]
           a == FileRiskSignals(p)
           b == ReadBeforeWriteSignals(p, w)
           c == RelatedContextSignals(p, w)
           e == [landing_action |-> FALSE, landing_risk |-> "low"]
           n == a ++ b
           m == n ++ c
           t == m ++ e
           s == Signals(p, w)
<1>1. s = d ++ t
  BY DEF Signals, FileSignals
<1>2. DOMAIN d = {"delegation_provenance"} /\ DOMAIN e = {"landing_action", "landing_risk"}
  OBVIOUS
<1>3. /\ DOMAIN a \subseteq FileRiskNames \cup SeverityNames
      /\ DOMAIN b \subseteq FreshnessNames
      /\ DOMAIN c \subseteq ContextNames
  BY FileRiskDomain, FreshnessDomain, ContextDomain
<1>4. e["landing_risk"] = "low"
  OBVIOUS
<1> HIDE DEF a, b, c, d, e, s
<1>5. /\ DOMAIN n = DOMAIN a \cup DOMAIN b
      /\ \A x \in DOMAIN a : n[x] = a[x]
      /\ \A x \in DOMAIN b \ DOMAIN a : n[x] = b[x]
  BY JoinFacts
<1> HIDE DEF n
<1>6. /\ DOMAIN m = DOMAIN n \cup DOMAIN c
      /\ \A x \in DOMAIN n : m[x] = n[x]
      /\ \A x \in DOMAIN c \ DOMAIN n : m[x] = c[x]
  BY JoinFacts
<1> HIDE DEF m
<1>7. /\ DOMAIN t = DOMAIN m \cup DOMAIN e
      /\ \A x \in DOMAIN m : t[x] = m[x]
      /\ \A x \in DOMAIN e \ DOMAIN m : t[x] = e[x]
  BY JoinFacts
<1> HIDE DEF t
<1>8. /\ DOMAIN (d ++ t) = DOMAIN d \cup DOMAIN t
      /\ \A x \in DOMAIN t \ DOMAIN d : (d ++ t)[x] = t[x]
  BY JoinFacts
<1>9. /\ DOMAIN s = DOMAIN d \cup DOMAIN t
      /\ \A x \in DOMAIN t \ DOMAIN d : s[x] = t[x]
  BY <1>1, <1>8
<1>10. /\ FileRiskNames \cap FreshnessNames = {} /\ SeverityNames \cap FreshnessNames = {}
       /\ (FileRiskNames \cup SeverityNames \cup FreshnessNames) \cap ContextNames = {}
       /\ (FileRiskNames \cup SeverityNames \cup FreshnessNames \cup ContextNames)
            \cap {"delegation_provenance", "landing_action", "landing_risk"} = {}
  BY DEF FileRiskNames, SeverityNames, FreshnessNames, ReadNames, ContextNames
<1>11. /\ \A x \in DOMAIN a : m[x] = a[x]
       /\ \A x \in DOMAIN b : m[x] = b[x]
       /\ \A x \in DOMAIN c : m[x] = c[x]
  BY <1>3, <1>5, <1>6, <1>10
<1>12. DOMAIN m \cap {"delegation_provenance", "landing_action", "landing_risk"} = {}
  BY <1>3, <1>5, <1>6, <1>10
<1>13. \A x \in DOMAIN m : s[x] = m[x]
  BY <1>2, <1>7, <1>9, <1>12
<1>14. s["landing_risk"] = "low"
  BY <1>2, <1>4, <1>7, <1>9, <1>12
<1>15. DOMAIN s \subseteq FileNames
  BY <1>2, <1>3, <1>5, <1>6, <1>7, <1>9 DEF FileNames
<1>16. DOMAIN s = {"delegation_provenance", "landing_action", "landing_risk"}
                     \cup DOMAIN a \cup DOMAIN b \cup DOMAIN c
  BY <1>2, <1>5, <1>6, <1>7, <1>9
<1> QED
  BY <1>5, <1>6, <1>11, <1>13, <1>14, <1>15, <1>16 DEF a, b, c, s

\* No file action lands.
LEMMA FileLands ==
  ASSUME NEW p, NEW w, IsFileAction(p)
  PROVE  Signals(p, w)["landing_action"] = FALSE
<1> DEFINE d == [delegation_provenance |-> IF p.named THEN "partial" ELSE "unknown"]
           m == (FileRiskSignals(p) ++ ReadBeforeWriteSignals(p, w))
                  ++ RelatedContextSignals(p, w)
           e == [landing_action |-> FALSE, landing_risk |-> "low"]
<1>1. Signals(p, w) = d ++ (m ++ e)
  BY DEF Signals, FileSignals
<1>2. "landing_action" \notin DOMAIN m
  <2>1. DOMAIN m = (DOMAIN FileRiskSignals(p) \cup DOMAIN ReadBeforeWriteSignals(p, w))
                     \cup DOMAIN RelatedContextSignals(p, w)
    BY DEF ++
  <2> HIDE DEF m
  <2> QED
    BY <2>1, FileRiskDomain, FreshnessDomain, ContextDomain
    DEF FileRiskNames, SeverityNames, FreshnessNames, ReadNames, ContextNames
<1>3. "landing_action" \notin DOMAIN d /\ "landing_action" \in DOMAIN e
  OBVIOUS
<1>4. e["landing_action"] = FALSE
  OBVIOUS
<1> HIDE DEF d, m, e
<1>5. "landing_action" \in DOMAIN (m ++ e) /\ (m ++ e)["landing_action"] = FALSE
  BY <1>2, <1>3, <1>4 DEF ++
<1> QED
  BY <1>1, <1>3, <1>5 DEF ++

\* What they report is what they find.
LEMMA FileRiskValues ==
  ASSUME NEW p
  PROVE  LET a == FileRiskSignals(p) IN
         /\ a["action_type"] = p.type
         /\ a["target_path"] = p.target
         /\ a["mutates_filesystem"] \in Yes
         /\ a["destructive_operation"] \in Yes <=> IsDestructive(p)
         /\ a["workspace_boundary_violation"] \in Yes <=> p.outside \in Yes
         /\ a["path_sensitivity"] = PathSensitivity(p)
         /\ a["secret_touch"] = SecretTouch(p)
<1> DEFINE always == [action_type |-> p.type, target_path |-> p.target,
                      mutates_filesystem |-> TRUE,
                      destructive_operation |-> IsDestructive(p),
                      workspace_boundary_violation |-> p.outside,
                      workspace_boundary_status |->
                        IF p.outside THEN "outside" ELSE "inside",
                      path_sensitivity |-> PathSensitivity(p),
                      secret_touch |-> SecretTouch(p),
                      secret_path_match |-> IsSecretPath(p),
                      secret_pattern_match |-> p.secret = "content"]
           sometimes == When(IsDestructive(p),
                             [destructive_score |-> DestructiveScore(p),
                              destructive_severity |->
                                IF p.type # "delete_file" THEN p.destructive ELSE "high"])
<1>1. /\ DOMAIN always = FileRiskNames
      /\ always["action_type"] = p.type
      /\ always["target_path"] = p.target
      /\ always["path_sensitivity"] = PathSensitivity(p)
      /\ always["secret_touch"] = SecretTouch(p)
  BY DEF FileRiskNames
<1>2. always["mutates_filesystem"] = TRUE
  OBVIOUS
<1>3. always["destructive_operation"] = IsDestructive(p)
  OBVIOUS
<1>4. always["workspace_boundary_violation"] = p.outside
  OBVIOUS
<1>5. FileRiskSignals(p) = always ++ sometimes
  BY DEF FileRiskSignals
<1> HIDE DEF always, sometimes
<1>6. \A x \in FileRiskNames : FileRiskSignals(p)[x] = always[x]
  <2>1. \A x \in DOMAIN always : (always ++ sometimes)[x] = always[x]
    BY JoinFacts
  <2> QED
    BY <1>1, <1>5, <2>1
<1>7. FileRiskSignals(p)["mutates_filesystem"] \in Yes
  BY <1>2, <1>6 DEF Yes, FileRiskNames
<1>8. FileRiskSignals(p)["destructive_operation"] \in Yes <=> IsDestructive(p)
  <2>1. FileRiskSignals(p)["destructive_operation"] = IsDestructive(p)
    BY <1>3, <1>6 DEF FileRiskNames
  <2> QED
    BY <2>1 DEF Yes, IsDestructive
<1>9. FileRiskSignals(p)["workspace_boundary_violation"] \in Yes <=> p.outside \in Yes
  BY <1>4, <1>6 DEF Yes, FileRiskNames
<1> QED
  BY <1>1, <1>6, <1>7, <1>8, <1>9 DEF FileRiskNames

LEMMA ReadBeforeWriteFacts ==
  ASSUME NEW p, NEW w
  PROVE  LET b == ReadBeforeWriteSignals(p, w) IN
         /\ "target_file_freshness" \in DOMAIN b
         /\ b["target_file_freshness"] =
              IF IsSecretPath(p) THEN "unknown"
              ELSE Freshness(w.obs[p.target], w.disk[p.target])
         /\ "context_completeness_score" \notin DOMAIN b
<1> DEFINE freshness == IF IsSecretPath(p) THEN "unknown"
                        ELSE Freshness(w.obs[p.target], w.disk[p.target])
           hashed == ~IsSecretPath(p) /\ w.obs[p.target] \notin {"never", "missing", "metadata"}
           always == [target_file_freshness |-> freshness,
                      target_file_read_recently |-> freshness = "fresh",
                      metadata_only |-> ~IsSecretPath(p) /\ w.obs[p.target] = "metadata"]
           changed == When(freshness = "stale"
                             \/ (freshness = "missing" /\ w.obs[p.target] # "missing"),
                           [file_changed_since_read |-> TRUE])
           same == When(freshness = "fresh", [file_changed_since_read |-> FALSE])
           lastHash == When(hashed, [last_read_hash |-> w.obs[p.target]])
<1>1. /\ "target_file_freshness" \in DOMAIN always
      /\ always["target_file_freshness"] = freshness
      /\ "context_completeness_score" \notin DOMAIN always
  OBVIOUS
<1>2. /\ "context_completeness_score" \notin DOMAIN changed
      /\ "context_completeness_score" \notin DOMAIN same
      /\ "context_completeness_score" \notin DOMAIN lastHash
  BY DEF When
<1>3. ReadBeforeWriteSignals(p, w) = ((always ++ changed) ++ same) ++ lastHash
  BY DEF ReadBeforeWriteSignals
<1> HIDE DEF always, changed, same, lastHash
<1>4. /\ "target_file_freshness" \in DOMAIN (always ++ changed)
      /\ (always ++ changed)["target_file_freshness"] = freshness
      /\ "context_completeness_score" \notin DOMAIN (always ++ changed)
  BY <1>1, <1>2 DEF ++
<1>5. /\ "target_file_freshness" \in DOMAIN ((always ++ changed) ++ same)
      /\ ((always ++ changed) ++ same)["target_file_freshness"] = freshness
      /\ "context_completeness_score" \notin DOMAIN ((always ++ changed) ++ same)
  BY <1>2, <1>4 DEF ++
<1> QED
  BY <1>2, <1>3, <1>5 DEF ++

LEMMA RelatedContextFacts ==
  ASSUME NEW p, NEW w, p.type # "delete_file"
  PROVE  LET c == RelatedContextSignals(p, w) IN
         /\ "context_completeness_score" \in DOMAIN c
         /\ c["context_completeness_score"] =
              IF ExistingTests(p, w) # {} /\ ~(\E t \in ExistingTests(p, w) : IsFresh(t, w))
              THEN 50 ELSE 100
  BY DEF RelatedContextSignals

\* Related tests exist and none of them has been read as it is.
LacksTests(p, w) ==
  /\ p.type # "delete_file" /\ ExistingTests(p, w) # {}
  /\ ~(\E t \in ExistingTests(p, w) : IsFresh(t, w))

\* How fresh the target is: of a secret path nobody looks.
TargetFreshness(p, w) ==
  IF IsSecretPath(p) THEN "unknown" ELSE Freshness(w.obs[p.target], w.disk[p.target])

\* Each detector's part of the signals comes through unchanged.
LEMMA FileValues ==
  ASSUME NEW p, NEW w, IsFileAction(p)
  PROVE  LET s == Signals(p, w) IN
         /\ DOMAIN s \subseteq FileNames
         /\ FileRiskNames \cup ReadNames \cup {"landing_risk"} \subseteq DOMAIN s
         /\ DOMAIN s \cap ContextNames = IF p.type = "delete_file" THEN {} ELSE ContextNames
         /\ s["landing_risk"] = "low"
         /\ \A x \in FileRiskNames : s[x] = FileRiskSignals(p)[x]
         /\ \A x \in ReadNames : s[x] = ReadBeforeWriteSignals(p, w)[x]
         /\ p.type # "delete_file" =>
              \A x \in ContextNames : s[x] = RelatedContextSignals(p, w)[x]
<1> DEFINE s == Signals(p, w)
           a == FileRiskSignals(p)
           b == ReadBeforeWriteSignals(p, w)
           c == RelatedContextSignals(p, w)
<1>1. /\ FileRiskNames \subseteq DOMAIN a
      /\ DOMAIN a \subseteq FileRiskNames \cup SeverityNames
      /\ ReadNames \subseteq DOMAIN b
      /\ DOMAIN b \subseteq FreshnessNames
  BY FileRiskDomain, FreshnessDomain
<1>2. DOMAIN c = IF p.type = "delete_file" THEN {} ELSE ContextNames
  BY ContextDomain
<1>3. ContextNames \cap ({"delegation_provenance", "landing_action", "landing_risk"}
                            \cup FileRiskNames \cup SeverityNames \cup FreshnessNames) = {}
  BY DEF FileRiskNames, SeverityNames, FreshnessNames, ReadNames, ContextNames
<1>4. /\ DOMAIN s = {"delegation_provenance", "landing_action", "landing_risk"}
                      \cup DOMAIN a \cup DOMAIN b \cup DOMAIN c
      /\ DOMAIN s \subseteq FileNames
      /\ \A x \in DOMAIN a : s[x] = a[x]
      /\ \A x \in DOMAIN b : s[x] = b[x]
      /\ \A x \in DOMAIN c : s[x] = c[x]
      /\ s["landing_risk"] = "low"
  BY FileParts
<1> HIDE DEF s, a, b, c
<1>5. FileRiskNames \cup ReadNames \cup {"landing_risk"} \subseteq DOMAIN s
  BY <1>1, <1>4
<1>6. DOMAIN s \cap ContextNames = IF p.type = "delete_file" THEN {} ELSE ContextNames
  BY <1>1, <1>2, <1>3, <1>4
<1>7. /\ \A x \in FileRiskNames : s[x] = a[x]
      /\ \A x \in ReadNames : s[x] = b[x]
      /\ p.type # "delete_file" => \A x \in ContextNames : s[x] = c[x]
  BY <1>1, <1>2, <1>4
<1> QED
  BY <1>4, <1>5, <1>6, <1>7 DEF s, a, b, c

\* The rules a file action can match, and when it matches each of them.
LEMMA FileMatches ==
  ASSUME NEW p, NEW w, IsFileAction(p)
  PROVE  LET M == MatchedRules(DefaultRules, Signals(p, w)) IN
         /\ M \subseteq {1, 2, 5, 6, 7, 13}
         /\ 1 \in M <=> TargetFreshness(p, w) # "fresh"
         /\ 2 \in M <=> p.outside \in Yes
         /\ 5 \in M <=> IsDestructive(p)
         /\ 6 \in M <=> PathSensitivity(p) \in {"high", "critical"}
         /\ 7 \in M <=> SecretTouch(p) = "probable"
         /\ 13 \in M <=> LacksTests(p, w)
<1> DEFINE s == Signals(p, w)
           M == MatchedRules(DefaultRules, s)
<1>1. /\ DOMAIN s \subseteq FileNames
      /\ FileRiskNames \cup {"target_file_freshness", "landing_risk"} \subseteq DOMAIN s
      /\ s["landing_risk"] = "low"
      /\ "context_completeness_score" \in DOMAIN s <=> p.type # "delete_file"
      /\ \A x \in FileRiskNames : s[x] = FileRiskSignals(p)[x]
      /\ s["target_file_freshness"] = ReadBeforeWriteSignals(p, w)["target_file_freshness"]
      /\ p.type # "delete_file" =>
           s["context_completeness_score"] =
             RelatedContextSignals(p, w)["context_completeness_score"]
  BY FileValues DEF ContextNames, ReadNames
<1>2. /\ s["action_type"] \in MutatingTypes
      /\ s["target_file_freshness"] = TargetFreshness(p, w)
      /\ TargetFreshness(p, w) \in {"fresh", "stale", "unknown", "missing"}
      /\ s["mutates_filesystem"] \in Yes
      /\ s["destructive_operation"] \in Yes <=> IsDestructive(p)
      /\ s["workspace_boundary_violation"] \in Yes <=> p.outside \in Yes
      /\ s["path_sensitivity"] = PathSensitivity(p)
      /\ s["secret_touch"] = SecretTouch(p)
  BY <1>1, FileRiskValues, ReadBeforeWriteFacts
  DEF FileRiskNames, TargetFreshness, Freshness, IsFileAction, MutatingTypes
<1>3. p.type # "delete_file" =>
        s["context_completeness_score"] = IF LacksTests(p, w) THEN 50 ELSE 100
  BY <1>1, RelatedContextFacts DEF LacksTests
<1>4. SecretTouch(p) \in {"probable", "possible", "none"}
  BY DEF SecretTouch
<1>5. LacksTests(p, w) => p.type # "delete_file"
  BY DEF LacksTests
<1> HIDE DEF s
<1>6. /\ 1 \in M <=> TargetFreshness(p, w) # "fresh"
      /\ 2 \in M <=> p.outside \in Yes
      /\ 5 \in M <=> IsDestructive(p)
      /\ 6 \in M <=> PathSensitivity(p) \in {"high", "critical"}
      /\ 7 \in M <=> SecretTouch(p) = "probable"
  BY <1>1, <1>2, <1>4, DefaultMatches DEF Meets, FileRiskNames
<1>7. 13 \in M <=> LacksTests(p, w)
  BY <1>1, <1>3, <1>5, DefaultMatches DEF Meets
<1>8. M \cap {3, 4, 9, 10, 11, 12, 14, 15, 16, 17, 18, 22} = {}
  BY <1>1, DefaultMatches
  DEF Meets, FileNames, FileRiskNames, SeverityNames, FreshnessNames, ReadNames,
      ContextNames
<1>9. 8 \notin M
  BY <1>2, DefaultMatches DEF Meets, MutatingTypes
<1>10. M \cap {19, 20, 21} = {}
  BY <1>1, DefaultMatches DEF Meets
<1>11. M \subseteq 1..22
  BY DefaultMatches
<1> HIDE DEF M
<1>12. M \subseteq {1, 2, 5, 6, 7, 13}
  BY <1>8, <1>9, <1>10, <1>11
<1> QED
  BY <1>6, <1>7, <1>12 DEF M, s

\* What the 22 default rules come to on a file action: leaving the workspace and secrets
\* block; then a target not read as it is and related tests of which none was read are
\* waited for; then deletions, other destructive changes and sensitive paths go to a
\* human; the rest proceeds.
THEOREM FileVerdict ==
  ASSUME NEW p, NEW w, IsFileAction(p)
  PROVE  DecisionOf(DefaultRules, Signals(p, w)) =
           IF p.outside \in Yes \/ SecretTouch(p) = "probable" THEN "BLOCK"
           ELSE IF TargetFreshness(p, w) # "fresh" \/ LacksTests(p, w) THEN "DEFER"
           ELSE IF IsDestructive(p) \/ PathSensitivity(p) \in {"high", "critical"}
                THEN "ESCALATE"
           ELSE "PROCEED"
<1> DEFINE M == MatchedRules(DefaultRules, Signals(p, w))
<1>1. /\ M \cap BlockRules # {} <=> p.outside \in Yes \/ SecretTouch(p) = "probable"
      /\ M \cap EvidenceRules # {}
           <=> TargetFreshness(p, w) # "fresh" \/ LacksTests(p, w)
      /\ M \cap EscalationRules # {}
           <=> IsDestructive(p) \/ PathSensitivity(p) \in {"high", "critical"}
      /\ M \cap PauseRules = {}
  <2>1. /\ M \cap BlockRules = M \cap {2, 7} /\ M \cap EvidenceRules = M \cap {1, 13}
        /\ M \cap EscalationRules = M \cap {5, 6} /\ M \cap PauseRules = {}
    BY FileMatches DEF BlockRules, EvidenceRules, EscalationRules, PauseRules
  <2> QED
    BY <2>1, FileMatches
<1> QED
  BY <1>1, DefaultVerdict

-----------------------------------------------------------------------------
(* The signals of a command *)

\* The signals a command may have.
BaseNames ==
  {"delegation_provenance", "action_type", "path_sensitivity", "secret_touch",
   "workspace_boundary_status"}
GitNames ==
  {"force_push", "hook_bypass", "branch_risk", "direct_mainline_commit",
   "direct_mainline_push", "protected_branch", "is_dirty_worktree"}
ValidationNames == {"validation_required", "validation_scope", "validation_status"}
CommandRiskNames ==
  {"command_risk_score", "destructive_operation", "pipe_to_shell", "uses_sudo",
   "network_exposure", "mutates_filesystem", "destructive_severity", "command_category"}
LandingGateNames ==
  {"landing_action", "landing_risk", "landing_action_type", "requires_validation",
   "deployment_risk", "environment_classification", "release_risk"}

\* What each detector reports, and nothing else.
LEMMA CommandDomains ==
  ASSUME NEW p, NEW w
  PROVE  /\ DOMAIN GitWorkflowSignals(p, w) \subseteq GitNames
         /\ DOMAIN ValidationGateSignals(p, w) \subseteq ValidationNames
         /\ DOMAIN CommandRiskSignals(p) \subseteq CommandRiskNames
         /\ DOMAIN LandingGateSignals(p, w) \subseteq LandingGateNames
<1>1. DOMAIN GitWorkflowSignals(p, w) \subseteq GitNames
  BY DEF GitWorkflowSignals, When, ++, GitNames
<1>2. DOMAIN ValidationGateSignals(p, w) \subseteq ValidationNames
  BY DEF ValidationGateSignals, When, ++, ValidationNames
<1>3. DOMAIN CommandRiskSignals(p) \subseteq CommandRiskNames
  BY DEF CommandRiskSignals, When, ++, CommandRiskNames
<1>4. DOMAIN LandingGateSignals(p, w) \subseteq LandingGateNames
  BY DEF LandingGateSignals, When, ++, LandingGateNames
<1> QED
  BY <1>1, <1>2, <1>3, <1>4

\* The names each detector owns are reported as it says.
LEMMA CommandParts ==
  ASSUME NEW p, NEW w, ~IsFileAction(p)
  PROVE  LET s == Signals(p, w)
             owns(names, part) ==
               \A x \in names : /\ x \in DOMAIN s <=> x \in DOMAIN part
                                /\ x \in DOMAIN part => s[x] = part[x]
         IN /\ DOMAIN s \subseteq BaseNames \cup GitNames \cup ValidationNames
                                    \cup CommandRiskNames \cup LandingGateNames
            /\ owns(GitNames, GitWorkflowSignals(p, w))
            /\ owns(ValidationNames, ValidationGateSignals(p, w))
            /\ owns(CommandRiskNames, CommandRiskSignals(p))
            /\ owns(LandingGateNames, LandingGateSignals(p, w))
<1> DEFINE d == [delegation_provenance |-> IF p.named THEN "partial" ELSE "unknown"]
           r == [action_type |-> p.type, path_sensitivity |-> "unknown",
                 secret_touch |-> "none", workspace_boundary_status |-> "not_applicable"]
           g == GitWorkflowSignals(p, w)
           v == ValidationGateSignals(p, w)
           c == CommandRiskSignals(p)
           l == LandingGateSignals(p, w)
           k == r ++ g
           m == k ++ v
           n == m ++ c
           t == n ++ l
           s == Signals(p, w)
<1>1. s = d ++ t
  BY DEF Signals, CommandSignals
<1>2. DOMAIN d \subseteq BaseNames /\ DOMAIN r \subseteq BaseNames
  BY DEF BaseNames
<1>3. /\ DOMAIN g \subseteq GitNames /\ DOMAIN v \subseteq ValidationNames
      /\ DOMAIN c \subseteq CommandRiskNames /\ DOMAIN l \subseteq LandingGateNames
  BY CommandDomains
<1>4. /\ BaseNames \cap GitNames = {} /\ BaseNames \cap ValidationNames = {}
      /\ BaseNames \cap CommandRiskNames = {} /\ BaseNames \cap LandingGateNames = {}
      /\ GitNames \cap ValidationNames = {} /\ GitNames \cap CommandRiskNames = {}
      /\ GitNames \cap LandingGateNames = {} /\ ValidationNames \cap CommandRiskNames = {}
      /\ ValidationNames \cap LandingGateNames = {}
      /\ CommandRiskNames \cap LandingGateNames = {}
  BY DEF BaseNames, GitNames, ValidationNames, CommandRiskNames, LandingGateNames
<1> HIDE DEF d, r, g, v, c, l, s
<1>5. /\ DOMAIN k = DOMAIN r \cup DOMAIN g
      /\ \A x \in DOMAIN g \ DOMAIN r : k[x] = g[x]
  BY JoinFacts
<1> HIDE DEF k
<1>6. /\ DOMAIN m = DOMAIN k \cup DOMAIN v
      /\ \A x \in DOMAIN k : m[x] = k[x]
      /\ \A x \in DOMAIN v \ DOMAIN k : m[x] = v[x]
  BY JoinFacts
<1> HIDE DEF m
<1>7. /\ DOMAIN n = DOMAIN m \cup DOMAIN c
      /\ \A x \in DOMAIN m : n[x] = m[x]
      /\ \A x \in DOMAIN c \ DOMAIN m : n[x] = c[x]
  BY JoinFacts
<1> HIDE DEF n
<1>8. /\ DOMAIN t = DOMAIN n \cup DOMAIN l
      /\ \A x \in DOMAIN n : t[x] = n[x]
      /\ \A x \in DOMAIN l \ DOMAIN n : t[x] = l[x]
  BY JoinFacts
<1> HIDE DEF t
<1>9. /\ DOMAIN (d ++ t) = DOMAIN d \cup DOMAIN t
      /\ \A x \in DOMAIN t \ DOMAIN d : (d ++ t)[x] = t[x]
  BY JoinFacts
<1>10. /\ DOMAIN s = DOMAIN d \cup DOMAIN t
       /\ \A x \in DOMAIN t \ DOMAIN d : s[x] = t[x]
  BY <1>1, <1>9
<1>11. DOMAIN s = DOMAIN d \cup DOMAIN r \cup DOMAIN g \cup DOMAIN v \cup DOMAIN c \cup DOMAIN l
  BY <1>5, <1>6, <1>7, <1>8, <1>10
<1>12. \A x \in GitNames : /\ x \in DOMAIN s <=> x \in DOMAIN g
                           /\ x \in DOMAIN g => s[x] = g[x]
  BY <1>2, <1>3, <1>4, <1>5, <1>6, <1>7, <1>8, <1>10, <1>11
<1>13. \A x \in ValidationNames : /\ x \in DOMAIN s <=> x \in DOMAIN v
                                  /\ x \in DOMAIN v => s[x] = v[x]
  BY <1>2, <1>3, <1>4, <1>5, <1>6, <1>7, <1>8, <1>10, <1>11
<1>14. \A x \in CommandRiskNames : /\ x \in DOMAIN s <=> x \in DOMAIN c
                                   /\ x \in DOMAIN c => s[x] = c[x]
  BY <1>2, <1>3, <1>4, <1>5, <1>6, <1>7, <1>8, <1>10, <1>11
<1>15. \A x \in LandingGateNames : /\ x \in DOMAIN s <=> x \in DOMAIN l
                                   /\ x \in DOMAIN l => s[x] = l[x]
  BY <1>2, <1>3, <1>4, <1>5, <1>6, <1>7, <1>8, <1>10, <1>11
<1>16. DOMAIN s \subseteq BaseNames \cup GitNames \cup ValidationNames
                            \cup CommandRiskNames \cup LandingGateNames
  BY <1>2, <1>3, <1>11
<1> QED
  BY <1>12, <1>13, <1>14, <1>15, <1>16 DEF g, v, c, l, s

\* What the validation detector reports is what it finds.
LEMMA ValidationGateValues ==
  ASSUME NEW p, NEW w
  PROVE  LET v == ValidationGateSignals(p, w) IN
         /\ ValidationScope(p) \in {"before_commit", "before_push"} =>
              /\ ValidationNames \subseteq DOMAIN v
              /\ v["validation_required"] \in Yes
         /\ "validation_scope" \in DOMAIN v => v["validation_scope"] = ValidationScope(p)
         /\ "validation_status" \in DOMAIN v
              => v["validation_status"] = ValidationStatus(p, w)
<1> DEFINE what  == [validation_scope |-> ValidationScope(p),
                     validation_status |-> ValidationStatus(p, w)]
           reported == When(ValidationScope(p) # "none", what)
           needed == When(ValidationScope(p) \notin {"none", "unknown"},
                          [validation_required |-> TRUE])
<1>1. ValidationGateSignals(p, w) = reported ++ needed
  BY DEF ValidationGateSignals
<1>2. /\ DOMAIN reported \subseteq {"validation_scope", "validation_status"}
      /\ DOMAIN needed \subseteq {"validation_required"}
      /\ "validation_scope" \in DOMAIN reported
           => reported["validation_scope"] = ValidationScope(p)
      /\ "validation_status" \in DOMAIN reported
           => reported["validation_status"] = ValidationStatus(p, w)
  BY DEF When
<1>3. ValidationScope(p) \in {"before_commit", "before_push"} =>
        /\ DOMAIN reported = {"validation_scope", "validation_status"}
        /\ DOMAIN needed = {"validation_required"}
        /\ needed["validation_required"] = TRUE
  BY DEF When
<1> HIDE DEF reported, needed
<1>4. /\ DOMAIN (reported ++ needed) = DOMAIN reported \cup DOMAIN needed
      /\ \A x \in DOMAIN reported : (reported ++ needed)[x] = reported[x]
      /\ \A x \in DOMAIN needed \ DOMAIN reported : (reported ++ needed)[x] = needed[x]
  BY JoinFacts
<1>5. ValidationScope(p) \in {"before_commit", "before_push"} =>
        /\ ValidationNames \subseteq DOMAIN (reported ++ needed)
        /\ (reported ++ needed)["validation_required"] = needed["validation_required"]
  BY <1>2, <1>3, <1>4 DEF ValidationNames
<1>6. ValidationScope(p) \in {"before_commit", "before_push"} =>
        (reported ++ needed)["validation_required"] \in Yes
  BY <1>3, <1>5 DEF Yes
<1> QED
  BY <1>1, <1>2, <1>4, <1>5, <1>6

\* What the landing detector reports is what it finds.
LEMMA LandingRiskReported ==
  ASSUME NEW p, NEW w
  PROVE  /\ "landing_risk" \in DOMAIN LandingGateSignals(p, w)
         /\ LandingGateSignals(p, w)["landing_risk"] = LandingRisk(p, w)
  BY DEF LandingGateSignals, When, ++

-----------------------------------------------------------------------------
(* Evidence that lacks is asked for *)

LEMMA TargetIsAskedFor ==
  ASSUME NEW p, NEW w, IsFileAction(p),
         IsSecretPath(p) \/ w.obs[p.target] # w.disk[p.target]
  PROVE  DecisionOf(DefaultRules, Signals(p, w)) \in {"DEFER", "BLOCK"}
<1>1. TargetFreshness(p, w) # "fresh"
  BY DEF TargetFreshness, Freshness
<1> QED
  BY <1>1, FileVerdict

LEMMA TestsAreAskedFor ==
  ASSUME NEW p, NEW w, IsFileAction(p), p.type # "delete_file",
         ExistingTests(p, w) # {},
         \A t \in ExistingTests(p, w) : ~IsFresh(t, w)
  PROVE  DecisionOf(DefaultRules, Signals(p, w)) \in {"DEFER", "BLOCK"}
<1>1. LacksTests(p, w)
  BY DEF LacksTests
<1> QED
  BY <1>1, FileVerdict

LEMMA StatusOfLacking ==
  ASSUME NEW results \in [Commands -> CommandStatuses], NEW needed \in SUBSET Commands,
         NEW c \in needed, results[c] # "passed"
  PROVE  StrongestStatus(results, needed) \in {"failed", "not_run", "stale"}
  BY DEF StrongestStatus, CommandStatuses

LEMMA ValidationIsAskedFor ==
  ASSUME NEW p, NEW w, ~IsFileAction(p),
         w.results \in [Commands -> CommandStatuses],
         NEW c \in RequiredFor(p), w.results[c] # "passed"
  PROVE  DecisionOf(DefaultRules, Signals(p, w)) \in {"DEFER", "BLOCK"}
<1> DEFINE s == Signals(p, w)
           M == MatchedRules(DefaultRules, s)
<1>1. ValidationScope(p) \in {"before_commit", "before_push"}
  BY DEF RequiredFor, RequiredCommands
<1>2. RequiredFor(p) \subseteq Commands
  BY <1>1 DEF RequiredFor, RequiredCommands, Commands
<1>3. ValidationStatus(p, w) \in {"failed", "not_run", "stale"}
  BY <1>1, <1>2, StatusOfLacking DEF ValidationStatus, RequiredFor
<1>4. /\ Meets(s, "validation_required", Yes)
      /\ Meets(s, "validation_scope", {ValidationScope(p)})
      /\ Meets(s, "validation_status", {ValidationStatus(p, w)})
  BY <1>1, CommandParts, ValidationGateValues DEF Meets, ValidationNames
<1> HIDE DEF s
<1>5. CASE ValidationStatus(p, w) = "failed"
  <2>1. M \cap {11, 12} # {}
    BY <1>1, <1>4, <1>5, DefaultMatches
  <2> QED
    BY <2>1, DefaultVerdict DEF s, BlockRules
<1>6. CASE ValidationStatus(p, w) \in NotRunOrStale
  <2>1. Meets(s, "validation_status", NotRunOrStale)
    BY <1>4, <1>6 DEF Meets
  <2>2. M \cap {9, 10} # {}
    BY <1>1, <1>4, <2>1, DefaultMatches
  <2> QED
    BY <2>2, DefaultVerdict DEF s, EvidenceRules
<1> QED
  BY <1>3, <1>5, <1>6 DEF NotRunOrStale

-----------------------------------------------------------------------------
(* Worlds *)

\* A world of which nothing is known yet is one.
LEMMA FreshIsWorld == \A p : FreshWorlds(p) \subseteq World
<1>1. NoRepo \in Repos
  BY DEF Repos
<1> QED
  BY <1>1 DEF FreshWorlds, World, CommandStatuses

\* What happens to a world leaves it one.
LEMMA ReadingKeepsWorld ==
  ASSUME NEW w \in World, NEW f \in Files, NEW mode
  PROVE  AfterReading(w, f, mode) \in World
<1>1. ObservationOf(mode, w.disk[f]) \in Contents \cup {"never", "missing", "metadata"}
  BY DEF ObservationOf, World
<1>2. [w.obs EXCEPT ![f] = ObservationOf(mode, w.disk[f])]
        \in [Files -> Contents \cup {"never", "missing", "metadata"}]
  BY <1>1 DEF World
<1> QED
  BY <1>2 DEF AfterReading, World

LEMMA ResultKeepsWorld ==
  ASSUME NEW w \in World, NEW c, NEW status \in CommandStatuses
  PROVE  AfterResult(w, c, status) \in World
<1>1. [w.results EXCEPT ![c] = status] \in [Commands -> CommandStatuses]
  BY DEF World
<1> QED
  BY <1>1 DEF AfterResult, World

LEMMA DriftKeepsWorld ==
  ASSUME NEW p, NEW w \in World
  PROVE  Drifts(p, w) \subseteq World
<1>1. ASSUME NEW f, NEW d \in Contents \cup {"absent"}
      PROVE  [w EXCEPT !.disk[f] = d] \in World
  <2>1. [w.disk EXCEPT ![f] = d] \in [Files -> Contents \cup {"absent"}]
    BY DEF World
  <2> QED
    BY <2>1 DEF World
<1>2. ASSUME NEW r \in Repos PROVE [w EXCEPT !.repo = r] \in World
  BY DEF World
<1>3. ASSUME NEW c PROVE AfterResult(w, c, "stale") \in World
  BY ResultKeepsWorld DEF CommandStatuses
<1>4. CASE IsFileAction(p)
  BY <1>1, <1>4 DEF Drifts
<1>5. CASE ~IsFileAction(p)
  BY <1>2, <1>3, <1>5 DEF Drifts
<1> QED
  BY <1>4, <1>5
=============================================================================
