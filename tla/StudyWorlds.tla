-------------------------------- MODULE StudyWorlds --------------------------------
(* The worlds the offline study's algorithms are checked on.  An algorithm is an     *)
(* operator of the modules below; a world is an input of it, grown step by step so   *)
(* that a property can also compare a world with what it becomes:                    *)
(*   "prefix"   an archived run, grown by a turn of the agent or by a label          *)
(*   "rows"     scored decision rows, grown by a row                                 *)
(*   "timing"   the calibration trajectories of a seed, grown by a row; the train    *)
(*              and the test trajectories are given                                  *)
(*   "claims"   the reports a claim checker reads, grown by a line                   *)
EXTENDS RiskStudy, Splits, OracleGap, OptionStudies, ClaimChecks, Prefixes, PolicyGates

CONSTANTS
  Parts,                 \* the kinds of world
  Layouts,               \* the archive layouts
  MaxTurns, MaxLabels,   \* turns and labels of a run
  MaxStudyRows,          \* decision rows
  RowScores,             \* the scores of a decision row
  MaxTrajectories,       \* trajectories of a calibration split
  MaxTimedRows,          \* their rows, over all trajectories
  TimedScores,           \* the scores of these rows
  Trains, Tests,         \* the train and the test splits, score sequence and bad rows
  MaxLines               \* lines added to the reports

ASSUME WorldsAssumption ==
  /\ {MaxTurns, MaxLabels, MaxStudyRows, MaxTrajectories, MaxTimedRows, MaxLines} \subseteq Nat
  /\ MaxRows > 0 /\ RowScores \subseteq Nat \X (Nat \ {0})
  /\ Layouts \subseteq {"terminus_episode", "mini_swe_mini_traj", "swe_agent_traj",
                       "openhands_events", "openhands_tensorblock"}

VARIABLES part, run, rows, roles, corpus

vars == <<part, run, rows, roles, corpus>>

(***********************************************************************************)
(* An archived run                                                                  *)
(***********************************************************************************)
Text(name) == [hash |-> name, marks |-> {}]
Member(kind, number, text, body) ==
  [path |-> <<"run", kind>>, kind |-> kind, number |-> number, text |-> text, body |-> body,
   textual |-> TRUE, body_ids |-> {}]
NoBody == << >>

(* What a run with nothing in it looks like. *)
EmptyRun(layout, declared) ==
  [layout |-> layout, turns |-> 0,
   sample |-> [traj_id |-> "t", step_count |-> declared, incorrect_stages |-> << >>,
               source_bucket |-> IF layout = "terminus_episode" THEN "terminalbench_like" ELSE "swe_like",
               stages |-> <<[id |-> 1, start |-> 1, end |-> 1], [id |-> 2, start |-> 2, end |-> MaxTurns]>>],
   members |-> << >>]

(* Turn n of the agent as each layout keeps it; a torn turn has lost its action or   *)
(* cannot be parsed.                                                                *)
TurnOf(r, text, torn) ==
  LET n == r.turns + 1
      Appended(pairs) == LET old == IF r.members = << >> THEN << >> ELSE r.members[1].body
                         IN <<Member(r.layout, 0, NoText, old \o pairs)>>
      history == [k \in 1..(2 * n - 1) |->
                    [role |-> IF k % 2 = 1 THEN "user" ELSE "assistant", text |-> Text("x")]]
      block == [ok |-> ~torn, messages |-> history]
  IN CASE r.layout = "terminus_episode" ->
            r.members \o <<Member("prompt", n - 1, Text("prompt"), NoBody)>>
              \o (IF torn THEN << >> ELSE <<Member("response", n - 1, text, NoBody)>>)
       [] r.layout = "mini_swe_mini_traj" ->
            Appended((IF torn THEN << >> ELSE <<[role |-> "assistant", text |-> text]>>)
                       \o <<[role |-> "user", text |-> Text("answer")]>>)
       [] r.layout = "swe_agent_traj" -> Appended(<<<<text, IF torn THEN NoText ELSE Text("answer")>>>>)
       [] r.layout = "openhands_events" ->
            r.members \o <<Member(r.layout, 2 * n - 1, text, [ok |-> ~torn, agent_action |-> TRUE, observes |-> -1]),
                           Member(r.layout, 2 * n, Text("answer"),
                                  [ok |-> TRUE, agent_action |-> FALSE, observes |-> 2 * n - 1])>>
       [] r.layout = "openhands_tensorblock" ->
            Append(r.members, Member(r.layout, n, text, block))

Turn ==
  /\ part = "prefix" /\ run.turns < MaxTurns
  /\ \E name \in {"x", "y"}, torn \in BOOLEAN :
        run' = [run EXCEPT !.turns = @ + 1, !.members = TurnOf(run, Text(name), torn)]
  /\ UNCHANGED <<part, rows, roles, corpus>>

(* The manifest's label of a step: by the stage's list of ids, or by an entry of the *)
(* stage, which may name a file the archive does not have.                          *)
LabelledStage(step, kind) ==
  LET Entry(labels, ref) == [step_id |-> step, labels |-> labels, action_ref |-> ref, observation_ref |-> << >>]
  IN [incorrect_step_ids |-> IF kind = "incorrect" THEN {step} ELSE {}, unuseful_step_ids |-> {},
      steps |-> CASE kind = "incorrect" -> << >>
                  [] kind = "unuseful" -> <<Entry({"unuseful"}, << >>)>>
                  [] kind = "dangling" -> <<Entry({"unuseful"}, <<"other", "file">>)>>]
Label ==
  /\ part = "prefix" /\ Len(run.sample.incorrect_stages) < MaxLabels
  /\ \E step \in 1..MaxTurns, kind \in {"incorrect", "unuseful", "dangling"} :
        /\ \A id \in DOMAIN label_steps_from_sample(run.sample) : id < step
        /\ run' = [run EXCEPT !.sample.incorrect_stages = Append(@, LabelledStage(step, kind))]
  /\ UNCHANGED <<part, rows, roles, corpus>>

Recovery(r) == recover_steps(r.sample, r.members)
Examples(r) == build_prefix_examples(r.sample, Recovery(r).steps)

(***********************************************************************************)
(* Decision rows                                                                    *)
(***********************************************************************************)
DecisionRow(trajectory, step, target, score) ==
  [trajectory |-> trajectory, step |-> step, target |-> target, score |-> score, group |-> "swe",
   length |-> step, stage_steps |-> 1, transitions |-> 0, seen |-> {}, kind |-> "unknown"]

(* Rows come in the order of their scores, which no algorithm minds, and new         *)
(* trajectories in the order of their ids.                                          *)
AddRow ==
  /\ part = "rows" /\ Cardinality(DOMAIN rows) < MaxStudyRows
  /\ LET n == Cardinality(DOMAIN rows)
         known == TrajectoriesOf(rows)
     IN \E t \in known \cup {Cardinality(known) + 1}, target \in {0, 1}, score \in RowScores :
          /\ n > 0 => Leq(rows[n].score, score)
          /\ rows' = [i \in 1..(n + 1) |->
                        IF i <= n THEN rows[i]
                        ELSE DecisionRow(t, 1 + Cardinality(DOMAIN RowsOfTrajectory(rows, t)), target, score)]
  /\ UNCHANGED <<part, run, roles, corpus>>

(***********************************************************************************)
(* Trajectories                                                                     *)
(***********************************************************************************)
(* The generic model of a world scores a row by the opposite of its score.          *)
TimedTrajectory(score, bad) ==
  [score |-> score, bad |-> bad, source |-> "swe", level |-> Zero,
   generic |-> [i \in DOMAIN score |-> Minus(One, score[i])]]
SplitOf(given) == [t \in DOMAIN given |-> TimedTrajectory(given[t].score, given[t].bad)]
TimedRows == MapThenSumSet(LAMBDA t : Len(roles.calibration[t].score), DOMAIN roles.calibration)

WithRow(t, score, is_bad) ==
  LET old == IF t \in DOMAIN roles.calibration THEN roles.calibration[t] ELSE TimedTrajectory(<< >>, {})
  IN TimedTrajectory(Append(old.score, score), old.bad \cup (IF is_bad THEN {Len(old.score) + 1} ELSE {}))

(* The last trajectory goes on, or another one begins; they come in the order of      *)
(* their lengths.                                                                   *)
AddTimedRow ==
  /\ part = "timing" /\ TimedRows < MaxTimedRows
  /\ LET n == Cardinality(DOMAIN roles.calibration)
     IN \E t \in {n, n + 1} \cap 1..MaxTrajectories, score \in TimedScores, is_bad \in BOOLEAN :
          /\ t = n => Len(roles.calibration[n].score) < MaxRows
          /\ t = n /\ n > 1 => Len(roles.calibration[n].score) < Len(roles.calibration[n - 1].score)
          /\ roles' = [roles EXCEPT !.calibration =
                         [u \in DOMAIN @ \cup {t} |-> IF u = t THEN WithRow(t, score, is_bad) ELSE @[u]]]
  /\ UNCHANGED <<part, run, rows, corpus>>

(***********************************************************************************)
(* Reports                                                                          *)
(***********************************************************************************)
(* Lines of one token, and a report that states all a checker may require. *)
FullReport == <<<<Source>>, <<NoCausal, NoConformal, NoProduction>>, <<"prose">>>>
Lines == {<<token>> : token \in Tokens}
LinesAdded == FoldSet(LAMBDA f, n : n + Len(corpus[f]), 0, ReportFiles) - Len(FullReport) * Cardinality(ReportFiles)

AddLine ==
  /\ part = "claims" /\ LinesAdded < MaxLines
  /\ \E f \in ReportFiles, line \in Lines :
        corpus' = [corpus EXCEPT ![f] = Append(@, line)]
  /\ UNCHANGED <<part, run, rows, roles>>

(***********************************************************************************)
Nothing == << >>

Init ==
  /\ part \in Parts
  /\ run \in {EmptyRun(layout, declared) : layout \in IF part = "prefix" THEN Layouts ELSE {"none"},
                                           declared \in IF part = "prefix" THEN {0, MaxTurns} ELSE {0}}
  /\ rows = Nothing
  /\ roles \in IF part = "timing"
               THEN {[train |-> SplitOf(train), calibration |-> Nothing, test |-> SplitOf(test)] :
                       train \in Trains, test \in Tests}
               ELSE {Nothing}
  /\ corpus = IF part = "claims" THEN [f \in ReportFiles |-> FullReport] ELSE Nothing

Next == Turn \/ Label \/ AddRow \/ AddTimedRow \/ AddLine

Spec == Init /\ [][Next]_vars

(***********************************************************************************)
(* Properties: the archived run                                                     *)
(***********************************************************************************)
(* recover_steps counts in malformed all it had to make up, drop or do without.      *)
Clean(r) == Recovery(r).malformed = 0

(* When the manifest declares its steps and recover_steps reports nothing malformed, *)
(* every example's target is the very next step of the run, and bad exactly when the *)
(* manifest labels that step, whatever the layout.                                  *)
CleanTargetsAreNextSteps ==
  part = "prefix" /\ run.sample.step_count > 0 /\ Clean(run) =>
    LET labelled == DOMAIN labels_by_step(run.sample)
    IN \A e \in Range(Examples(run)) :
         /\ e.next_step_index = e.step_index + 1
         /\ e.next_step_bad <=> e.next_step_index \in labelled

(* A step the manifest lists without a file is made up without being counted.        *)
Archived(r) ==
  LET recovered == Recovery(r)
      inferred == DOMAIN inferred_steps(r.sample, r.members).steps
  IN recovered.malformed = 0 /\ \A s \in Range(recovered.steps) : s.step_index \in inferred

(* prefix_features looks at nothing but the prefix: while a run whose steps are all  *)
(* in the archive goes on, or is labelled, the features of the prefixes it had stay. *)
FeaturesIgnoreTheFuture ==
  [][part = "prefix" /\ Archived(run) /\ Archived(run') =>
       LET before == Examples(run)
           after == Examples(run')
       IN \A k \in DOMAIN before :
            k \in DOMAIN after /\ after[k].features = before[k].features]_vars

(***********************************************************************************)
(* Properties: decision rows                                                        *)
(***********************************************************************************)
Alphas == {Zero, <<1, 3>>, <<1, 2>>}
Budgets == {<<1, 10>>, <<1, 3>>, <<1, 2>>, <<3, 4>>}

(* The rows as the scores of a learned baseline and of a fixed policy. *)
Scores == [name \in {"learned", "always_allow"} |-> [role \in {"calibration", "test"} |-> rows]]
SameBut(m, n) == [m EXCEPT !.tau = n.tau] = n

(* Thresholds on the calibration rows keep their word: the selection by running      *)
(* counts makes the decisions of the exhaustive one, which meets its target with as  *)
(* many rows allowed as any threshold could, and a deferral budget is not exceeded   *)
(* whatever the ties.                                                               *)
SelectionsKeepTheirTarget ==
  part = "rows" /\ rows # Nothing =>
    /\ LET strict == run_strict_alpha(Scores, Alphas)
           repeated == run_repeated_strict_alpha(<<Scores>>, Alphas)[1]
       IN \A c \in DOMAIN strict :
            SameBut(repeated[c]["calibration"].metrics, strict[c]["calibration"].metrics)
    /\ \A alpha \in Alphas, conservative \in BOOLEAN :
         LET Bad(tau) == Cardinality(BadAllowed(rows, tau))
             Count(tau) == Cardinality(Allowed(rows, tau))
             chosen == select_threshold(rows, alpha, conservative)
         IN /\ Meets(Bad(chosen.tau), Count(chosen.tau), alpha, conservative)
            /\ \A tau \in UniqueScores(rows) :
                 Count(tau) > Count(chosen.tau) => ~Meets(Bad(tau), Count(tau), alpha, conservative)
    /\ \A budget \in Budgets :
         Cardinality(Deferred(rows, threshold_for_deferral_budget(rows, budget)))
           <= Rounded(Times(<<Cardinality(DOMAIN rows), 1>>, budget))

(* The shuffles of the trajectories, and those of each stratum. *)
Shuffles == SetToSeqs(TrajectoriesOf(rows))
StratumShuffles ==
  LET Of(key) == SetToSeqs(Stratum(Metadata(rows), key))
      strata == Strata(Metadata(rows))
  IN {orders \in [strata -> UNION {Of(key) : key \in strata}] : \A key \in strata : orders[key] \in Of(key)}

(* Roles stay usable, whatever the shuffles: one of three trajectories or more       *)
(* leaves no role empty, and in a repeated split calibration and test lack bad       *)
(* trajectories only when the training set has none to give.                         *)
RolesKeepPositives ==
  part = "rows" /\ rows # Nothing =>
    /\ Cardinality(TrajectoriesOf(rows)) >= 3 =>
         \A order \in Shuffles : \A role \in Roles :
           make_verified_splits(rows, order, 1).splits[role].trajectory_count > 0
    /\ \A orders \in StratumShuffles : \A outcome \in create_repeated_splits(rows, orders, 1) :
         LET enough == outcome.audit.enough_positives
         IN (\E role \in DOMAIN enough : ~enough[role]) => outcome.audit.splits["train"].positives = 0

(***********************************************************************************)
(* Properties: reports                                                              *)
(***********************************************************************************)
(* Reports to which nothing was added but what the checker asks for, or text that    *)
(* claims nothing.                                                                  *)
Harmless == {Source, "future work", "prose"}
Denies(checker, f) ==
  \A l \in DOMAIN corpus[f] : l > Len(FullReport) => corpus[f][l][1] \in checker.required \cup Harmless

(* The phrases a checker forbids are found inside the statements it requires, which  *)
(* deny them: reports that make these statements pass, and no such statement costs   *)
(* other reports their verdict, wherever it is added.  check_batch9i_claim_boundaries*)
(* is the exception: its qualifiers lack "not causal".                              *)
DisclaimersNeverHurt ==
  [][part = "claims" =>
       \A checker \in Checkers \ {check_batch9i} :
         /\ (\A f \in ReportFiles : Denies(checker, f)) => Passed(checker, corpus)
         /\ \A f \in ReportFiles :
              /\ corpus'[f] # corpus[f]
              /\ Last(corpus'[f])[1] \in checker.required
              /\ Passed(checker, corpus)
              => Passed(checker, corpus')]_vars

(***********************************************************************************)
(* Properties: warning policies                                                     *)
(***********************************************************************************)
Quantiles == {<<1, 2>>, <<4, 5>>}

(* The warning times of the policies that are to warn as the run goes on, their      *)
(* thresholds fixed on the train split.                                             *)
EventWarnings(split) ==
  [p \in {"single_threshold_first_crossing", "cumulative_hazard_threshold"} \X Quantiles |->
     WarningTimes(decisions_for_variant(split, p[1], threshold_values(roles.train, p[2])))]
NestedWarnings(split) ==
  LET Grid(family) == build_threshold_grid(AllScores(transform_rows(roles.train, family)), Quantiles)
      policies == UNION {{family} \X Range(Grid(family)) : family \in NestedFamilies}
  IN [p \in policies |-> compute_first_crossing_warning_times(transform_rows(split, p[1]), p[2])]
OracleTimedWarnings(split) ==
  [p \in {"first_crossing_train_q80", "cumulative_hazard_train_q80", "early_weighted_train_q80"} |->
     [t \in DOMAIN split |-> _warning_time(split[t].score, p, _thresholds_from_train(roles.train))]]

(* What a warning time may become when its trajectory goes on: it stays, or the new  *)
(* row is the first to be warned at.                                                *)
Kept(before, after) ==
  \A p \in DOMAIN before : \A t \in DOMAIN before[p] :
    after[p][t] \in {before[p][t]}
                     \cup (IF before[p][t] = Never THEN {Len(roles'.calibration[t].score)} ELSE {})

(* A causal policy never takes a warning back, moves it or warns in the past: what   *)
(* it says of a row depends on no later one.                                        *)
WarningsAreCausal ==
  [][part = "timing" =>
       LET old == roles.calibration
           new == roles'.calibration
       IN /\ Kept(EventWarnings(old), EventWarnings(new))
          /\ Kept(NestedWarnings(old), NestedWarnings(new))
          /\ Kept(OracleTimedWarnings(old), OracleTimedWarnings(new))]_vars

(* The tables the calibrations select from, on the calibration split: the clean      *)
(* grids, the nested families, the policy table of batch 9N, T-8's, T-9's and T-10's.*)
PolicyGroups(s) ==
  {PolicyGroup(evaluate_score_family(s.calibration, s.test, {variant}, Quantiles), variant) :
     variant \in Variants}
FileCounts(s) == option_split_counts(DOMAIN s.calibration, Failing(s.calibration))

Tables(s) ==
  LET cal == s.calibration
      grid == build_threshold_grid(AllScores(cal), Quantiles)
      timed == evaluate_T9_trajectory_level_scoring(s)["baseline"]
  IN {build_threshold_table(cal, grid), build_calibration_table(cal, grid)}
     \cup {LET changed == transform_rows(cal, family)
           IN build_threshold_table(changed, build_threshold_grid(
                AllScores(transform_rows(s.train, family)), Quantiles)) : family \in NestedFamilies}
     \cup {PolicyTable(group, FileCounts(s).calibration_positive_trajectories,
                       FileCounts(s).calibration_trajectories) : group \in PolicyGroups(s)}
     \cup {evaluate_T8_score_based_policy_upper_bounds(s, policy, Quantiles, One, One).table :
              policy \in T8Policies}
     \cup {evaluate_T9_trajectory_score_warning_policies(timed, rule, Quantiles, One, One).table :
              rule \in T9Rules}
     \cup {_calibration_table(build_T10_trajectory_score_policy_table(
              timed, rule, "calibration_score_quantiles", << >>, Quantiles)) : rule \in TimingRules}

(* The grid of dual-unit policies. *)
RowBudgets == {<<1, 4>>, <<1, 2>>}
TrajectoryBudgets == {<<1, 2>>}
Candidates(s) == build_policy_grid(s.calibration, s.test, RowBudgets, TrajectoryBudgets)

Limits == {<<1, 4>>, <<1, 2>>, <<3, 4>>}

(* What follows is said of every calibration split, at the step that grows it. *)
NothingVetoedIsReached(s) ==
    LET prev == estimate_first_failure_prevalence(s.calibration)
        p_lcb == clopper_pearson_lower_bound(prev.k_first_failure, prev.n)
        veto == [limit \in Limits \X Limits |->
                   structural_feasibility_check(limit[1], limit[2], prev.p_hat, p_lcb)]
        oracle == {metrics_for_warnings(s.calibration, w) :
                     w \in build_policy_warnings(s.calibration, Limits)}
        deferred == {c.calibration : c \in Candidates(s)}
        tables == Tables(s)
    IN \A limit \in Limits \X Limits :
         /\ veto[limit].certified => veto[limit].empirical
         /\ veto[limit].empirical =>
              /\ \A table \in tables :
                   /\ EmpiricallyFeasible(table, limit[1], limit[2]) = {}
                   /\ \A correction \in Corrections :
                        option_c_select_threshold(table, limit[1], limit[2], correction).no_safe
              /\ \A m \in oracle : ~feasibility_rows(m, limit[1], limit[2])
              /\ ~analyze_option_c_oracle_feasible_region(s.calibration, limit[1], limit[2])
              /\ \A m \in deferred :
                   ~(Leq(Minus(One, Coverage(m)), limit[1]) /\ Leq(m.trajectory_burden, limit[2]))

(* What the prevalence of failures rules out, no policy reaches: not one of the      *)
(* study's tables, and not the oracles that see the labels.  Nothing the controller  *)
(* vetoes for certain would have been selected.                                     *)
VetoIsSound == [][part = "timing" => NothingVetoedIsReached(roles')]_vars

CorrectedIsFeasible(s) ==
    LET tables == Tables(s)
        groups == PolicyGroups(s)
    IN \A alpha, beta \in {<<1, 2>>, <<3, 4>>}, correction \in Corrections :
         /\ \A table \in tables :
              LET c == OptionCFeasible(table, alpha, beta, correction)
                  a == OptionAFeasible(table, alpha, correction)
              IN /\ c \subseteq EmpiricallyFeasible(table, alpha, beta)
                 /\ c \subseteq a
                 /\ \A k \in a : Leq(table[k].miss, alpha)
         /\ \A group \in groups :
              LET lost == summarize(candidate_rows(group, FileCounts(s), alpha, beta, correction))
              IN lost.feasibility_lost = lost.lost

(* A correction only ever takes rows away: Option C's from the rows that keep both   *)
(* limits empirically, Option A's from those that keep the miss limit, and keeping   *)
(* both is the stricter.  So the rows a cell loses are those T-4 blames on a bound.  *)
CorrectionsOnlyTighten == [][part = "timing" => CorrectedIsFeasible(roles')]_vars

(***********************************************************************************)
(* Properties: dual-unit policies                                                   *)
(***********************************************************************************)

AcceptedIsSound(s) ==
    LET candidates == Candidates(s)
        frontier == pareto_frontier(candidates)
        support == join_support(s.calibration, candidates)
    IN \A rho, beta \in {<<1, 4>>, <<1, 2>>} :
         LET limits == [row_deferral_rate |-> rho, trajectory_burden |-> beta]
             chosen == max_capture_under_dual_budget(candidates, rho, beta)
             row == diagnostic_row(chosen, limits, support, 1)
         IN \A gate \in gate_suite :
              gate_output(gate, row) = Accept =>
                /\ chosen # {}
                /\ \A c \in chosen :
                     /\ Leq(c.calibration.row_deferral_rate, rho)
                     /\ Leq(c.calibration.trajectory_burden, beta)
                     /\ \/ c \in frontier
                        \/ Same(Capture(c.calibration), One)

(* What a gate accepts is a selection that keeps both budgets on the calibration     *)
(* split, and that no policy of the grid beats there, unless it catches every bad    *)
(* row: then an allowed bad rate of 0 reads as 1 and a dominated one may be chosen.  *)
AcceptedPoliciesAreSound == [][part = "timing" => AcceptedIsSound(roles')]_vars
====================================================================================
