------------------------------- MODULE TimedPolicies -------------------------------
(* Batches T-10 to T-12: a trajectory is warned when its trajectory-level score     *)
(* reaches lambda, at the row a timing rule fixed beforehand names.  A trajectory    *)
(* record has a field level, that score, besides score and bad.  The structural      *)
(* bound max(0, p_F - alpha) on the burden explains the budgets nothing can meet.    *)
EXTENDS Calibration

TimingRules == {"earliest_q80", "earliest_q90", "earliest_q95", "max_score_position",
                "earliest_top3", "cumulative_hazard_q90", "first_prefix_baseline"}
GridProtocols == {"fixed_score_threshold_grid", "train_score_quantiles",
                  "calibration_score_quantiles"}

LevelOf(t) == t.level
Levels(split) == PerTrajectory(split, LevelOf)
Running(scores) == [i \in DOMAIN scores |-> Sum(SubSeq(scores, 1, i))]

(* The timing thresholds come from the train rows alone. *)
row_score_maps(train) ==
  LET Peak(t) == FoldSeq(Largest, Zero, Running(t.score))
  IN [earliest_q80 |-> quantile(AllScores(train), <<4, 5>>),
      earliest_q90 |-> quantile(AllScores(train), <<9, 10>>),
      earliest_q95 |-> quantile(AllScores(train), <<19, 20>>),
      cumulative_hazard_q90 |-> quantile(PerTrajectory(train, Peak), <<9, 10>>)]

(* The members of S with fewer than n members before them. *)
FirstBy(S, n, Before(_, _)) == {x \in S : Cardinality({y \in S : Before(y, x)}) < n}

(* The k rows of highest score, the earlier of two equal ones first. *)
TopRows(scores, k) ==
  LET Above(i, j) == Less(scores[j], scores[i]) \/ (Same(scores[i], scores[j]) /\ i < j)
  IN FirstBy(DOMAIN scores, k, Above)

warning_time(scores, rule, thresholds) ==
  CASE rule \in {"earliest_q80", "earliest_q90", "earliest_q95"} ->
         Crossing(scores, thresholds[rule])
    [] rule = "max_score_position" -> Earliest(TopRows(scores, 1))
    [] rule = "earliest_top3" -> Earliest(TopRows(scores, 3))
    [] rule = "cumulative_hazard_q90" -> Crossing(Running(scores), thresholds[rule])
    [] rule = "first_prefix_baseline" -> Earliest(DOMAIN scores)

TimedWarnings(split, rule, thresholds, lambda) ==
  [t \in DOMAIN split |->
     IF Leq(lambda, split[t].level) THEN warning_time(split[t].score, rule, thresholds) ELSE Never]

t10_event_metrics(split, rule, thresholds, lambda) ==
  LET n == Tally(TimedWarnings(split, rule, thresholds, lambda), FailureTimes(split))
  IN [n_miss      |-> n.bad,
      n_burden    |-> n.all,
      miss        |-> Minus(One, Rate(n.covered, n.bad)),
      burden      |-> Rate(n.warned, n.all),
      false_alarm |-> Rate(n.false, n.clean),
      pre         |-> Rate(n.pre, n.bad)]

(* The warned sets shrink as lambda grows. *)
nestedness_pass(split, grid) ==
  \A k \in 2..Len(grid) :
    {t \in DOMAIN split : Leq(grid[k], split[t].level)}
      \subseteq {t \in DOMAIN split : Leq(grid[k - 1], split[t].level)}

(* Scores rescaled by the train split's range; a flat range makes them all 0. *)
normalize_scores_by_train(split, train) ==
  LET high == CHOOSE v \in {train[t].level : t \in DOMAIN train} :
                \A t \in DOMAIN train : Leq(train[t].level, v)
      low == CHOOSE v \in {train[t].level : t \in DOMAIN train} :
                \A t \in DOMAIN train : Leq(v, train[t].level)
  IN [t \in DOMAIN split |-> [split[t] EXCEPT !.level =
        IF Less(low, high) THEN Over(Minus(@, low), Minus(high, low)) ELSE Zero]]

_thresholds(protocol, train, cal, fixed, quantiles) ==
  CASE protocol = "fixed_score_threshold_grid"  -> fixed
    [] protocol = "train_score_quantiles"       -> build_threshold_grid(Levels(train), quantiles)
    [] protocol = "calibration_score_quantiles" -> build_threshold_grid(Levels(cal), quantiles)

(* One group of the T-10 policy table: the rows of one rule and protocol, in the    *)
(* grid's order.  A seed with an empty role has no rows.                             *)
build_T10_trajectory_score_policy_table(roles, rule, protocol, fixed, quantiles) ==
  LET Field(split) == IF protocol = "fixed_score_threshold_grid"
                      THEN normalize_scores_by_train(split, roles.train) ELSE split
      grid == _thresholds(protocol, roles.train, roles.calibration, fixed, quantiles)
      timing == row_score_maps(roles.train)
  IN IF \E r \in DOMAIN roles : roles[r] = << >> THEN << >>
     ELSE [k \in DOMAIN grid |->
             [threshold |-> grid[k], order |-> k,
              nested |-> nestedness_pass(Field(roles.calibration), grid),
              cal |-> t10_event_metrics(Field(roles.calibration), rule, timing, grid[k]),
              test |-> t10_event_metrics(Field(roles.test), rule, timing, grid[k])]]

(* The selectors' view of a group; it has no lead times. *)
_calibration_table(group) ==
  [k \in DOMAIN group |->
     [threshold |-> group[k].threshold, order |-> k,
      n_miss |-> group[k].cal.n_miss, n_burden |-> group[k].cal.n_burden,
      miss |-> group[k].cal.miss, burden |-> group[k].cal.burden,
      false_alarm |-> group[k].cal.false_alarm, pre |-> group[k].cal.pre, lead |-> None]]

_test_table(group) ==
  [k \in DOMAIN group |-> [threshold |-> group[k].threshold,
                           miss |-> group[k].test.miss, burden |-> group[k].test.burden]]

(* A selection and what the first row of the group at its threshold says of the     *)
(* test split.                                                                      *)
Evaluated(selection, group, Success(_)) ==
  LET test == _test_table(group)
  IN [no_safe |-> selection.no_safe, feasible_count |-> selection.feasible_count,
      threshold |-> selection.threshold,
      success |-> /\ FoundInTest(test, selection.threshold)
                  /\ Success(evaluate_selected_threshold(test, selection.threshold))]

evaluate_T10_option_A_trajectory_score_policy(group, alpha, correction) ==
  LET Success(row) == Leq(row.miss, alpha)
  IN Evaluated(option_a_select_threshold(_calibration_table(group), alpha, correction),
               group, Success)

evaluate_T10_option_C_trajectory_score_policy(group, alpha, beta, correction) ==
  LET Success(row) == Leq(row.miss, alpha) /\ Leq(row.burden, beta)
  IN Evaluated(option_c_select_threshold(_calibration_table(group), alpha, beta, correction),
               group, Success)

(***********************************************************************************)
(* T-11 and T-12                                                                    *)
(***********************************************************************************)
structural_bound(p, alpha) == AtLeastZero(Minus(p, alpha))
is_structurally_feasible(p, alpha, beta) == Leq(structural_bound(p, alpha), beta)

Failing(split) == {t \in DOMAIN split : split[t].bad # {}}
feature_prevalence_by_split(split) == Rate(Cardinality(Failing(split)), Cardinality(DOMAIN split))

analyze_T11_structural_feasibility_map(roles, alpha, beta) ==
  [calibration |-> is_structurally_feasible(feature_prevalence_by_split(roles.calibration), alpha, beta),
   test |-> is_structurally_feasible(feature_prevalence_by_split(roles.test), alpha, beta)]

(* The class of one (alpha, beta) cell.  structural and corrected hold one row per   *)
(* seed and per seed and group; policy has every row of the policy table.           *)
analyze_T11_feasible_region_taxonomy(structural, oracle_feasible, policy, corrected, alpha, beta) ==
  LET impossible == {s \in DOMAIN structural : ~structural[s].calibration}
      selected == {g \in DOMAIN corrected : ~corrected[g].no_safe}
      SomeEmpirical == \E g \in DOMAIN policy : \E k \in DOMAIN policy[g] :
        Leq(policy[g][k].cal.miss, alpha) /\ Leq(policy[g][k].cal.burden, beta)
  IN IF 2 * Cardinality(impossible) >= Cardinality(DOMAIN structural)
     THEN "structurally_impossible"
     ELSE IF ~oracle_feasible THEN "structurally_possible_but_oracle_infeasible"
     ELSE IF ~SomeEmpirical THEN "oracle_feasible_but_learned_uncorrected_infeasible"
     ELSE IF selected = {} THEN "learned_empirical_feasible_but_correction_blocked"
     ELSE IF \E g \in selected : corrected[g].success
     THEN "learned_corrected_feasible_and_test_successful"
     ELSE "learned_corrected_feasible"

(* The reason T-11 gives for one row of the Option C results. *)
evaluate_T11_feasibility_aware_option_c(row, structural, class) ==
  IF ~structural.calibration THEN "structurally_infeasible_by_prevalence_bound"
  ELSE IF ~row.no_safe THEN "selected_corrected_feasible_policy"
  ELSE CASE class = "learned_empirical_feasible_but_correction_blocked" ->
              "empirical_feasible_but_correction_blocked"
         [] class = "oracle_feasible_but_learned_uncorrected_infeasible" ->
              "oracle_feasible_but_score_or_policy_limited"
         [] class = "structurally_possible_but_oracle_infeasible" ->
              "structurally_possible_but_oracle_infeasible"
         [] OTHER -> "no_empirical_feasible_policy"

(* T-12 runs the controller on the same groups; the prevalence is the calibration   *)
(* split's.                                                                          *)
evaluate_T12_feasibility_aware_real_data(roles, group, alpha, beta) ==
  LET prev == estimate_first_failure_prevalence(roles.calibration)
      p_lcb == clopper_pearson_lower_bound(prev.k_first_failure, prev.n)
  IN feasibility_aware_select_policy(_calibration_table(group), alpha, beta,
                                     prev.p_hat, p_lcb, _test_table(group))
====================================================================================
