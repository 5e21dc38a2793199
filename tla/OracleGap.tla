--------------------------------- MODULE OracleGap ---------------------------------
(* Batches T-6, T-8 and T-9: what an oracle could reach at a burden budget beta,     *)
(* how far learned scores stay below it, and how much of the gap is the choice of    *)
(* trajectories and how much the timing.  Row i of a trajectory has the prefix       *)
(* index i - 1.  Trajectory ids are numbers, compared as the scripts compare theirs. *)
EXTENDS TimedPolicies

Ceiling(a) == -((-a[1]) \div a[2])
Floor(a) == a[1] \div a[2]
Size(split) == <<Cardinality(DOMAIN split), 1>>

(* The targets of a trajectory; early and late are the outer thirds of its rows. *)
trajectory_summaries(t) ==
  LET last == Max({1, Len(t.score) - 1})
      at == <<FirstFailure(t) - 1, last>>
  IN [trajectory_has_first_failure |-> t.bad # {},
      trajectory_has_repeated_bad  |-> Cardinality(t.bad) > 1,
      early_first_failure          |-> t.bad # {} /\ Leq(at, <<33, 100>>),
      late_first_failure           |-> t.bad # {} /\ Leq(<<67, 100>>, at)]
Targets == {"trajectory_has_first_failure", "trajectory_has_repeated_bad",
            "early_first_failure", "late_first_failure"}

(***********************************************************************************)
(* One score for a trajectory                                                       *)
(***********************************************************************************)
Discounted(scores) == [i \in DOMAIN scores |-> Over(scores[i], <<100 + 3 * (i - 1), 100>>)]
Peak(scores) == FoldSeq(Largest, scores[1], scores)
Highest(scores, k) == LET top == SetToSeq(TopRows(scores, k)) IN [i \in DOMAIN top |-> scores[top[i]]]
Opening(scores, share) == SubSeq(scores, 1, Max({1, Ceiling(Times(share, <<Len(scores), 1>>))}))

Aggregators == {"max_score", "top_3_mean_score", "top_5_mean_score", "sum_top_3_score",
                "sum_top_5_score", "mean_score", "cumulative_score_sum",
                "early_weighted_max_score", "early_weighted_sum_score",
                "first_quartile_max_score", "first_half_max_score"}
aggregate_score(scores, name) ==
  IF scores = << >> THEN Zero
  ELSE CASE name = "max_score" -> Peak(scores)
         [] name = "top_3_mean_score" -> Mean(Highest(scores, 3))
         [] name = "top_5_mean_score" -> Mean(Highest(scores, 5))
         [] name = "sum_top_3_score" -> Sum(Highest(scores, 3))
         [] name = "sum_top_5_score" -> Sum(Highest(scores, 5))
         [] name = "mean_score" -> Mean(scores)
         [] name = "cumulative_score_sum" -> Sum(scores)
         [] name = "early_weighted_max_score" -> Peak(Discounted(scores))
         [] name = "early_weighted_sum_score" -> Sum(Discounted(scores))
         [] name = "first_quartile_max_score" -> Peak(Opening(scores, <<1, 4>>))
         [] name = "first_half_max_score" -> Peak(Opening(scores, <<1, 2>>))

(* The T-9 features add how many rows reach a quantile of the train scores; the      *)
(* deviation and the slope are left out.                                            *)
score_aggregates(scores, train_thresholds) ==
  [a \in Aggregators |-> aggregate_score(scores, a)]
    @@ [a \in DOMAIN train_thresholds |->
          Rate(Cardinality({i \in DOMAIN scores : Leq(train_thresholds[a], scores[i])}), Len(scores))]
_score_thresholds(train) ==
  [fraction_rows_above_train_q80 |-> quantile(AllScores(train), <<4, 5>>),
   fraction_rows_above_train_q90 |-> quantile(AllScores(train), <<9, 10>>),
   fraction_rows_above_train_q95 |-> quantile(AllScores(train), <<19, 20>>)]
build_T9_trajectory_level_features(roles) ==
  [r \in DOMAIN roles |-> [t \in DOMAIN roles[r] |->
     [features |-> score_aggregates(roles[r][t].score, _score_thresholds(roles.train)),
      targets |-> trajectory_summaries(roles[r][t])]]]

(* The score artifact: the top-5 baseline always, and a learned family (its scores   *)
(* are the level of the data, external to the study) when train shows both classes. *)
Leveled(split, Value(_)) == [t \in DOMAIN split |-> [split[t] EXCEPT !.level = Value(split[t])]]
evaluate_T9_trajectory_level_scoring(roles) ==
  LET Baseline(t) == aggregate_score(t.score, "top_5_mean_score")
      trainable == Failing(roles.train) \notin {{}, DOMAIN roles.train}
  IN [family \in {"baseline"} \cup (IF trainable THEN {"learned"} ELSE {}) |->
        IF family = "learned" THEN roles
        ELSE [r \in DOMAIN roles |-> Leveled(roles[r], Baseline)]]

(***********************************************************************************)
(* Ranking and selection                                                            *)
(***********************************************************************************)
(* values: trajectory -> rate; positive: the trajectories with the target.  Equal    *)
(* scores keep the order of the trajectories.                                       *)
RankOf(values, t) ==
  1 + Cardinality({u \in DOMAIN values :
         Less(values[t], values[u]) \/ (Same(values[t], values[u]) /\ u < t)})
average_precision(values, positive) ==
  LET Hits(t) == Cardinality({u \in positive : RankOf(values, u) <= RankOf(values, t)})
      terms == SetToSeq({<<t, Hits(t), RankOf(values, t)>> : t \in positive})
  IN IF positive = {} THEN Zero
     ELSE Mean([k \in DOMAIN terms |-> <<terms[k][2], terms[k][3]>>])

(* The rank sum of the positives, equal scores sharing the mean of their ranks; the  *)
(* ranks here are doubled.                                                          *)
auroc(values, positive) ==
  LET all == DOMAIN values
      p == Cardinality(positive)
      n == Cardinality(all) - p
      Doubled(t) == 2 * Cardinality({u \in all : Less(values[u], values[t])})
                      + Cardinality({u \in all : Same(values[u], values[t])}) + 1
      ranks == MapThenSumSet(Doubled, positive)
  IN IF p = 0 \/ n = 0 THEN <<1, 2>> ELSE <<ranks - p * (p + 1), 2 * p * n>>

binary_ranking_metrics(values, positive) ==
  LET ap == average_precision(values, positive)
      prevalence == Rate(Cardinality(positive), Cardinality(DOMAIN values))
  IN [auroc |-> auroc(values, positive), ap |-> ap,
      ap_lift |-> IF positive = {} THEN Zero ELSE Over(ap, prevalence)]

(* At least one trajectory, and the budget rounded up; among equal scores the        *)
(* greater id.                                                                      *)
Quota(split, beta) == Max({1, Min({Size(split)[1], Ceiling(Times(Size(split), beta))})})
select_top_by_budget(split, values, beta) ==
  LET Ahead(u, t) == Less(values[t], values[u]) \/ (Same(values[t], values[u]) /\ u > t)
  IN IF DOMAIN split = {} THEN {} ELSE FirstBy(DOMAIN split, Quota(split, beta), Ahead)

trajectory_selection_metrics(split, selected) ==
  LET bad == Cardinality(Failing(split))
      hit == Cardinality(Failing(split) \cap selected)
      clean == Cardinality(selected \ Failing(split))
  IN [coverage |-> Rate(hit, bad), miss |-> Rate(bad - hit, bad),
      burden |-> Rate(Cardinality(selected), Cardinality(DOMAIN split)),
      false_alarm |-> Rate(clean, Cardinality(DOMAIN split) - bad)]

oracle_upper_bound(beta, prevalence) ==
  IF Leq(prevalence, Zero) THEN Zero ELSE AtMostOne(Over(beta, prevalence))

(* What a selection covers, and its gap to the bound. *)
Curve(split, selected, beta) ==
  LET measured == trajectory_selection_metrics(split, selected)
      upper == oracle_upper_bound(beta, feature_prevalence_by_split(split))
  IN [coverage |-> measured.coverage, miss |-> measured.miss, burden |-> measured.burden,
      upper |-> upper, gap |-> Minus(upper, measured.coverage)]
(* T-9 takes the lower index among equal scores. *)
budget_curve(split, values, beta) ==
  LET Ahead(u, t) == Less(values[t], values[u]) \/ (Same(values[t], values[u]) /\ u < t)
  IN Curve(split, FirstBy(DOMAIN split, Quota(split, beta), Ahead), beta)

Valued(split, agg) == [t \in DOMAIN split |-> aggregate_score(split[t].score, agg)]
analyze_T8_score_trajectory_ranking(test, agg, target, beta) ==
  LET positive == {t \in DOMAIN test : trajectory_summaries(test[t])[target]}
  IN [ranking |-> binary_ranking_metrics(Valued(test, agg), positive),
      curve |-> Curve(test, select_top_by_budget(test, Valued(test, agg), beta), beta)]

(* Learned selection with oracle timing: every selected bad trajectory is covered. *)
analyze_T8_learned_selection_oracle_timing(test, agg, alpha, beta) ==
  LET curve == Curve(test, select_top_by_budget(test, Valued(test, agg), beta), beta)
  IN [curve |-> curve, feasible |-> Leq(curve.miss, alpha) /\ Leq(curve.burden, beta)]

(***********************************************************************************)
(* Oracle selection with learned timing                                             *)
(***********************************************************************************)
Strategies == {"earliest_failures", "latest_failures", "repeated_bad_trajectories",
               "random_bad_trajectories"}

(* The possible selections of a strategy; the random one shuffles. *)
_select_oracle_bad(split, beta, strategy) ==
  LET bad == Failing(split)
      cap == Min({Quota(split, beta), Cardinality(bad)})
      F(t) == FirstFailure(split[t])
      Repeated(t) == Cardinality(split[t].bad) > 1
      Earlier(u, t) == F(u) < F(t) \/ (F(u) = F(t) /\ u < t)
      Later(u, t) == F(u) > F(t) \/ (F(u) = F(t) /\ u < t)
      RepeatedFirst(u, t) == IF Repeated(u) = Repeated(t) THEN Earlier(u, t) ELSE Repeated(u)
  IN CASE strategy = "earliest_failures" -> {FirstBy(bad, cap, Earlier)}
       [] strategy = "latest_failures" -> {FirstBy(bad, cap, Later)}
       [] strategy = "repeated_bad_trajectories" -> {FirstBy(bad, cap, RepeatedFirst)}
       [] strategy = "random_bad_trajectories" -> kSubset(cap, bad)

TimingPolicies == {"first_crossing_train_q80", "earliest_top3_score_row", "max_score_row",
                   "cumulative_hazard_train_q80", "early_weighted_train_q80"}
_thresholds_from_train(train) ==
  LET PeakSum(t) == FoldSeq(Largest, Zero, Running(t.score))
      early == [t \in DOMAIN train |-> [train[t] EXCEPT !.score = Discounted(@)]]
  IN [score_q80 |-> quantile(AllScores(train), <<4, 5>>),
      early_q80 |-> quantile(AllScores(early), <<4, 5>>),
      cumulative_q80 |-> quantile(PerTrajectory(train, PeakSum), <<4, 5>>)]
_warning_time(scores, policy, thresholds) ==
  CASE policy = "first_crossing_train_q80" -> Crossing(scores, thresholds.score_q80)
    [] policy = "earliest_top3_score_row" -> Earliest(TopRows(scores, 3))
    [] policy = "max_score_row" -> Earliest(TopRows(scores, 1))
    [] policy = "cumulative_hazard_train_q80" -> Crossing(Running(scores), thresholds.cumulative_q80)
    [] policy = "early_weighted_train_q80" -> Crossing(Discounted(scores), thresholds.early_q80)

(* The figures of one selection: a warning after the failure is late and missed. *)
analyze_T8_oracle_selection_learned_timing(roles, selected, policy) ==
  LET test == roles.test
      thresholds == _thresholds_from_train(roles.train)
      W(t) == _warning_time(test[t].score, policy, thresholds)
      covered == {t \in selected : W(t) <= FirstFailure(test[t])}
      late == {t \in selected \ covered : W(t) < Never}
      bad == Cardinality(Failing(test))
  IN [coverage |-> Rate(Cardinality(covered), bad),
      late |-> Rate(Cardinality(late), bad),
      missed_selected |-> Rate(Cardinality(selected \ covered), Cardinality(selected)),
      burden |-> Rate(Cardinality(selected), Cardinality(DOMAIN test)),
      timing_gap |-> Rate(Cardinality(selected \ covered), bad)]

(* T-10 measures the timing rules on learned and oracle selections of the same size. *)
Ranked(split, beta, convention) ==
  LET Higher(u, t) == Less(split[t].level, split[u].level)
                        \/ (Same(split[t].level, split[u].level) /\ u > t)
      Earlier(u, t) == FirstFailure(split[u]) < FirstFailure(split[t])
                        \/ (FirstFailure(split[u]) = FirstFailure(split[t]) /\ u < t)
  IN IF convention = "oracle_selected_bad_trajectories"
     THEN FirstBy(Failing(split), Quota(split, beta), Earlier)
     ELSE FirstBy(DOMAIN split, Quota(split, beta), Higher)
analyze_T10_timing_rule_decomposition(roles, beta, convention, rule) ==
  LET test == roles.test
      selected == Ranked(test, beta, convention)
      W(t) == IF rule = "oracle_first_bad_timing" THEN FirstFailure(test[t])
              ELSE warning_time(test[t].score, rule, row_score_maps(roles.train))
      bad == selected \cap Failing(test)
      covered == {t \in bad : W(t) <= FirstFailure(test[t])}
  IN [coverage |-> Rate(Cardinality(covered), Cardinality(bad)),
      pre |-> Rate(Cardinality({t \in covered : W(t) < FirstFailure(test[t])}), Cardinality(bad)),
      missed |-> Rate(Cardinality(bad \ covered), Cardinality(bad))]

(***********************************************************************************)
(* The T-8 score-based policies and the T-9 warning policies                        *)
(***********************************************************************************)
T8Policies == {"trajectory_score_threshold_then_first_warning", "cumulative_hazard_threshold",
               "risk_mass_budgeted_warning", "two_stage_scalarized_policy"}
_scalar(scores, policy) ==
  aggregate_score(scores,
    CASE policy = "trajectory_score_threshold_then_first_warning" -> "max_score"
      [] policy = "cumulative_hazard_threshold" -> "cumulative_score_sum"
      [] policy = "risk_mass_budgeted_warning" -> "sum_top_5_score"
      [] policy = "two_stage_scalarized_policy" -> "top_3_mean_score")
_warning(scores, policy, threshold, row_q80) ==
  IF Less(_scalar(scores, policy), threshold) \/ scores = << >> THEN Never
  ELSE CASE policy = "trajectory_score_threshold_then_first_warning" ->
              LET c == Crossing(scores, row_q80) IN IF c = Never THEN 1 ELSE c
         [] policy = "cumulative_hazard_threshold" -> Crossing(Running(scores), threshold)
         [] policy = "risk_mass_budgeted_warning" -> Earliest(TopRows(scores, 5))
         [] policy = "two_stage_scalarized_policy" -> Earliest(TopRows(scores, 3))

(* The row an event table keeps of a policy's warning times; the selector does not  *)
(* find its lead time either.                                                        *)
EventRow(w, split, threshold, k) ==
  LET n == Tally(w, FailureTimes(split))
  IN [threshold |-> threshold, order |-> k, n_miss |-> n.bad, n_burden |-> n.all,
      miss |-> Minus(One, Rate(n.covered, n.bad)), burden |-> Rate(n.warned, n.all),
      false_alarm |-> Rate(n.false, n.clean), pre |-> Rate(n.pre, n.bad),
      lead |-> None]
T8Warnings(split, policy, threshold, row_q80) ==
  [t \in DOMAIN split |-> _warning(split[t].score, policy, threshold, row_q80)]
T8Table(split, policy, grid, row_q80) ==
  [k \in DOMAIN grid |-> EventRow(T8Warnings(split, policy, grid[k], row_q80), split, grid[k], k)]
_nestedness_pass(split, policy, grid, row_q80) ==
  LET Warned(k) == {t \in DOMAIN split : _warning(split[t].score, policy, grid[k], row_q80) < Never}
  IN \A k \in 2..Len(grid) : Warned(k) \subseteq Warned(k - 1)

(* Option C runs on a policy only when its warned sets are nested and it is not the  *)
(* diagnostic one.                                                                   *)
evaluate_T8_score_based_policy_upper_bounds(roles, policy, quantiles, alpha, beta) ==
  LET row_q80 == quantile(AllScores(roles.train), <<4, 5>>)
      Value(t) == _scalar(t.score, policy)
      grid == build_threshold_grid(PerTrajectory(roles.train, Value), quantiles)
      table == T8Table(roles.calibration, policy, grid, row_q80)
      candidate == /\ policy # "risk_mass_budgeted_warning"
                   /\ _nestedness_pass(roles.calibration, policy, grid, row_q80)
  IN [table |-> table, nested |-> _nestedness_pass(roles.calibration, policy, grid, row_q80),
      empirical_feasible_count |-> Cardinality(EmpiricallyFeasible(table, alpha, beta)),
      selection |-> IF candidate
                    THEN option_c_select_threshold(table, alpha, beta, "clopper_pearson_union")
                    ELSE NoSafe]

(* T-9: the families that rank the calibration failures best are kept.  levels is a  *)
(* sequence, by family name, of trajectory -> score; of equal ones the later name.   *)
_candidate_trajectory_families(levels, positive, keep) ==
  LET Ap(f) == average_precision(levels[f], positive)
      Better(f, g) == Less(Ap(g), Ap(f)) \/ (Same(Ap(g), Ap(f)) /\ f > g)
  IN FirstBy(DOMAIN levels, keep, Better)

T9Rules == {"earliest_row_above_q90", "earliest_row_above_q95", "max_row_score_position",
            "earliest_top3_row_score_position", "cumulative_hazard_crossing_q80"}
T9Warning(scores, rule, train) ==
  CASE rule = "earliest_row_above_q90" -> warning_time(scores, "earliest_q90", row_score_maps(train))
    [] rule = "earliest_row_above_q95" -> warning_time(scores, "earliest_q95", row_score_maps(train))
    [] rule = "max_row_score_position" -> Earliest(TopRows(scores, 1))
    [] rule = "earliest_top3_row_score_position" -> Earliest(TopRows(scores, 3))
    [] rule = "cumulative_hazard_crossing_q80" ->
         Crossing(Running(scores), _thresholds_from_train(train).cumulative_q80)

(* A selected trajectory whose timing rule never fires is warned at its last row. *)
_policy_metrics(split, rule, train, lambda, k) ==
  LET Fallback(t) == LET w == T9Warning(t.score, rule, train)
                     IN IF w = Never THEN Len(t.score) ELSE w
  IN EventRow([t \in DOMAIN split |->
                 IF Leq(lambda, split[t].level) THEN Fallback(split[t]) ELSE Never],
              split, lambda, k)
_threshold_table(split, rule, train, grid) ==
  [k \in DOMAIN grid |-> _policy_metrics(split, rule, train, grid[k], k)]
evaluate_T9_trajectory_score_warning_policies(roles, rule, quantiles, alpha, beta) ==
  LET grid == build_threshold_grid(Levels(roles.train), quantiles)
      cal == _threshold_table(roles.calibration, rule, roles.train, grid)
      test == _threshold_table(roles.test, rule, roles.train, grid)
      a == option_a_select_threshold(cal, alpha, "clopper_pearson_union")
      c == option_c_select_threshold(cal, alpha, beta, "clopper_pearson_union")
  IN [nested |-> nestedness_pass(roles.calibration, grid), table |-> cal,
      option_a |-> a, option_c |-> c,
      joint_success |-> /\ FoundInTest(test, c.threshold)
                        /\ LET row == evaluate_selected_threshold(test, c.threshold)
                           IN Leq(row.miss, alpha) /\ Leq(row.burden, beta)]

(***********************************************************************************)
(* T-6: the oracle's own region                                                      *)
(***********************************************************************************)
metrics_for_warnings(split, w) == EventRow(w, split, None, 0)

(* Warn at the first failure, k rows before it, or at the first failures that fit    *)
(* a burden budget, taken in some order.                                             *)
OracleAt(split, selected, k) ==
  [t \in DOMAIN split |-> IF t \in selected THEN Max({1, FirstFailure(split[t]) - k}) ELSE Never]
BudgetedSelections(split, beta) ==
  LET cap == Min({Floor(Times(beta, Size(split))), Cardinality(Failing(split))})
  IN kSubset(cap, Failing(split))
build_policy_warnings(split, betas) ==
  {OracleAt(split, Failing(split), k) : k \in {0, 1, 2, 3, 5}}
    \cup {OracleAt(split, S, 0) : S \in UNION {BudgetedSelections(split, b) : b \in betas}}

OracleMinMiss(beta, prevalence) == AtLeastZero(Minus(One, oracle_upper_bound(beta, prevalence)))
analyze_option_c_oracle_feasible_region(split, alpha, beta) ==
  Leq(OracleMinMiss(beta, feature_prevalence_by_split(split)), alpha)
feasibility_rows(metrics, alpha, beta) == Leq(metrics.miss, alpha) /\ Leq(metrics.burden, beta)
=====================================================================================
