------------------------------- MODULE EventPolicies -------------------------------
(* The first-event warning policies of batch 9N: five ways to turn row scores into  *)
(* warnings, their thresholds from quantiles of the calibration scores, the metrics *)
(* of one policy on a split, and the selectors that pick a policy for a budget.     *)
(* A decision is a function from trajectory to the set of rows warned at.           *)
EXTENDS Calibration

(* The q-quantile by ceiling: the least score at or above a q share of them. *)
quantile_threshold(bag, q) ==
  LET sorted == Ascending(bag)
      up == -((-(q[1] * Len(sorted))) \div q[2])
  IN IF bag = {} THEN Infinite ELSE sorted[Max({1, Min({Len(sorted), up})})]

top_k_mean(scores, k) ==
  LET sorted == Ascending({<<i, scores[i]>> : i \in DOMAIN scores})
      top == SubSeq(sorted, Max({1, Len(sorted) - k + 1}), Len(sorted))
  IN IF scores = << >> THEN Zero ELSE Mean(top)

(* Mutant: the running sum as a share of the whole. *)
cumulative_shares(split) ==
  LET Share(t, i) == Over(Sum(SubSeq(t.score, 1, i)), Sum(t.score)) IN Rescored(split, Share)

cumulative_scores(split) ==
  LET Total(t, i) == Sum([j \in 1..i |-> Largest(Zero, t.score[j])]) IN Rescored(split, Total)

(* Rows near the start of the trajectory count up to half as much again. *)
early_weight(t, i) == Plus(One, Half(Minus(One, <<i, Len(t.score)>>)))
EarlyWeighted(split) ==
  LET Weighted(t, i) == Reduced(Times(t.score[i], early_weight(t, i))) IN Rescored(split, Weighted)

(***********************************************************************************)
(* The policies                                                                     *)
(***********************************************************************************)
OnlyRow(i) == {i} \ {Never}

single_threshold_first_crossing(split, threshold) ==
  [t \in DOMAIN split |-> OnlyRow(Crossing(split[t].score, threshold))]

cumulative_hazard_threshold(split, threshold) ==
  single_threshold_first_crossing(cumulative_scores(split), threshold)

(* A trajectory whose three highest scores average high enough is warned at its     *)
(* first crossing row, or else at its first row.                                    *)
top_k_trajectory_first_warning(split, trajectory_threshold, row_threshold) ==
  [t \in DOMAIN split |->
     IF Less(top_k_mean(split[t].score, 3), trajectory_threshold) THEN {}
     ELSE LET c == Crossing(split[t].score, row_threshold) IN {IF c = Never THEN 1 ELSE c}]

(* A peak of the primary score with a confirming score within one row of it. *)
peak_then_confirm(split, confirm, primary_threshold, confirm_threshold) ==
  [t \in DOMAIN split |->
     OnlyRow(Earliest({i \in Rows(split[t]) :
       /\ Leq(primary_threshold, split[t].score[i])
       /\ \E j \in Rows(split[t]) \cap {i - 1, i, i + 1} :
             Leq(confirm_threshold, confirm[t].score[j])}))]

Variants == {"single_threshold_first_crossing", "top_k_trajectory_first_warning",
             "cumulative_hazard_threshold", "early_weighted_threshold"}

threshold_values(split, q) ==
  LET Top3(t) == top_k_mean(t.score, 3)
      PeakOf(t) == FoldSeq(Largest, Zero, t.score)
  IN [row_threshold             |-> quantile_threshold(AllScores(split), q),
      trajectory_top3_threshold |-> quantile_threshold(PerTrajectory(split, Top3), q),
      cumulative_threshold      |->
        quantile_threshold(PerTrajectory(cumulative_scores(split), PeakOf), q),
      early_weighted_threshold  |-> quantile_threshold(AllScores(EarlyWeighted(split)), q)]

decisions_for_variant(split, variant, thresholds) ==
  CASE variant = "single_threshold_first_crossing" ->
         single_threshold_first_crossing(split, thresholds.row_threshold)
    [] variant = "top_k_trajectory_first_warning" ->
         top_k_trajectory_first_warning(split, thresholds.trajectory_top3_threshold,
                                        thresholds.row_threshold)
    [] variant = "cumulative_hazard_threshold" ->
         cumulative_hazard_threshold(split, thresholds.cumulative_threshold)
    [] variant = "early_weighted_threshold" ->
         single_threshold_first_crossing(EarlyWeighted(split), thresholds.early_weighted_threshold)

(***********************************************************************************)
(* Metrics and the policy table                                                     *)
(***********************************************************************************)
WarningTimes(decisions) == [t \in DOMAIN decisions |-> Earliest(decisions[t])]

(* What event_metrics reports of a policy on a split; None where a class is empty. *)
event_metrics(split, decisions) ==
  LET n == Tally(WarningTimes(decisions), FailureTimes(split))
      rows == MapThenSumSet(LAMBDA t : Cardinality(Rows(split[t])), DOMAIN split)
      warned == MapThenSumSet(LAMBDA t : Cardinality(decisions[t]), DOMAIN split)
      bad == MapThenSumSet(LAMBDA t : Cardinality(split[t].bad), DOMAIN split)
      caught == MapThenSumSet(LAMBDA t : Cardinality(split[t].bad \cap decisions[t]), DOMAIN split)
  IN [trajectory_burden     |-> Rate(n.warned, n.all),
      first_failure         |-> RateOr(n.covered, n.bad, None),
      pre_failure           |-> RateOr(n.pre, n.bad, None),
      missed                |-> RateOr(n.missed, n.bad, None),
      late                  |-> RateOr(n.late, n.bad, None),
      false_alarm           |-> RateOr(n.false, n.clean, None),
      specificity           |-> RateOr(n.clean - n.false, n.clean, None),
      precision             |-> RateOr(n.covered, n.warned, None),
      mean_lead_time        |-> RateOr(n.lead, n.covered, None),
      row_deferral_rate     |-> Rate(warned, rows),
      bad_row_capture       |-> RateOr(caught, bad, None),
      allowed_bad_rate      |-> <<bad - caught, Max({rows - warned, 1})>>,
      utility               |->
        Minus(Plus(Plus(Rate(n.covered, n.bad), Rate(n.pre, n.bad)),
                   Times(<<1, 50>>, Rate(n.lead, n.covered))),
              Plus(Half(Plus(Rate(n.false, n.clean), Rate(n.warned, n.all))),
                   Half(Half(Rate(n.late, n.bad)))))]

(* One row per variant and quantile: thresholds from calibration, metrics on both. *)
evaluate_score_family(cal, test, variants, quantiles) ==
  LET Row(v, q) ==
        LET th == threshold_values(cal, q)
        IN [variant |-> v, quantile |-> q,
            calibration |-> event_metrics(cal, decisions_for_variant(cal, v, th)),
            test |-> event_metrics(test, decisions_for_variant(test, v, th))]
      pairs == SetToSeq(variants \X quantiles)
  IN [k \in DOMAIN pairs |-> Row(pairs[k][1], pairs[k][2])]

(***********************************************************************************)
(* The selectors                                                                    *)
(***********************************************************************************)
(* `num(row, key, d) or d`: a cell that is empty, and also one that is 0.0, reads d. *)
NumOr(value, default) ==
  IF value = None THEN default ELSE IF Same(value, Zero) THEN default ELSE value

BurdenOf(row)     == NumOr(row.calibration.trajectory_burden, One)
FalseAlarmOf(row) == NumOr(row.calibration.false_alarm, One)
MissedOf(row)     == NumOr(row.calibration.missed, One)
CoverageOf(row)   == NumOr(row.calibration.first_failure, Zero)
PreOf(row)        == NumOr(row.calibration.pre_failure, Zero)
UtilityOf(row)    == NumOr(row.calibration.utility, <<-999, 1>>)
EventLossOf(row)  == Plus(MissedOf(row), Half(NumOr(row.calibration.false_alarm, Zero)))

MonotoneVariants == {"single_threshold_first_crossing", "cumulative_hazard_threshold",
                     "hybrid_event_score_policy"}

(* The rows a selector may choose from, and the key it minimises. *)
SelectorFeasible(selector, table, c) ==
  {k \in DOMAIN table :
     CASE selector = "max_coverage_under_burden" -> Leq(BurdenOf(table[k]), c.beta)
       [] selector = "max_pre_failure_under_false_alarm_and_burden" ->
            Leq(BurdenOf(table[k]), c.beta) /\ Leq(FalseAlarmOf(table[k]), c.phi)
       [] selector = "min_missed_under_false_alarm" -> Leq(FalseAlarmOf(table[k]), c.phi)
       [] selector = "max_event_utility" -> TRUE
       [] selector = "crc_style_event_loss_proxy" ->
            table[k].variant \in MonotoneVariants /\ Leq(EventLossOf(table[k]), c.alpha)}

SelectorKey(selector, row) ==
  CASE selector = "max_coverage_under_burden" ->
         <<Negated(CoverageOf(row)), Negated(PreOf(row)), BurdenOf(row)>>
    [] selector = "max_pre_failure_under_false_alarm_and_burden" ->
         <<Negated(PreOf(row)), Negated(CoverageOf(row)), FalseAlarmOf(row)>>
    [] selector = "min_missed_under_false_alarm" -> <<MissedOf(row), Negated(PreOf(row))>>
    [] selector = "max_event_utility" -> <<Negated(UtilityOf(row))>>
    [] selector = "crc_style_event_loss_proxy" -> <<Negated(UtilityOf(row)), BurdenOf(row)>>

Selectors == {"max_coverage_under_burden", "max_pre_failure_under_false_alarm_and_burden",
              "min_missed_under_false_alarm", "max_event_utility", "crc_style_event_loss_proxy"}

(* One selector at one constraint: the chosen row of the table, 0 for no row. *)
select(selector, table, c) ==
  LET feasible == SelectorFeasible(selector, table, c)
      Key(row) == SelectorKey(selector, row)
  IN IF feasible = {} THEN 0 ELSE FirstLeast(table, feasible, Key)

(* The constraint checks on the test split, which read their cells the same way. *)
selected_row(row, c) ==
  LET burden == NumOr(row.test.trajectory_burden, One)
      false_alarm == NumOr(row.test.false_alarm, One)
      loss == Plus(NumOr(row.test.missed, One), Half(NumOr(row.test.false_alarm, Zero)))
  IN [trajectory_satisfied |-> Leq(burden, c.beta),
      false_alarm_satisfied |-> Leq(false_alarm, c.phi),
      event_loss_satisfied |-> Leq(loss, c.alpha)]
===================================================================================
