-------------------------------- MODULE Calibration --------------------------------
(* The first-event calibrations: Option A certifies the miss risk of a threshold,   *)
(* Option C miss risk and burden together, and the feasibility-aware controller     *)
(* refuses beforehand what the prevalence of failures already rules out.            *)
(*                                                                                   *)
(* The numerical bounds are parameters, constrained by what the selectors rely on:  *)
(* an upper bound at risk level delta/c is no smaller than the empirical rate, and   *)
(* neither it nor the slack shrinks as the number c of comparisons grows; a lower    *)
(* bound is no larger than the empirical rate.  delta is fixed.                      *)
EXTENDS Trajectories, SequencesExt

CONSTANTS
  ExactUpper(_, _, _),      \* Clopper-Pearson upper bound of k errors in n, at delta/c
  HoeffdingSlack(_, _),     \* sqrt(log(c / delta) / 2n)
  ExactLower(_, _),         \* Clopper-Pearson lower bound of k in n, at delta
  MaxTrials,                \* the trials and the comparisons the bounds are used for
  MaxComparisons

ASSUME BoundsAssumption ==
  /\ MaxTrials \in Nat /\ MaxComparisons \in Nat
  /\ \A n \in 1..MaxTrials, c \in 1..MaxComparisons :
       /\ HoeffdingSlack(n, c) \in Nat \X (Nat \ {0})
       /\ c > 1 => Leq(HoeffdingSlack(n, c - 1), HoeffdingSlack(n, c))
       /\ \A k \in 0..n :
            /\ ExactUpper(k, n, c) \in Nat \X (Nat \ {0})
            /\ Leq(<<k, n>>, ExactUpper(k, n, c)) /\ Leq(ExactUpper(k, n, c), One)
            /\ c > 1 => Leq(ExactUpper(k, n, c - 1), ExactUpper(k, n, c))
  /\ \A n \in 1..MaxTrials : \A k \in 0..n :
       ExactLower(k, n) \in Nat \X (Nat \ {0}) /\ Leq(ExactLower(k, n), <<k, n>>)

Corrections == {"clopper_pearson_union", "hoeffding_union_bound",
                "plus_one_empirical_proxy", "pointwise_clopper_pearson_no_union"}
UniformCorrections == {"clopper_pearson_union", "hoeffding_union_bound"}

clopper_pearson_upper_bound(k, n, c) == IF k = n THEN One ELSE ExactUpper(k, n, c)
hoeffding_union_upper_bound(risk, n, c) == AtMostOne(Plus(risk, HoeffdingSlack(n, c)))
clopper_pearson_lower_bound(k, n) == IF k = 0 THEN Zero ELSE ExactLower(k, n)

(* Python's round: to the nearest integer, halves to even. *)
Rounded(a) ==
  LET low == a[1] \div a[2]
      twice == 2 * (a[1] % a[2])
  IN IF twice > a[2] \/ (twice = a[2] /\ low % 2 = 1) THEN low + 1 ELSE low

(* The number of errors behind a rate of n trials, clamped to 0..n. *)
_count_from_rate(rate, n) == Max({0, Min({n, Rounded(Times(rate, <<n, 1>>))})})

(* The corrected miss risk of one row; no trial at all bounds nothing. *)
correction_upper_bound(correction, risk, n, m) ==
  LET k == _count_from_rate(risk, n)
  IN IF n <= 0 THEN One
     ELSE AtMostOne(
       CASE correction = "hoeffding_union_bound" -> hoeffding_union_upper_bound(risk, n, m)
         [] correction = "clopper_pearson_union" -> clopper_pearson_upper_bound(k, n, m)
         [] correction = "plus_one_empirical_proxy" -> <<k + 1, n + 1>>
         [] correction = "pointwise_clopper_pearson_no_union" ->
              clopper_pearson_upper_bound(k, n, 1))

(* A bag of scores is a set of pairs <<where, score>>; ascending, fewer than k of    *)
(* them are below the k-th, and k at least are no higher.                           *)
Ascending(bag) ==
  LET Below(x) == {y \in bag : Less(y[2], x[2])}
      UpTo(x) == {y \in bag : Leq(y[2], x[2])}
      Ranked(k) == CHOOSE x \in bag : Cardinality(Below(x)) < k /\ k <= Cardinality(UpTo(x))
  IN [k \in 1..Cardinality(bag) |-> Ranked(k)[2]]
Sorted(rates) == Ascending({<<a, a>> : a \in rates})

(* The quantile grid: the scores at the rounded positions, each once, ascending.    *)
quantile(bag, q) ==
  LET sorted == Ascending(bag)
  IN IF bag = {} THEN Infinite
     ELSE sorted[1 + Rounded(Times(q, <<Len(sorted) - 1, 1>>))]
build_threshold_grid(bag, quantiles) ==
  Sorted({Reduced(quantile(bag, q)) : q \in quantiles})

(* Bags of scores and new scores for a split. *)
Sum(rates) == Reduced(FoldSeq(Plus, Zero, rates))
Mean(rates) == Reduced(<<Sum(rates)[1], Sum(rates)[2] * Len(rates)>>)
AllScores(split) ==
  {<<p, split[p[1]].score[p[2]]>> : p \in
     {q \in (DOMAIN split) \X (1..MaxRows) : q[2] \in Rows(split[q[1]])}}
PerTrajectory(split, Value(_)) == {<<t, Value(split[t])>> : t \in DOMAIN split}
Rescored(split, Score(_, _)) ==
  [t \in DOMAIN split |->
     [split[t] EXCEPT !.score = [i \in DOMAIN @ |-> Score(split[t], i)]]]

(***********************************************************************************)
(* Option A                                                                         *)
(***********************************************************************************)
(* With no bad trajectory the row's n is 0, which `or` passes over: all its         *)
(* trajectories then count as trials.                                               *)
OptionATrials(row) == IF row.n_miss # 0 THEN row.n_miss ELSE row.n_burden
OptionAUpper(row, correction, m) ==
  correction_upper_bound(correction, row.miss, OptionATrials(row), m)
OptionAFeasible(table, alpha, correction) ==
  {k \in DOMAIN table : Leq(OptionAUpper(table[k], correction, Len(table)), alpha)}

OptionAKey(row) == <<row.burden, row.false_alarm, Negated(row.pre), Negated(row.threshold)>>

NoSafe == [no_safe |-> TRUE, threshold |-> None, feasible_count |-> 0]

option_a_select_threshold(table, alpha, correction) ==
  LET feasible == OptionAFeasible(table, alpha, correction)
      best == FirstLeast(table, feasible, OptionAKey)
  IN IF feasible = {} THEN NoSafe
     ELSE [no_safe |-> FALSE, threshold |-> table[best].threshold,
           feasible_count |-> Cardinality(feasible)]

(***********************************************************************************)
(* Option C                                                                         *)
(***********************************************************************************)
(* Mutant: misses are counted against every trajectory. *)
bounds_over_all_trajectories(k_miss, k_burden, n_miss, n_burden, m) ==
  [miss_upper   |-> IF n_miss > 0 THEN clopper_pearson_upper_bound(k_miss, n_burden, 2 * m) ELSE One,
   burden_upper |-> IF n_burden > 0 THEN clopper_pearson_upper_bound(k_burden, n_burden, 2 * m) ELSE One]

(* Miss and burden are corrected together: M thresholds and two losses are 2M       *)
(* comparisons.                                                                     *)
clopper_pearson_dual_union_bounds(k_miss, k_burden, n_miss, n_burden, m) ==
  [miss_upper   |-> IF n_miss > 0 THEN clopper_pearson_upper_bound(k_miss, n_miss, 2 * m) ELSE One,
   burden_upper |-> IF n_burden > 0 THEN clopper_pearson_upper_bound(k_burden, n_burden, 2 * m) ELSE One]

OneLossUpper(correction, rate, n, m) ==
  LET k == _count_from_rate(rate, n)
  IN IF n <= 0 THEN One
     ELSE CASE correction = "hoeffding_union_bound" -> hoeffding_union_upper_bound(rate, n, 2 * m)
            [] correction = "plus_one_empirical_proxy" -> <<k + 1, n + 1>>
            [] correction = "pointwise_clopper_pearson_no_union" ->
                 clopper_pearson_upper_bound(k, n, 1)

compute_dual_loss_bounds(row, correction, m) ==
  IF correction = "clopper_pearson_union"
  THEN clopper_pearson_dual_union_bounds(_count_from_rate(row.miss, row.n_miss),
         _count_from_rate(row.burden, row.n_burden), row.n_miss, row.n_burden, m)
  ELSE [miss_upper   |-> AtMostOne(OneLossUpper(correction, row.miss, row.n_miss, m)),
        burden_upper |-> AtMostOne(OneLossUpper(correction, row.burden, row.n_burden, m))]

OptionCFeasible(table, alpha, beta, correction) ==
  {k \in DOMAIN table :
     LET bounds == compute_dual_loss_bounds(table[k], correction, Len(table))
     IN Leq(bounds.miss_upper, alpha) /\ Leq(bounds.burden_upper, beta)}

OptionCKey(row) ==
  <<Negated(row.pre), row.false_alarm,
    Negated(IF row.lead = None THEN Zero ELSE row.lead), Negated(row.threshold)>>

option_c_select_threshold(table, alpha, beta, correction) ==
  LET feasible == OptionCFeasible(table, alpha, beta, correction)
      best == FirstLeast(table, feasible, OptionCKey)
  IN IF feasible = {} THEN NoSafe
     ELSE [no_safe |-> FALSE, threshold |-> table[best].threshold,
           feasible_count |-> Cardinality(feasible)]

(* What the test split says of a selected threshold; a threshold that is not in its *)
(* table raises, which FoundInTest excludes.                                        *)
FoundInTest(test, threshold) == \E k \in DOMAIN test : test[k].threshold = threshold
evaluate_selected_threshold(test, threshold) ==
  test[Min({k \in DOMAIN test : test[k].threshold = threshold})]
evaluate_option_c_threshold(test, threshold) == evaluate_selected_threshold(test, threshold)

(***********************************************************************************)
(* The feasibility-aware controller                                                 *)
(***********************************************************************************)
estimate_first_failure_prevalence(split) ==
  LET n == Cardinality(DOMAIN split)
      k == Cardinality({t \in DOMAIN split : split[t].bad # {}})
  IN [p_hat |-> Rate(k, n), n |-> n, k_first_failure |-> k]

structural_burden_lower_bound(alpha, p) == AtLeastZero(Minus(p, alpha))

(* Mutant: a burden just at the bound is refused. *)
refused_at_bound(alpha, beta, p_hat, p_lcb) ==
  [empirical |-> Leq(beta, structural_burden_lower_bound(alpha, p_hat)),
   certified |-> Leq(beta, structural_burden_lower_bound(alpha, p_lcb))]

structural_feasibility_check(alpha, beta, p_hat, p_lcb) ==
  [empirical |-> Less(beta, structural_burden_lower_bound(alpha, p_hat)),
   certified |-> Less(beta, structural_burden_lower_bound(alpha, p_lcb))]

EmpiricallyFeasible(table, alpha, beta) ==
  {k \in DOMAIN table : Leq(table[k].miss, alpha) /\ Leq(table[k].burden, beta)}

corrected_feasible_set_option_c(table, alpha, beta, correction) ==
  LET selection == option_c_select_threshold(table, alpha, beta, correction)
  IN [selection |-> selection,
      empirical_feasible_count |-> Cardinality(EmpiricallyFeasible(table, alpha, beta)),
      corrected_feasible_count |-> selection.feasible_count]

_diagnostic_reason(feasible, support) ==
  CASE support <= 0 -> "insufficient_support"
    [] support > 0 /\ feasible.empirical_feasible_count <= 0 -> "empirical_infeasible"
    [] support > 0 /\ feasible.empirical_feasible_count > 0
       /\ feasible.corrected_feasible_count <= 0 -> "correction_blocked"
    [] OTHER -> "unknown"

feasibility_aware_select_policy(table, alpha, beta, p_hat, p_lcb, test) ==
  LET structural == structural_feasibility_check(alpha, beta, p_hat, p_lcb)
      feasible == corrected_feasible_set_option_c(table, alpha, beta, "clopper_pearson_union")
      Result(threshold, reason, joint) ==
        [no_safe |-> threshold = None, threshold |-> threshold, reason |-> reason,
         joint_success |-> joint,
         empirical |-> structural.empirical, certified |-> structural.certified]
      picked == feasible.selection.threshold
  IN IF structural.certified
     THEN Result(None, "structurally_infeasible_by_first_failure_prevalence", FALSE)
     ELSE IF feasible.selection.no_safe
     THEN Result(None, _diagnostic_reason(feasible, IF table = << >> THEN 0 ELSE table[1].n_burden), FALSE)
     ELSE Result(picked, "selected_corrected_feasible_policy",
            FoundInTest(test, picked)
              /\ LET t == evaluate_selected_threshold(test, picked)
                 IN Leq(t.miss, alpha) /\ Leq(t.burden, beta))
===================================================================================
