--------------------------------- MODULE DualUnit ---------------------------------
(* Two budgets at once: how many rows a policy defers, and how many trajectories it *)
(* touches.  Decisions are a set of deferred rows <<trajectory, position>> of a      *)
(* split; the policies fix their thresholds on the calibration split, the selectors *)
(* choose among the policies by calibration metrics alone.                           *)
EXTENDS Trajectories, SequencesExt

CONSTANT StableUnit(_)      \* the hash of a row or a trajectory, a rate below 1

RowKeys(split) == UNION {{t} \X Rows(split[t]) : t \in DOMAIN split}
BadKeys(split) == UNION {{t} \X split[t].bad : t \in DOMAIN split}
Touched(keys) == {key[1] : key \in keys}
RowScore(split, key) == split[key[1]].score[key[2]]
CeilingOf(rate, n) == -((-(rate[1] * n)) \div rate[2])
FloorOf(rate, n) == (rate[1] * n) \div rate[2]
InRowOrder(keys) == SetToSortSeq(keys, LAMBDA a, b : a[1] < b[1] \/ (a[1] = b[1] /\ a[2] < b[2]))
FirstOf(order, k) == {order[i] : i \in DOMAIN order \cap 1..k}

(***********************************************************************************)
(* The metrics of a set of decisions                                                *)
(***********************************************************************************)
FirstDeferral(keys, t) == Earliest({i \in 1..MaxRows : <<t, i>> \in keys})
SecondFailure(t) == Earliest(t.bad \ {FirstFailure(t)})

trajectory_event_metrics(split, keys) ==
  LET bad == {t \in DOMAIN split : split[t].bad # {}}
      repeated == {t \in bad : Cardinality(split[t].bad) >= 2}
  IN [trajectories |-> Cardinality(DOMAIN split), touched |-> Cardinality(Touched(keys)),
      positive |-> Cardinality(bad), repeated |-> Cardinality(repeated),
      first_failure_covered |-> Cardinality({t \in bad : FirstDeferral(keys, t) <= FirstFailure(split[t])}),
      repeated_failure_covered |->
        Cardinality({t \in repeated : FirstDeferral(keys, t) <= SecondFailure(split[t])}),
      bad_allowed_before_first |-> MapThenSumSet(
        LAMBDA t : Cardinality({i \in split[t].bad : i < FirstDeferral(keys, t)}), bad)]

compute_metrics(split, keys) ==
  LET e == trajectory_event_metrics(split, keys)
      rows == Cardinality(RowKeys(split))
      bad == Cardinality(BadKeys(split))
      caught == Cardinality(keys \cap BadKeys(split))
      deferred == Cardinality(keys)
      burden == Rate(e.touched, e.trajectories)
  IN [rows |-> rows, positives |-> bad,
      row_deferral_rate |-> Rate(deferred, rows), trajectory_burden |-> burden,
      burden_inflation |-> IF deferred = 0 THEN None ELSE Over(burden, Rate(deferred, rows)),
      bad_row_capture |-> RateOr(caught, bad, None),
      first_failure_coverage |-> RateOr(e.first_failure_covered, e.positive, None),
      repeated_failure_coverage |-> RateOr(e.repeated_failure_covered, e.repeated, None),
      allowed_bad_rate |-> RateOr(bad - caught, rows - deferred, None),
      capture_per_touched_trajectory |-> RateOr(caught, e.touched, None),
      first_failure_per_touched_trajectory |-> RateOr(e.first_failure_covered, e.touched, None),
      mean_defers_per_touched_trajectory |-> Rate(deferred, e.touched)]

(* Groups are of whole trajectories: source, length in thirds, number of bad rows. *)
length_buckets_by_trajectory(split) ==
  LET lengths == SetToSortSeq({<<Len(split[t].score), t>> : t \in DOMAIN split},
                              LAMBDA a, b : a[1] < b[1] \/ (a[1] = b[1] /\ a[2] < b[2]))
      cut(k) == lengths[((k * Len(lengths)) \div 3) + 1][1]
  IN [t \in DOMAIN split |-> IF Len(split[t].score) <= cut(1) THEN "short"
                             ELSE IF Len(split[t].score) <= cut(2) THEN "medium" ELSE "long"]
bad_step_group(t) ==
  CASE Cardinality(t.bad) = 0 -> "no_bad_step"
    [] Cardinality(t.bad) = 1 -> "exactly_one_bad_step"
    [] OTHER -> "repeated_bad_steps"
row_in_group(split, t, group) ==
  group \in {"all", split[t].source, length_buckets_by_trajectory(split)[t], bad_step_group(split[t])}
group_metrics(split, keys, group) ==
  LET members == {t \in DOMAIN split : row_in_group(split, t, group)}
  IN compute_metrics([t \in members |-> split[t]], {key \in keys : key[1] \in members})

(***********************************************************************************)
(* Row policies                                                                     *)
(***********************************************************************************)
(* The k-th score from the top, for k = 1 at least: tied scores come along. *)
KthFromTop(pairs, budget) ==
  LET down == SetToSortSeq(pairs, LAMBDA a, b : Less(b[2], a[2]))
  IN IF pairs = {} THEN Infinite
     ELSE down[Max({1, Min({Len(down), CeilingOf(budget, Len(down))})})][2]

choose_score_threshold(split, budget) ==
  KthFromTop({<<key, RowScore(split, key)>> : key \in RowKeys(split)}, budget)
decisions_by_threshold(split, threshold) ==
  {key \in RowKeys(split) : Leq(threshold, RowScore(split, key))}
random_row_decisions(split, budget) == {key \in RowKeys(split) : Less(StableUnit(key), budget)}
trajectory_uniform_decisions(split, budget) ==
  LET order == SetToSortSeq(DOMAIN split, LAMBDA a, b : Less(StableUnit(<<a>>), StableUnit(<<b>>)))
      selected == FirstOf(order, FloorOf(budget, Len(order)))
  IN {key \in RowKeys(split) : key[1] \in selected}

(* The oracles see the labels; one row is theirs whatever the budget. *)
oracle_bad_row_decisions(split, budget) ==
  FirstOf(InRowOrder(BadKeys(split)), Max({1, FloorOf(budget, Cardinality(RowKeys(split)))}))
oracle_first_bad_decisions(split, budget, unit) ==
  LET first == {<<t, FirstFailure(split[t])>> : t \in {t \in DOMAIN split : split[t].bad # {}}}
      n == IF unit = "row" THEN Cardinality(RowKeys(split)) ELSE Cardinality(DOMAIN split)
  IN FirstOf(InRowOrder(first), Max({1, FloorOf(budget, n)}))

(***********************************************************************************)
(* Trajectory policies: select trajectories by an aggregate of their scores, then   *)
(* defer some rows of each.                                                         *)
(***********************************************************************************)
SumOf(scores, S) == FoldSet(LAMBDA i, acc : Plus(acc, scores[i]), Zero, S)
HighestRows(scores, k) ==
  FirstOf(SetToSortSeq(DOMAIN scores, LAMBDA i, j : Less(scores[j], scores[i]) \/ (Same(scores[i], scores[j]) /\ i < j)), k)
LargestOf(S) == CHOOSE r \in S : \A s \in S : Leq(s, r)

trajectory_score(scores, aggregator) ==
  LET top3 == SumOf(scores, HighestRows(scores, 3))
  IN CASE aggregator = "max_score" -> LargestOf(ToSet(scores))
       [] aggregator = "top_3_mean_score" -> Over(top3, <<Cardinality(HighestRows(scores, 3)), 1>>)
       [] aggregator = "sum_top_3_score" -> top3
       [] aggregator = "early_weighted_max_score" ->
            LargestOf({Times(scores[i], <<20, 19 + i>>) : i \in DOMAIN scores})

trajectory_threshold(split, beta, aggregator) ==
  KthFromTop({<<t, trajectory_score(split[t].score, aggregator)>> : t \in DOMAIN split}, beta)
selected_trajectory_ids(split, threshold, aggregator) ==
  {t \in DOMAIN split : Leq(threshold, trajectory_score(split[t].score, aggregator))}

action_rows(scores, action, row_threshold) ==
  LET above == {i \in DOMAIN scores : Leq(row_threshold, scores[i])}
      high == {i \in DOMAIN scores : Leq(Times(LargestOf(ToSet(scores)), <<4, 5>>), scores[i])}
  IN CASE action = "top_1_row" -> HighestRows(scores, 1)
       [] action = "top_2_rows" -> HighestRows(scores, 2)
       [] action = "top_3_rows" -> HighestRows(scores, 3)
       [] action = "first_crossing" -> IF above = {} THEN HighestRows(scores, 1) ELSE {Min(above)}
       [] action = "earliest_high_risk" -> {Min(high)}
       [] action = "all_above_row_threshold" -> above

action_keys(split, selected, action, row_threshold) ==
  UNION {{t} \X action_rows(split[t].score, action, row_threshold) : t \in selected}

(***********************************************************************************)
(* The grid of policies, each with its decisions on both splits                     *)
(***********************************************************************************)
ScoreAggregators == {"max_score", "top_3_mean_score", "sum_top_3_score", "early_weighted_max_score"}
Actions == {"top_1_row", "top_2_rows", "top_3_rows", "first_crossing", "earliest_high_risk", "all_above_row_threshold"}

candidate_row(family, name, cal, test, Decide(_)) ==
  [family |-> family, name |-> name,
   calibration |-> compute_metrics(cal, Decide(cal)), test |-> compute_metrics(test, Decide(test))]

build_policy_grid(cal, test, row_budgets, trajectory_budgets) ==
  LET row_threshold == choose_score_threshold(cal, <<1, 20>>)
      row_policies(rho) ==
        {candidate_row("global_row_threshold", <<rho>>, cal, test,
           LAMBDA split : decisions_by_threshold(split, choose_score_threshold(cal, rho))),
         candidate_row("random_row_deferral", <<rho>>, cal, test, LAMBDA split : random_row_decisions(split, rho)),
         candidate_row("oracle_bad_row_deferral", <<rho>>, cal, test,
           LAMBDA split : oracle_bad_row_decisions(split, rho)),
         candidate_row("oracle_first_bad_row_deferral", <<rho, "row">>, cal, test,
           LAMBDA split : oracle_first_bad_decisions(split, rho, "row"))}
      trajectory_policies(beta) ==
        {candidate_row("trajectory_action", <<beta, a, action>>, cal, test,
           LAMBDA split : action_keys(split, selected_trajectory_ids(split, trajectory_threshold(cal, beta, a), a),
                                      action, row_threshold)) : a \in ScoreAggregators, action \in Actions}
        \cup {candidate_row("trajectory_uniform_random_deferral", <<beta>>, cal, test,
                LAMBDA split : trajectory_uniform_decisions(split, beta)),
              candidate_row("oracle_first_bad_row_deferral", <<beta, "trajectory">>, cal, test,
                LAMBDA split : oracle_first_bad_decisions(split, beta, "trajectory"))}
  IN UNION {row_policies(rho) : rho \in row_budgets} \cup UNION {trajectory_policies(beta) : beta \in trajectory_budgets}

(***********************************************************************************)
(* Selection                                                                        *)
(***********************************************************************************)
Known(rate, default) == IF rate = None THEN default ELSE rate
Capture(m) == Known(m.bad_row_capture, Zero)
Coverage(m) == Known(m.first_failure_coverage, Zero)
OrOne(rate) == IF rate = None \/ rate[1] = 0 THEN One ELSE rate      \* "rate or 1"

(* The best of the candidates by calibration metrics, the first of equals: names   *)
(* stand for the order of the grid.                                                 *)
choose_best(candidates, Key(_)) ==
  {c \in candidates : \A d \in candidates : ~KeyLess(Key(d.calibration), Key(c.calibration))}

(* Mutant: the trajectory budget is forgotten. *)
WithinRowBudget(m, rho, beta) == Leq(m.row_deferral_rate, rho)
WithinBudgets(m, rho, beta) == Leq(m.row_deferral_rate, rho) /\ Leq(m.trajectory_burden, beta)

max_capture_under_dual_budget(candidates, rho, beta) ==
  choose_best({c \in candidates : WithinBudgets(c.calibration, rho, beta)},
    LAMBDA m : <<Negated(Capture(m)), Negated(Coverage(m)), OrOne(m.allowed_bad_rate), m.trajectory_burden>>)
max_first_failure_under_trajectory_budget(candidates, rho, beta) ==
  choose_best({c \in candidates : WithinBudgets(c.calibration, rho, beta)},
    LAMBDA m : <<Negated(Coverage(m)), Negated(Capture(m)), m.trajectory_burden>>)
min_allowed_bad_under_trajectory_budget(candidates, beta) ==
  choose_best({c \in candidates : Leq(c.calibration.trajectory_burden, beta)},
    LAMBDA m : <<Known(m.allowed_bad_rate, One), Negated(Capture(m))>>)
score_utility(m, lambda_row, lambda_traj) ==
  Minus(Plus(Capture(m), Coverage(m)),
        Plus(Times(lambda_row, m.row_deferral_rate), Times(lambda_traj, m.trajectory_burden)))
balanced_utility(candidates, lambda_row, lambda_traj) ==
  choose_best(candidates, LAMBDA m : <<Negated(score_utility(m, lambda_row, lambda_traj))>>)
feasibility_fail_closed(candidates, rho, beta, gamma, eta) ==
  choose_best({c \in candidates : /\ WithinBudgets(c.calibration, rho, beta)
                                  /\ Leq(gamma, Capture(c.calibration)) /\ Leq(eta, Coverage(c.calibration))},
    LAMBDA m : <<Negated(Capture(m)), Negated(Coverage(m))>>)

(* What the selection of c under the limits is recorded as. *)
selected_record(chosen, limits) ==
  IF chosen = {} THEN [no_safe_recommendation |-> TRUE, violations |-> {}]
  ELSE LET test == (CHOOSE c \in chosen : TRUE).test
       IN [no_safe_recommendation |-> FALSE,
           violations |-> {key \in DOMAIN limits : test[key] # None /\ Less(limits[key], test[key])}]

(* An undefined metric is passed over, except that an undefined capture or coverage *)
(* counts as none.                                                                  *)
is_dominated(m, other) ==
  LET low(x) == <<x.allowed_bad_rate, x.row_deferral_rate, x.trajectory_burden>>
      both == {k \in 1..3 : low(m)[k] # None /\ low(other)[k] # None}
  IN /\ Leq(Capture(m), Capture(other)) /\ Leq(Coverage(m), Coverage(other))
     /\ \A k \in both : Leq(low(other)[k], low(m)[k])
     /\ \/ Less(Capture(m), Capture(other)) \/ Less(Coverage(m), Coverage(other))
        \/ \E k \in both : Less(low(other)[k], low(m)[k])

pareto_frontier(candidates) ==
  {c \in candidates : ~\E d \in candidates : is_dominated(c.calibration, d.calibration)}

(* Batch 9H keeps the frontier over the test metrics and recommends on them. *)
recommendation(candidates) ==
  LET adaptive == {c \in candidates : c.family = "trajectory_action"}
      above(rate) == Less(<<1, 10>>, rate)
  IN IF adaptive = {} THEN "not_evaluated"
     ELSE IF \E c \in adaptive : above(Capture(c.test)) \/ above(Coverage(c.test))
     THEN "complement_global_row_thresholding" ELSE "secondary_diagnostic"
===================================================================================
