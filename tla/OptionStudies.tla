------------------------------- MODULE OptionStudies -------------------------------
(* The drivers of batches T-3 to T-7: Option A and Option C on the policy grid of    *)
(* batch 9N, on synthetic splits and on the clean threshold grids, the tables the    *)
(* drivers aggregate their outcomes into, and the comparisons read from them.        *)
(* A trajectory of the theory's scores has a field generic besides score: the scores *)
(* of the generic next-step model, row by row.  Trajectory ids are numbers.          *)
EXTENDS EventPolicies

(***********************************************************************************)
(* The row-level scores and the clean grids                                         *)
(***********************************************************************************)
CleanProtocols == {"fixed_score_threshold_grid", "train_score_quantiles",
                   "split_calibration_grid_then_risk", "calibration_score_quantiles"}
ScoreFamilies == {"ff_exact_hgb_interactions", "generic_bad_logistic_history",
                  "hybrid_exact_product"}

(* Scores are rescaled by the range of the train rows, not clipped to it. *)
norm_values(split, train) ==
  LET scores == {p[2] : p \in AllScores(train)}
      low == CHOOSE v \in scores : \A w \in scores : Leq(v, w)
      high == CHOOSE v \in scores : \A w \in scores : Leq(w, v)
      Normal(t, i) == IF scores = {} THEN t.score[i]
                      ELSE IF Leq(high, low) THEN Zero
                      ELSE Over(Minus(t.score[i], low), Minus(high, low))
  IN Rescored(split, Normal)

Generic(split) == [t \in DOMAIN split |-> [split[t] EXCEPT !.score = split[t].generic]]
hybrid_emit(ff, generic) ==
  [t \in DOMAIN ff |-> [ff[t] EXCEPT !.score =
     [i \in DOMAIN @ |-> Reduced(Times(@[i], generic[t].score[i]))]]]

regenerate_theory_row_level_scores(roles) ==
  LET Normal(split) == norm_values(split, roles.train)
      GenericOf(split) == norm_values(Generic(split), Generic(roles.train))
  IN [family \in ScoreFamilies |-> [r \in DOMAIN roles |->
        CASE family = "ff_exact_hgb_interactions" -> Normal(roles[r])
          [] family = "generic_bad_logistic_history" -> GenericOf(roles[r])
          [] family = "hybrid_exact_product" -> hybrid_emit(Normal(roles[r]), GenericOf(roles[r]))]]

(* The calibration trajectories are halved by a hash of their ids. *)
stable_calibration_role(t) == IF t % 2 = 0 THEN "grid_calibration" ELSE "risk_calibration"
HalfOf(split, half) ==
  [t \in {u \in DOMAIN split : stable_calibration_role(u) = half} |-> split[t]]

GridOf(bag, quantiles) == build_threshold_grid(bag, quantiles)
build_theory_threshold_grids(scores, fixed, quantiles) ==
  [protocol \in CleanProtocols |->
     CASE protocol = "fixed_score_threshold_grid" -> fixed
       [] protocol = "train_score_quantiles" -> GridOf(AllScores(scores.train), quantiles)
       [] protocol = "split_calibration_grid_then_risk" ->
            GridOf(AllScores(HalfOf(scores.calibration, "grid_calibration")), quantiles)
       [] protocol = "calibration_score_quantiles" ->
            GridOf(AllScores(scores.calibration), quantiles)]

split_rows_for_protocol(scores, protocol, role) ==
  IF protocol = "split_calibration_grid_then_risk" /\ role = "calibration"
  THEN HalfOf(scores.calibration, "risk_calibration") ELSE scores[role]

(***********************************************************************************)
(* Outcomes and their aggregates                                                     *)
(***********************************************************************************)
(* One row of a result table: a selection and the test metrics of its threshold. *)
Outcome(selection, test, success) ==
  [no_safe |-> selection.no_safe, threshold |-> selection.threshold,
   miss |-> IF selection.no_safe THEN None ELSE test.miss,
   burden |-> IF selection.no_safe THEN None ELSE test.burden,
   success |-> ~selection.no_safe /\ success]

MeanOver(rows, ids, Cell(_)) ==
  LET order == SetToSeq({<<i, Cell(rows[i])>> : i \in ids})
  IN IF ids = {} THEN None ELSE Mean([k \in DOMAIN order |-> order[k][2]])
Share(ids, all) == Rate(Cardinality(ids), Cardinality(all))

(* The summary of a group of outcomes; the means are over the feasible ones. *)
aggregate(rows, ids) ==
  LET feasible == {i \in ids : ~rows[i].no_safe}
      MissCell(row) == row.miss
      BurdenCell(row) == row.burden
      Hit(row) == IF row.success THEN One ELSE Zero
  IN [rows |-> Cardinality(ids),
      no_safe_rate |-> Share(ids \ feasible, ids),
      feasible_rate |-> Share(feasible, ids),
      mean_miss |-> MeanOver(rows, feasible, MissCell),
      mean_burden |-> MeanOver(rows, feasible, BurdenCell),
      success_rate |-> MeanOver(rows, feasible, Hit)]

(* The summary that refused least, then warned least; no feasible row counts as 9. *)
RefusalKey(summary) ==
  <<summary.no_safe_rate, IF summary.mean_burden = None THEN <<9, 1>> ELSE summary.mean_burden>>
BestOf(summaries) ==
  LET keys == {RefusalKey(summaries[k]) : k \in DOMAIN summaries}
  IN CHOOSE s \in {summaries[k] : k \in DOMAIN summaries} :
       \A key \in keys : ~KeyLess(key, RefusalKey(s))

(* A cell (alpha, beta) is feasible when some row is, realistic when more than one   *)
(* in twenty is and nine in ten of those keep both limits on the test split.         *)
FeasibleCells(region) == {cell \in DOMAIN region : Less(Zero, region[cell].feasible_rate)}
RealisticCells(region) ==
  {cell \in DOMAIN region :
     /\ Less(<<1, 20>>, region[cell].feasible_rate)
     /\ region[cell].success_rate # None
     /\ Leq(<<9, 10>>, region[cell].success_rate)}

(***********************************************************************************)
(* Clean grids                                                                       *)
(***********************************************************************************)
MeetsA(alpha, test) == Leq(test.miss, alpha)
MeetsC(alpha, beta, test) == Leq(test.miss, alpha) /\ Leq(test.burden, beta)

(* One grid's outcome.  An empty calibration table raises: the grid is never empty. *)
CleanTable(scores, grids, protocol, role) ==
  build_threshold_table(split_rows_for_protocol(scores, protocol, role), grids[protocol])
evaluate_option_a_clean_grids(scores, grids, protocol, alpha, correction) ==
  LET selection == option_a_select_threshold(
                     CleanTable(scores, grids, protocol, "calibration"), alpha, correction)
      test == evaluate_threshold_table(scores.test, grids[protocol])
      test_row == IF selection.no_safe THEN None
                  ELSE evaluate_selected_threshold(test, selection.threshold)
  IN Outcome(selection, test_row, MeetsA(alpha, test_row))
evaluate_option_c_clean_grids(scores, grids, protocol, alpha, beta, correction) ==
  LET selection == option_c_select_threshold(
                     CleanTable(scores, grids, protocol, "calibration"), alpha, beta, correction)
      test == evaluate_threshold_table(scores.test, grids[protocol])
      test_row == IF selection.no_safe THEN None
                  ELSE evaluate_selected_threshold(test, selection.threshold)
  IN Outcome(selection, test_row, MeetsC(alpha, beta, test_row))

(* The nested families: which score family each takes and how it transforms it. *)
NestedFamilies == {"single_score_first_crossing", "cumulative_hazard_first_crossing",
                   "hybrid_score_first_crossing", "early_weighted_first_crossing",
                   "generic_history_first_crossing"}
family_rows(family) ==
  CASE family = "hybrid_score_first_crossing" -> {"hybrid_exact_product"}
    [] family = "generic_history_first_crossing" -> {"generic_bad_logistic_history"}
    [] OTHER -> ScoreFamilies

(* A running sum that is not floored at zero, unlike cumulative_scores; the early    *)
(* weight divides by 1 + 0.03 * i.                                                   *)
transform_rows(split, family) ==
  LET Running(t, i) == Sum(SubSeq(t.score, 1, i))
      Early(t, i) == Reduced(Over(t.score[i], <<100 + 3 * (i - 1), 100>>))
  IN CASE family = "cumulative_hazard_first_crossing" -> Rescored(split, Running)
       [] family = "early_weighted_first_crossing" -> Rescored(split, Early)
       [] OTHER -> split

(* Burden never grows and miss never shrinks along the grid. *)
nested_clean(table) ==
  \A k \in 2..Len(table) : /\ Leq(table[k].burden, table[k - 1].burden)
                           /\ Leq(table[k - 1].miss, table[k].miss)

evaluate_nested_families_clean_grids(scores, family, quantiles, alpha, beta) ==
  LET train == transform_rows(scores.train, family)
      grid == GridOf(AllScores(train), quantiles)
      table == build_threshold_table(transform_rows(scores.calibration, family), grid)
  IN [nested |-> nested_clean(table),
      option_a |-> option_a_select_threshold(table, alpha, "clopper_pearson_union"),
      option_c |-> option_c_select_threshold(table, alpha, beta, "clopper_pearson_union")]

(***********************************************************************************)
(* The policy grid of batch 9N                                                       *)
(***********************************************************************************)
(* The trajectories the split file assigns to calibration, and those of them with a  *)
(* bad row in the target file: the trials of every bound on the policy grid.  The    *)
(* rates in the grid were taken over the trajectories that have rows.                *)
option_split_counts(assigned, bad) ==
  [calibration_trajectories |-> Cardinality(assigned),
   calibration_positive_trajectories |-> Cardinality(assigned \cap bad)]

(* A cell of the csv: an empty one reads 0. *)
CellOf(value) == IF value = None THEN Zero ELSE value

PolicyGroup(table, variant) ==
  LET quantiles == SetToSortSeq({table[k].quantile : k \in
                      {j \in DOMAIN table : table[j].variant = variant}}, Less)
      RowAt(q) == table[Min({k \in DOMAIN table :
                     table[k].variant = variant /\ table[k].quantile = q})]
  IN [k \in DOMAIN quantiles |-> RowAt(quantiles[k])]

(* Thresholds are quantile levels here.  Option A is given no count to fall back to. *)
PolicyTable(group, n_miss, n_burden) ==
  [k \in DOMAIN group |->
     [threshold |-> group[k].quantile, order |-> k, n_miss |-> n_miss, n_burden |-> n_burden,
      miss |-> CellOf(group[k].calibration.missed),
      burden |-> CellOf(group[k].calibration.trajectory_burden),
      false_alarm |-> CellOf(group[k].calibration.false_alarm),
      pre |-> CellOf(group[k].calibration.pre_failure),
      lead |-> CellOf(group[k].calibration.mean_lead_time)]]
PolicyTest(group, threshold) ==
  LET row == group[Min({k \in DOMAIN group : group[k].quantile = threshold})]
  IN [miss |-> CellOf(row.test.missed), burden |-> CellOf(row.test.trajectory_burden)]

(* T-3 uses Hoeffding's bound, T-4 each correction. *)
option_a_on_policy_grid(group, counts, alpha, correction) ==
  LET selection == option_a_select_threshold(
                     PolicyTable(group, counts.calibration_positive_trajectories, 0), alpha, correction)
      test_row == IF selection.no_safe THEN None
                  ELSE PolicyTest(group, selection.threshold)
  IN Outcome(selection, test_row, MeetsA(alpha, test_row))
evaluate_option_c_real_data(group, counts, alpha, beta, correction) ==
  LET selection == option_c_select_threshold(
                     PolicyTable(group, counts.calibration_positive_trajectories,
                                 counts.calibration_trajectories), alpha, beta, correction)
      test_row == IF selection.no_safe THEN None
                  ELSE PolicyTest(group, selection.threshold)
  IN Outcome(selection, test_row, MeetsC(alpha, beta, test_row))

(* The score families a policy table must have before Option A runs on it. *)
validate_scores(families) ==
  /\ families \cap {"ff_exact_hgb_interactions", "hybrid_exact_product"} # {}
  /\ "generic_bad_logistic_history" \in families

(* Why a cell's empirically feasible rows are lost to the correction. *)
candidate_rows(group, counts, alpha, beta, correction) ==
  LET table == PolicyTable(group, counts.calibration_positive_trajectories,
                           counts.calibration_trajectories)
  IN [k \in DOMAIN table |->
        LET bounds == compute_dual_loss_bounds(table[k], correction, Len(table))
            empirical == Leq(table[k].miss, alpha) /\ Leq(table[k].burden, beta)
            high_miss == Less(alpha, bounds.miss_upper)
            high_burden == Less(beta, bounds.burden_upper)
        IN [empirical |-> empirical, corrected |-> ~high_miss /\ ~high_burden,
            lost_to_miss |-> empirical /\ high_miss /\ ~high_burden,
            lost_to_burden |-> empirical /\ ~high_miss /\ high_burden,
            lost_to_both |-> empirical /\ high_miss /\ high_burden]]
summarize(rows) ==
  LET Of(ids) == Cardinality(ids)
      empirical == {k \in DOMAIN rows : rows[k].empirical}
      corrected == {k \in DOMAIN rows : rows[k].corrected}
      lost == {k \in DOMAIN rows : rows[k].lost_to_miss \/ rows[k].lost_to_burden \/ rows[k].lost_to_both}
  IN [empirical |-> Of(empirical), corrected |-> Of(corrected),
      feasibility_lost |-> Of(empirical) - Of(corrected), lost |-> Of(lost)]

(* Which variants are nested on the calibration split, quantile by quantile. *)
monotonicity(group) == nested_clean(PolicyTable(group, 0, 0))

(***********************************************************************************)
(* Comparisons                                                                       *)
(***********************************************************************************)
(* The rows of one alpha (or beta) that selected something, averaged.  An alpha with *)
(* no selection at all has no row.                                                   *)
option_a_rows(outcomes, alphas, alpha_of) ==
  LET At(alpha) == {i \in DOMAIN outcomes : alpha_of[i] = alpha}
      shown == {alpha \in alphas : \E i \in At(alpha) : ~outcomes[i].no_safe}
  IN [alpha \in shown |-> aggregate(outcomes, At(alpha))]
option_c_band_rows(outcomes, betas, beta_of) ==
  LET At(beta) == {i \in DOMAIN outcomes : beta_of[i] = beta /\ ~outcomes[i].no_safe}
  IN [beta \in {b \in betas : At(b) # {}} |-> aggregate(outcomes, At(beta))]

(* A baseline of the policy grid: the rows of its variants within half the burden on *)
(* the test split, or all of them when there is none.                                *)
policy_table_baselines(table, variants) ==
  LET subset == {k \in DOMAIN table : table[k].variant \in variants}
      band == {k \in subset : Leq(table[k].test.trajectory_burden, <<1, 2>>)}
  IN IF band = {} THEN subset ELSE band

(* T-3's stress diagnostics: refusals per alpha and the feasible rows of high burden. *)
summarize_option_a_by_alpha_score(outcomes, alphas, alpha_of) ==
  LET feasible == {i \in DOMAIN outcomes : ~outcomes[i].no_safe}
      At(alpha) == {i \in DOMAIN outcomes : alpha_of[i] = alpha}
  IN [no_safe |-> Share(DOMAIN outcomes \ feasible, DOMAIN outcomes),
      high_burden |-> Share({i \in feasible : Less(<<1, 2>>, outcomes[i].burden)}, feasible),
      by_alpha |-> [alpha \in alphas |-> Share(At(alpha) \ feasible, At(alpha))]]

(***********************************************************************************)
(* Synthetic splits                                                                  *)
(***********************************************************************************)
(* The three synthetic studies draw their splits at random, under a scenario that    *)
(* may shift the test split; a draw here is any pair of splits of the scenario.      *)
evaluate_option_a_synthetic(cal, test, quantiles, alpha, correction) ==
  LET grid == build_threshold_grid(AllScores(cal), quantiles)
      table == build_calibration_table(cal, grid)
      selection == option_a_select_threshold(table, alpha, correction)
      test_row == IF selection.no_safe THEN None
                  ELSE evaluate_selected_threshold(build_calibration_table(test, grid),
                      selection.threshold)
  IN Outcome(selection, test_row, MeetsA(alpha, test_row))
evaluate_option_c_synthetic(cal, test, quantiles, alpha, beta, correction) ==
  LET grid == build_threshold_grid(AllScores(cal), quantiles)
      table == build_calibration_table(cal, grid)
      selection == option_c_select_threshold(table, alpha, beta, correction)
      test_row == IF selection.no_safe THEN None
                  ELSE evaluate_option_c_threshold(build_calibration_table(test, grid),
                      selection.threshold)
  IN Outcome(selection, test_row, MeetsC(alpha, beta, test_row))

(* Which of the two splits a scenario shifts.  Option C's wrapper shifts whatever    *)
(* split it draws for calibration_test_shift.                                        *)
generate_split(scenario, shifted) == scenario = "calibration_test_shift" /\ shifted
OptionAShift(scenario) ==
  [calibration |-> generate_split(scenario, FALSE),
   test |-> generate_split(scenario, scenario = "calibration_test_shift")]
synth_split(scenario, shifted) ==
  generate_split(scenario, shifted \/ scenario = "calibration_test_shift")
OptionCShift(scenario) ==
  [calibration |-> synth_split(scenario, FALSE),
   test |-> synth_split(scenario, scenario = "calibration_test_shift")]

(* T-12's and T-17's splits have one score per trajectory.  They differ on the miss  *)
(* rate of a split without a bad trajectory: 0 in T-12, 1 in T-17.                   *)
ScoredTable(split, grid, no_bad_miss) ==
  LET bad == {t \in DOMAIN split : split[t].bad # {}}
      Warned(k) == {t \in DOMAIN split : Leq(grid[k], split[t].level)}
  IN [k \in DOMAIN grid |->
        [threshold |-> grid[k], order |-> k,
         n_miss |-> Cardinality(bad), n_burden |-> Cardinality(DOMAIN split),
         miss |-> IF bad = {} THEN no_bad_miss
                  ELSE Minus(One, Share(Warned(k) \cap bad, bad)),
         burden |-> Share(Warned(k), DOMAIN split),
         false_alarm |-> Share(Warned(k) \ bad, DOMAIN split \ bad),
         pre |-> Share(Warned(k) \cap bad, bad), lead |-> None]]
_table(split, grid) == ScoredTable(split, grid, Zero)
build_loss_table(split, grid) == ScoredTable(split, grid, One)

ControllerOn(Table(_, _), cal, test, grid, alpha, beta) ==
  LET prev == estimate_first_failure_prevalence(cal)
  IN feasibility_aware_select_policy(Table(cal, grid), alpha, beta, prev.p_hat,
       clopper_pearson_lower_bound(prev.k_first_failure, prev.n), Table(test, grid))
evaluate_T12_feasibility_aware_synthetic(cal, test, grid, alpha, beta) ==
  ControllerOn(_table, cal, test, grid, alpha, beta)
evaluate_T17_synthetic_theorem_demonstration(cal, test, grid, alpha, beta) ==
  ControllerOn(build_loss_table, cal, test, grid, alpha, beta)

(* T-12's verdict on a reason, given the scenario's type.  A reason the controller   *)
(* gives for a scenario of shifted or mixed type is always right.                    *)
reason_correct(truth, reason) ==
  CASE truth = "structural" -> reason = "structurally_infeasible_by_first_failure_prevalence"
    [] truth = "score_limited" -> reason \in {"empirical_infeasible", "correction_blocked"}
    [] truth = "correction" -> reason \in {"correction_blocked", "selected_corrected_feasible_policy"}
    [] truth = "selected" -> reason = "selected_corrected_feasible_policy"
    [] truth \in {"shift", "structural_or_high_burden"} -> TRUE

(***********************************************************************************)
(* The verdicts of T-11, T-12 and T-16 on a cell                                     *)
(***********************************************************************************)
(* T-12's class of a cell: the structural verdicts first, the taxonomy's otherwise. *)
analyze_T12_oracle_gap_with_structural_bound(certified_rate, empirical_rate, class) ==
  IF Less(<<1, 2>>, certified_rate) THEN "structurally_certified_impossible"
  ELSE IF Less(<<1, 2>>, empirical_rate) THEN "structurally_likely_impossible"
  ELSE IF class = "oracle_feasible_but_learned_uncorrected_infeasible"
  THEN "oracle_feasible_but_learned_score_or_policy_limited"
  ELSE IF class = "learned_corrected_feasible_and_test_successful" THEN "learned_corrected_feasible"
  ELSE class

analyze_T11_diagnostic_utility(class) ==
  CASE class = "structurally_impossible" -> "relax alpha or beta"
    [] class = "structurally_possible_but_oracle_infeasible" -> "review timing convention"
    [] class = "oracle_feasible_but_learned_uncorrected_infeasible" -> "improve score or policy"
    [] class = "learned_empirical_feasible_but_correction_blocked" -> "collect more calibration"
    [] class \in {"learned_corrected_feasible", "learned_corrected_feasible_and_test_successful"} ->
         "candidate calibrated policy"

(* T-16's table of a cell: the budget left above the structural bound. *)
excess_burden_allowance(alpha, beta, p_hat) ==
  Minus(beta, structural_burden_lower_bound(alpha, p_hat))
====================================================================================
