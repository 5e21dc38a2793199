--------------------------------- MODULE Baselines ---------------------------------
(* The baseline scores and how they are measured.  A set of decision rows is a      *)
(* function from row ids to records; the fields read here are                       *)
(*   trajectory, step   the row's place                                             *)
(*   target             1 when the next step is bad, else 0                         *)
(*   score              the risk score given to the row, higher is riskier          *)
(*   group              the metadata value subgroups are formed by                  *)
(*   length, stage_steps, transitions, seen, kind   what the heuristics look at:    *)
(*                      seen holds the signals counted at least once so far         *)
(* Learned models enter as scores; their fitting is not modelled.                   *)
EXTENDS Calibration

Positives(rows) == {i \in DOMAIN rows : rows[i].target = 1}
Negatives(rows) == DOMAIN rows \ Positives(rows)
ScoresOf(rows)  == {<<i, rows[i].score>> : i \in DOMAIN rows}
Part(rows, ids) == [i \in ids |-> rows[i]]
ScoredBy(rows, Score(_)) == [i \in DOMAIN rows |-> [rows[i] EXCEPT !.score = Score(rows[i])]]
Total(S, Value(_)) == Reduced(FoldSet(LAMBDA i, sum : Reduced(Plus(sum, Value(i))), Zero, S))

quantile_or_zero(bag, q) == IF bag = {} THEN Zero ELSE quantile(bag, q)

(***********************************************************************************)
(* Metrics                                                                          *)
(***********************************************************************************)
Above(rows, threshold) == {i \in DOMAIN rows : Leq(threshold, rows[i].score)}

F1(precision, recall) ==
  LET total == Plus(precision, recall)
  IN IF total[1] = 0 THEN Zero ELSE Over(Times(<<2, 1>>, Times(precision, recall)), total)

precision_recall_f1(rows, threshold) ==
  LET tp == Cardinality(Above(rows, threshold) \cap Positives(rows))
      precision == Rate(tp, Cardinality(Above(rows, threshold)))
      recall == Rate(tp, Cardinality(Positives(rows)))
  IN [tp |-> tp, precision |-> precision, recall |-> recall, f1 |-> F1(precision, recall)]

(* Twice the rank of a row in ascending order; tied rows share their mean rank. *)
TwiceRank(rows, i) ==
  LET Lower == {j \in DOMAIN rows : Less(rows[j].score, rows[i].score)}
      Tied == {j \in DOMAIN rows : Same(rows[j].score, rows[i].score)}
  IN 2 * Cardinality(Lower) + Cardinality(Tied) + 1

rank_auroc(rows) ==
  LET p == Cardinality(Positives(rows))
      n == Cardinality(Negatives(rows))
      ranks == MapThenSumSet(LAMBDA i : TwiceRank(rows, i), Positives(rows))
  IN IF p = 0 \/ n = 0 THEN None ELSE <<ranks - p * (p + 1), 2 * p * n>>

(* Precision after each group of tied scores, weighted by the recall it adds. *)
grouped_average_precision(rows) ==
  LET p == Cardinality(Positives(rows))
      Scores == {Reduced(rows[i].score) : i \in DOMAIN rows}
      Gained(s) == {i \in Positives(rows) : Same(rows[i].score, s)}
      Step(s) == Times(Rate(Cardinality(Gained(s)), p), precision_recall_f1(rows, s).precision)
  IN IF p = 0 THEN None ELSE Total(Scores, Step)

brier_score(rows) ==
  LET Loss(i) == LET e == Minus(rows[i].score, <<rows[i].target, 1>>) IN Times(e, e)
  IN IF DOMAIN rows = {} THEN None
     ELSE Over(Total(DOMAIN rows, Loss), <<Cardinality(DOMAIN rows), 1>>)

(* The default threshold of a learned baseline: the median score of the positives   *)
(* of the training rows, the 95 % quantile of all of them when there is none.       *)
threshold_from_train(rows) ==
  IF Positives(rows) # {} THEN quantile(ScoresOf(Part(rows, Positives(rows))), <<1, 2>>)
  ELSE quantile_or_zero(ScoresOf(rows), <<19, 20>>)

(* A baseline defers the rows at its threshold and above. *)
decision_rates(rows, threshold) ==
  LET deferred == Above(rows, threshold)
      allowed == DOMAIN rows \ deferred
      bad == Positives(rows)
  IN [deferral_rate       |-> Rate(Cardinality(deferred), Cardinality(DOMAIN rows)),
      allowed_bad_rate    |-> Rate(Cardinality(allowed \cap bad), Cardinality(allowed)),
      false_deferral_rate |-> Rate(Cardinality(deferred \ bad), Cardinality(Negatives(rows))),
      bad_step_positive_rate_among_deferred |->
                              Rate(Cardinality(deferred \cap bad), Cardinality(deferred))]

split_metrics(rows, threshold) ==
  [row_count |-> Cardinality(DOMAIN rows), positive_count |-> Cardinality(Positives(rows)),
   positive_rate |-> Rate(Cardinality(Positives(rows)), Cardinality(DOMAIN rows)),
   auroc |-> rank_auroc(rows), average_precision |-> grouped_average_precision(rows),
   brier_score |-> brier_score(rows), threshold |-> threshold,
   classes |-> precision_recall_f1(rows, threshold), rates |-> decision_rates(rows, threshold)]

Groups(rows) == {rows[i].group : i \in DOMAIN rows}
InGroup(rows, g) == Part(rows, {i \in DOMAIN rows : rows[i].group = g})

subgroup_metrics(rows, threshold, min_count) ==
  [g \in {h \in Groups(rows) : Cardinality(DOMAIN InGroup(rows, h)) >= min_count} |->
     split_metrics(InGroup(rows, g), threshold)]

(***********************************************************************************)
(* The heuristics                                                                   *)
(***********************************************************************************)
train_quantiles(train) ==
  LET Lengths == {<<i, <<train[i].length, 1>>>> : i \in DOMAIN train}
      Steps == {<<i, <<train[i].stage_steps, 1>>>> : i \in DOMAIN train}
  IN [prefix_p75 |-> quantile_or_zero(Lengths, <<3, 4>>),
      prefix_p95 |-> Largest(quantile_or_zero(Lengths, <<19, 20>>), One),
      stage_steps_p75 |-> quantile_or_zero(Steps, <<3, 4>>)]

Clipped(a) == AtMostOne(AtLeastZero(a))
Indicator(condition) == IF condition THEN One ELSE Zero

HeuristicNames == {"always_allow", "always_review", "observation_error_keyword_heuristic",
                   "timeout_or_failure_heuristic", "repeated_action_or_observation_heuristic",
                   "long_prefix_heuristic", "stage_transition_or_retry_heuristic"}

heuristic_score(name, train, row) ==
  LET q == train_quantiles(train)
  IN CASE name = "always_allow" -> Zero
       [] name = "always_review" -> One
       [] name = "observation_error_keyword_heuristic" ->
            Indicator(row.seen \cap {"error", "exception"} # {}
                        \/ row.kind \in {"error", "test_failure", "timeout"})
       [] name = "timeout_or_failure_heuristic" ->
            Indicator(row.seen \cap {"timeout", "failure"} # {}
                        \/ row.kind \in {"timeout", "test_failure", "error"})
       [] name = "repeated_action_or_observation_heuristic" ->
            Indicator(row.seen \cap {"repeated_action", "repeated_observation"} # {})
       [] name = "long_prefix_heuristic" -> Clipped(Over(<<row.length, 1>>, q.prefix_p95))
       [] name = "stage_transition_or_retry_heuristic" ->
            Indicator(row.transitions > 0 \/ Leq(q.stage_steps_p75, <<row.stage_steps, 1>>))

heuristic_threshold(name, train) ==
  LET q == train_quantiles(train)
  IN IF name = "long_prefix_heuristic" THEN Clipped(Over(q.prefix_p75, q.prefix_p95)) ELSE Half(One)

(* The dummies know the training prevalence only. *)
prior_scores(train) == Rate(Cardinality(Positives(train)), Cardinality(DOMAIN train))
majority_scores(train) == Indicator(Leq(Half(One), prior_scores(train)))

AllScored(roles, Score(_)) == [role \in DOMAIN roles |-> ScoredBy(roles[role], Score)]

(* Both scripts score every row of every role and measure it at one threshold.      *)
(* roles maps "train", "calibration" and "test" to their rows.                      *)
BaselineReport(scored, threshold, min_count) ==
  [role \in DOMAIN scored |->
     LET rows == scored[role]
     IN [rows |-> rows, metrics |-> split_metrics(rows, threshold),
         subgroups |-> IF role = "train" THEN << >> ELSE subgroup_metrics(rows, threshold, min_count)]]

run_heuristic_baselines(roles, min_count) ==
  [name \in HeuristicNames |->
     BaselineReport(AllScored(roles, LAMBDA row : heuristic_score(name, roles["train"], row)),
                    heuristic_threshold(name, roles["train"]), min_count)]

run_dummy_baselines(roles, min_count) ==
  LET Report(score) ==
        BaselineReport(AllScored(roles, LAMBDA row : score),
          threshold_from_train(ScoredBy(roles["train"], LAMBDA row : score)), min_count)
  IN [name \in {"dummy_prior", "dummy_majority"} |->
        Report(IF name = "dummy_prior" THEN prior_scores(roles["train"])
                                       ELSE majority_scores(roles["train"]))]

(* A learned baseline arrives with its scores; only its threshold is fitted here. *)
evaluate_model(roles, min_count) ==
  BaselineReport(roles, threshold_from_train(roles["train"]), min_count)

(* Every figure of a baseline side by side, and the five best by average precision  *)
(* of the test rows.                                                                *)
extract_rows(report) ==
  [name \in DOMAIN report |->
     [calibration |-> report[name]["calibration"].metrics, test |-> report[name]["test"].metrics]]
BestFirst(rows, ids, Cell(_)) ==
  SetToSortSeq(ids, LAMBDA a, b : Less(Cell(rows[b]), Cell(rows[a])))
compare_baselines(report) ==
  LET rows == extract_rows(report)
      ranked == BestFirst(rows, {n \in DOMAIN rows : rows[n].test.average_precision # None},
                          LAMBDA row : row.test.average_precision)
  IN [rows |-> rows, best_by_test_average_precision |-> SubSeq(ranked, 1, Min({5, Len(ranked)}))]

(* The best heuristic to carry on with.  A precision of 0 or none counts as -1. *)
best_heuristic_name(rows) ==
  LET Candidates == (DOMAIN rows \cap HeuristicNames) \ {"always_allow", "always_review"}
      Precision(n) == LET ap == rows[n].calibration.average_precision
                      IN IF ap = None \/ ap[1] = 0 THEN <<-1, 1>> ELSE ap
  IN {n \in Candidates : \A m \in Candidates : Leq(Precision(m), Precision(n))}
===================================================================================
