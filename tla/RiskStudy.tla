--------------------------------- MODULE RiskStudy ---------------------------------
(* What the study reports of its decisions: how risk concentrates in score deciles, *)
(* whether interventions come early, subgroups, the mismatch between calibration    *)
(* and test rows, and the summaries over targets and seeds.                         *)
EXTENDS RiskControl

(***********************************************************************************)
(* Score deciles                                                                    *)
(***********************************************************************************)
decile_cutpoints(rows) == [q \in 1..9 |-> quantile_or_zero(ScoresOf(rows), <<q, 10>>)]

(* 1 for the lowest scores: one more for every cut point passed, up to the first    *)
(* that is not.                                                                     *)
assign_decile(score, cuts) ==
  LET Stops == {q \in DOMAIN cuts : Leq(score, cuts[q])}
  IN IF Stops = {} THEN 10 ELSE Min(Stops)

decile_records(rows, cuts) ==
  LET From(d) == {i \in DOMAIN rows : assign_decile(rows[i].score, cuts) >= d}
  IN [d \in 1..10 |->
        LET group == From(d) \ From(d + 1)
        IN [rows |-> Cardinality(group), positives |-> Cardinality(group \cap Positives(rows)),
            bad_step_rate |-> RateOr(Cardinality(group \cap Positives(rows)), Cardinality(group), None),
            cumulative_capture |->
              Rate(Cardinality(From(d) \cap Positives(rows)), Cardinality(Positives(rows))),
            cumulative_deferral |-> Rate(Cardinality(From(d)), Cardinality(DOMAIN rows))]]

TopToBottom(top, bottom) ==
  IF top = None \/ bottom = None THEN None ELSE IF bottom[1] = 0 THEN None ELSE Over(top, bottom)

run_decile_analysis(scores) ==
  [c \in Held(scores) \X {"calibration", "test"} |->
     LET deciles == decile_records(scores[c[1]][c[2]], decile_cutpoints(scores[c[1]]["calibration"]))
     IN [deciles |-> deciles,
         top_to_bottom |-> TopToBottom(deciles[10].bad_step_rate, deciles[1].bad_step_rate)]]

(* Over the seeds' splits the capture of "the top 20 %" is read from the first      *)
(* decile, from the top, by which at least a fifth of the rows is deferred.         *)
split_deciles(rows, cuts) ==
  LET deciles == decile_records(rows, cuts)
      Reaching == {d \in 1..10 : Leq(<<1, 5>>, deciles[d].cumulative_deferral)}
      top20 == IF Reaching = {} THEN deciles[1] ELSE deciles[Max(Reaching)]
  IN [deciles |-> deciles,
      top_bottom_ratio |-> TopToBottom(deciles[10].bad_step_rate, deciles[1].bad_step_rate),
      top_10pct_bad_step_capture |-> deciles[10].cumulative_capture,
      top_20pct_bad_step_capture |-> top20.cumulative_capture]
run_repeated_deciles(seeds) ==
  [seed \in DOMAIN seeds |->
     [c \in Held(seeds[seed]) \X {"calibration", "test"} |->
        split_deciles(seeds[seed][c[1]][c[2]], decile_cutpoints(seeds[seed][c[1]]["calibration"]))]]

(* One tenth of the rows at each end, whatever their ties: order is the sorted rows. *)
decile_top_bottom_ratio(rows, order) ==
  LET n == Max({1, (Len(order) + 9) \div 10})
      End(ids) == Rate(Cardinality(ids \cap Positives(rows)), Cardinality(ids))
      bottom == End({order[k] : k \in 1..n})
      top == End({order[k] : k \in (Len(order) - n + 1)..Len(order)})
  IN IF Cardinality(UniqueScores(rows)) < 2 THEN None
     ELSE IF bottom[1] = 0 THEN None ELSE Over(top, bottom)

(***********************************************************************************)
(* Early intervention: decisions[i] is what row i was decided                       *)
(***********************************************************************************)
trajectory_summary(rows, decisions) ==
  LET Trajectory(t) == {i \in DOMAIN rows : rows[i].trajectory = t}
      All == {rows[i].trajectory : i \in DOMAIN rows}
      \* A row's target is about the step after it.
      BadSteps(t) == {rows[i].step + 1 : i \in Trajectory(t) \cap Positives(rows)}
      Defers(t) == {rows[i].step : i \in {j \in Trajectory(t) : decisions[j] = "DEFER"}}
      Both == {t \in All : BadSteps(t) # {} /\ Defers(t) # {}}
      after_first == MapThenSumSet(
        LAMBDA t : Cardinality({s \in BadSteps(t) : s > Min(Defers(t))}), Both)
      total_bad == MapThenSumSet(LAMBDA t : Cardinality(BadSteps(t)), All)
  IN [trajectory_count |-> Cardinality(All),
      any_bad |-> Cardinality({t \in All : BadSteps(t) # {}}),
      any_intervention |-> Cardinality({t \in All : Defers(t) # {}}),
      before_first_bad |-> Cardinality({t \in Both : Min(Defers(t)) < Min(BadSteps(t))}),
      immediately_before |-> Cardinality({t \in Both : Min(Defers(t)) = Min(BadSteps(t)) - 1}),
      within |-> [k \in {0, 1, 2, 3, 5} |->
                    Cardinality({t \in Both : Min(Defers(t)) <= Min(BadSteps(t)) + k})],
      bad_steps_after_first_intervention |-> after_first,
      total_bad_steps_under_always_allow |-> total_bad,
      reduction_in_allowed_bad_steps |-> total_bad - after_first]

(***********************************************************************************)
(* Subgroups of the test decisions; small ones are suppressed                       *)
(***********************************************************************************)
evaluate_subgroups(rows, tau, alpha, min_rows, min_positives) ==
  [g \in Groups(rows) |->
     LET group == InGroup(rows, g)
         sparse == \/ Cardinality(DOMAIN group) < min_rows
                   \/ Cardinality(Positives(group)) < min_positives
     IN [sparse |-> sparse, metrics |-> IF sparse THEN None ELSE decision_metrics(group, tau, alpha)]]

(***********************************************************************************)
(* Calibration against test                                                         *)
(***********************************************************************************)
split_prevalence(roles) ==
  [role \in {r \in DOMAIN roles : DOMAIN roles[r] # {}} |->
     [rows |-> Cardinality(DOMAIN roles[role]), base_risk |-> base_risk(roles[role])]]

ValueShare(rows, g) == Rate(Cardinality(DOMAIN InGroup(rows, g)), Cardinality(DOMAIN rows))
ValueRate(rows, g) ==
  RateOr(Cardinality(Positives(InGroup(rows, g))), Cardinality(DOMAIN InGroup(rows, g)), None)

(* For each value of the field: how its share and its rate of bad rows differ. *)
categorical_distribution(roles) ==
  LET cal == roles["calibration"]
      test == roles["test"]
  IN [g \in UNION {Groups(roles[r]) : r \in DOMAIN roles} |->
        [share_diff |-> Minus(ValueShare(test, g), ValueShare(cal, g)),
         rate_diff |-> IF ValueRate(cal, g) = None \/ ValueRate(test, g) = None THEN None
                       ELSE Minus(ValueRate(test, g), ValueRate(cal, g))]]

(* values maps the roles to the feature's value in each of their rows. *)
numeric_shift(values) ==
  LET mean(of) == Over(Total(DOMAIN of, LAMBDA i : of[i]), <<Cardinality(DOMAIN of), 1>>)
  IN IF DOMAIN values["calibration"] = {} \/ DOMAIN values["test"] = {} THEN None
     ELSE Minus(mean(values["test"]), mean(values["calibration"]))

Weight(entry) ==
  Times(Gap(Zero, entry.share_diff), IF entry.rate_diff = None THEN Zero ELSE Gap(Zero, entry.rate_diff))
top_contributors(categorical, limit) ==
  LET ranked == SetToSortSeq(DOMAIN categorical,
                  LAMBDA g, h : Less(Weight(categorical[h]), Weight(categorical[g])))
  IN SubSeq(ranked, 1, Min({limit, Len(ranked)}))

build_mismatch_audit(roles) ==
  LET prevalence == split_prevalence(roles)
      gap == IF {"calibration", "test"} \subseteq DOMAIN prevalence
             THEN Minus(prevalence["test"].base_risk, prevalence["calibration"].base_risk) ELSE None
  IN [prevalence |-> prevalence, base_risk_gap |-> gap,
      top |-> top_contributors(categorical_distribution(roles), 25),
      needs_repeated_splits |-> gap # None /\ Less(<<1, 200>>, Gap(Zero, gap))]

(***********************************************************************************)
(* Summaries                                                                        *)
(***********************************************************************************)
(* A target is met, violated, or, when nothing was allowed, undefined. *)
Verdict(metrics) ==
  CASE metrics.allowed_bad_rate = None -> "undefined_allowed_risk"
    [] metrics.allowed_bad_rate # None /\ metrics.risk_violation -> "violated"
    [] OTHER -> "met"
target_summary(results, role) ==
  [v \in {"met", "violated", "undefined_allowed_risk"} |->
     Cardinality({c \in DOMAIN results : Verdict(results[c][role].metrics) = v})]

(* The best test row of a target: within it if possible, then the fewest deferrals. *)
best_rows_by_alpha(results, alpha) ==
  LET Cases == {c \in DOMAIN results : c[2] = alpha /\ ~c[3] /\
                 results[c]["test"].metrics.allowed_bad_rate # None}
      Key(c) == LET m == results[c]["test"].metrics
                IN <<Indicator(m.risk_violation), m.deferral_rate, m.allowed_bad_rate>>
  IN {c \in Cases : \A d \in Cases : ~KeyLess(Key(d), Key(c))}
strict_summary(results, alphas) ==
  [met |-> target_summary(results, "calibration"), held |-> target_summary(results, "test"),
   meaningful |-> Cardinality({c \in DOMAIN results :
     LET m == results[c]["calibration"].metrics
     IN Verdict(m) = "met" /\ Less(<<1, 100>>, m.deferral_rate)}),
   best |-> [alpha \in alphas |-> best_rows_by_alpha(results, alpha)]]
relative_summary(results) ==
  {c \in DOMAIN results :
     LET r == results[c]["test"]
     IN ~c[3] /\ r.reduction # None /\ Less(<<1, 20>>, r.reduction) /\ Leq(r.metrics.deferral_rate, Half(One))}
budget_summary(results, budgets) ==
  [b \in budgets |->
     LET Cases == {c \in DOMAIN results : c[2] = b /\ c[1] \notin {"always_allow", "always_review"}}
         Captured(c) == results[c]["test"].metrics.true_deferral_rate
     IN {c \in Cases : \A d \in Cases : Leq(Captured(d), Captured(c))}]

(* Over the seeds: the mean of a figure over the seeds that have one, and the share *)
(* of seeds whose target was not violated.                                          *)
summary_mean(values) ==
  LET Defined == {v \in DOMAIN values : values[v] # None}
  IN IF Defined = {} THEN None
     ELSE Over(Total(Defined, LAMBDA v : values[v]), <<Cardinality(Defined), 1>>)
aggregate_thresholds(results, c, role) ==
  LET Seeds == {s \in DOMAIN results : c \in DOMAIN results[s]}
      Metrics(s) == results[s][c][role].metrics
  IN [allowed_bad_rate |-> summary_mean([s \in Seeds |-> Metrics(s).allowed_bad_rate]),
      deferral_rate |-> summary_mean([s \in Seeds |-> Metrics(s).deferral_rate]),
      risk_met |-> Rate(Cardinality({s \in Seeds : ~Metrics(s).risk_violation}), Cardinality(Seeds))]
aggregate_budget(results, c, role) ==
  LET Seeds == {s \in DOMAIN results : c \in DOMAIN results[s]}
  IN summary_mean([s \in Seeds |-> results[s][c][role].metrics.true_deferral_rate])
aggregate_deciles(results, c) ==
  LET Seeds == {s \in DOMAIN results : c \in DOMAIN results[s]}
  IN [ratio |-> summary_mean([s \in Seeds |-> results[s][c].top_bottom_ratio]),
      top_10pct |-> summary_mean([s \in Seeds |-> results[s][c].top_10pct_bad_step_capture]),
      top_20pct |-> summary_mean([s \in Seeds |-> results[s][c].top_20pct_bad_step_capture])]
===================================================================================
