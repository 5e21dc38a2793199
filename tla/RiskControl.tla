-------------------------------- MODULE RiskControl --------------------------------
(* ALLOW or DEFER by a threshold on the risk score, chosen on the calibration rows: *)
(* a row is allowed when its score is at most tau.  Three selectors choose tau for  *)
(* a target rate of bad rows among the allowed, one for a budget of deferrals, and  *)
(* the studies evaluate what they chose on the calibration and the test rows.       *)
EXTENDS Baselines

CONSTANTS
  WilsonUpper(_, _),   \* the Wilson bound of k bad rows among n allowed ones
  Epsilon              \* less than any gap between two scores

ASSUME WilsonAssumption ==
  \A n \in 1..MaxTrials : \A k \in 0..n :
    Leq(<<k, n>>, WilsonUpper(k, n)) /\ Leq(WilsonUpper(k, n), One)

ASSUME EpsilonAssumption == Epsilon \in (Nat \ {0}) \X (Nat \ {0})

wilson_upper_bound(k, n) == IF n <= 0 THEN Zero ELSE WilsonUpper(k, n)

(***********************************************************************************)
(* Decisions at a threshold                                                         *)
(***********************************************************************************)
Allowed(rows, tau) == {i \in DOMAIN rows : Leq(rows[i].score, tau)}
Deferred(rows, tau) == DOMAIN rows \ Allowed(rows, tau)
BadAllowed(rows, tau) == Allowed(rows, tau) \cap Positives(rows)

allowed_bad_rate(rows, tau) ==
  Rate(Cardinality(BadAllowed(rows, tau)), Cardinality(Allowed(rows, tau)))
allowed_bad_rate_or_none(rows, tau) ==
  RateOr(Cardinality(BadAllowed(rows, tau)), Cardinality(Allowed(rows, tau)), None)
deferral_rate(rows, tau) == Rate(Cardinality(Deferred(rows, tau)), Cardinality(DOMAIN rows))
false_deferral_rate(rows, tau) ==
  Rate(Cardinality(Deferred(rows, tau) \ Positives(rows)), Cardinality(Negatives(rows)))

(* No rate where nothing is allowed, and then no violation of the target either. *)
decision_metrics(rows, tau, alpha) ==
  LET allowed == Allowed(rows, tau)
      deferred == Deferred(rows, tau)
      caught == deferred \cap Positives(rows)
      risk == allowed_bad_rate_or_none(rows, tau)
      precision == Rate(Cardinality(caught), Cardinality(deferred))
      recall == Rate(Cardinality(caught), Cardinality(Positives(rows)))
  IN [tau |-> tau, total_rows |-> Cardinality(DOMAIN rows),
      positives |-> Cardinality(Positives(rows)),
      allowed_count |-> Cardinality(allowed), deferred_count |-> Cardinality(deferred),
      bad_allowed |-> Cardinality(BadAllowed(rows, tau)),
      allowed_bad_rate |-> risk,
      risk_gap |-> IF risk = None THEN None ELSE Minus(risk, alpha),
      risk_violation |-> risk # None /\ Less(alpha, risk),
      deferral_rate |-> deferral_rate(rows, tau),
      false_deferral_rate |-> false_deferral_rate(rows, tau),
      true_deferral_rate |-> recall,
      useful_allowed_rate |-> Rate(Cardinality(allowed \ Positives(rows)), Cardinality(Negatives(rows))),
      defer_precision |-> precision, defer_f1 |-> F1(precision, recall),
      trajectories_with_at_least_one_defer |-> Cardinality({rows[i].trajectory : i \in deferred}),
      average_deferrals_per_trajectory |->
        Rate(Cardinality(deferred), Cardinality({rows[i].trajectory : i \in DOMAIN rows}))]

(* With the reduction against allowing everything. *)
base_risk(rows) == Rate(Cardinality(Positives(rows)), Cardinality(DOMAIN rows))
relative_risk_reduction(rows, metrics) ==
  LET base == base_risk(rows)
  IN IF metrics.allowed_bad_rate = None \/ base[1] = 0 THEN None
     ELSE Over(Minus(base, metrics.allowed_bad_rate), base)
evaluate_rows(rows, tau, alpha) ==
  LET m == decision_metrics(rows, tau, alpha)
  IN [metrics |-> m, base |-> base_risk(rows), reduction |-> relative_risk_reduction(rows, m)]

(***********************************************************************************)
(* The selectors                                                                    *)
(***********************************************************************************)
Lowest(rows)  == quantile(ScoresOf(rows), Zero)
Topmost(rows) == quantile(ScoresOf(rows), One)
BelowAll(rows) == Reduced(Minus(Lowest(rows), Epsilon))
AboveAll(rows) == Reduced(Plus(Topmost(rows), Epsilon))
UniqueScores(rows) == {Reduced(rows[i].score) : i \in DOMAIN rows}

candidate_thresholds(rows) ==
  IF DOMAIN rows = {} THEN {} ELSE {BelowAll(rows), AboveAll(rows)} \cup UniqueScores(rows)

(* The bound a threshold is held to; a threshold that allows nothing always passes. *)
Meets(k, n, alpha, conservative) ==
  n > 0 => Leq(IF conservative THEN wilson_upper_bound(k, n) ELSE <<k, n>>, alpha)

(* Most rows allowed, then the lower risk, then the lower threshold.  The key of    *)
(* nothing allowed has no risk, which counts as below every risk.                   *)
SelectionKey(n, risk, tau) == <<<<-n, 1>>, IF risk = None THEN <<-1, 1>> ELSE risk, tau>>
Chosen(tau, n, risk) ==
  [tau |-> tau, allowed_count |-> n, allowed_bad_rate |-> risk, no_nontrivial |-> n = 0]

select_threshold(rows, alpha, conservative) ==
  LET Count(tau) == Cardinality(Allowed(rows, tau))
      Feasible == {tau \in candidate_thresholds(rows) :
                     Meets(Cardinality(BadAllowed(rows, tau)), Count(tau), alpha, conservative)}
      Key(tau) == SelectionKey(Count(tau), allowed_bad_rate_or_none(rows, tau), tau)
      best == CHOOSE tau \in Feasible : \A other \in Feasible : ~KeyLess(Key(other), Key(tau))
  IN IF DOMAIN rows = {} THEN Chosen(<<-1, 0>>, 0, None)
     ELSE Chosen(best, Count(best), allowed_bad_rate_or_none(rows, best))

(* The same selection from running counts over the sorted rows, without the         *)
(* threshold above every score.                                                     *)
running_counts(rows) ==
  LET scores == Sorted(UniqueScores(rows))
      At(k) == {i \in DOMAIN rows : Same(rows[i].score, scores[k])}
      counts[k \in 0..Len(scores)] ==
        IF k = 0 THEN [tau |-> BelowAll(rows), n |-> 0, bad |-> 0]
        ELSE [tau |-> scores[k],
              n |-> counts[k - 1].n + Cardinality(At(k)),
              bad |-> counts[k - 1].bad + Cardinality(At(k) \cap Positives(rows))]
  IN counts
select_threshold_fast(rows, alpha, conservative) ==
  LET counts == running_counts(rows)
      Feasible == {k \in DOMAIN counts : Meets(counts[k].bad, counts[k].n, alpha, conservative)}
      Key(c) == SelectionKey(c.n, RateOr(c.bad, c.n, None), c.tau)
      best == counts[FirstLeast(counts, Feasible, Key)]
  IN IF DOMAIN rows = {} THEN Chosen(<<-1, 0>>, 0, None)
     ELSE Chosen(best.tau, best.n, RateOr(best.bad, best.n, None))

(* The scaffold's selector: the largest threshold whose rate is within alpha; no    *)
(* rows at all raise.                                                               *)
choose_threshold_for_alpha(rows, alpha) ==
  LET Within == {tau \in UniqueScores(rows) \cup {BelowAll(rows)} :
                   Leq(allowed_bad_rate(rows, tau), alpha)}
  IN CHOOSE tau \in Within : \A other \in Within : Leq(other, tau)

(* Always allowing and always reviewing are not tuned. *)
fixed_policy_threshold(name, rows) ==
  CASE DOMAIN rows # {} /\ name = "always_allow" -> AboveAll(rows)
    [] DOMAIN rows # {} /\ name = "always_review" -> BelowAll(rows)
    [] OTHER -> None

select_threshold_for_alpha(name, rows, alpha, conservative) ==
  LET fixed == fixed_policy_threshold(name, rows)
  IN IF fixed # None THEN fixed ELSE select_threshold(rows, alpha, conservative).tau
repeated_select_threshold(name, rows, alpha, conservative) ==
  LET fixed == fixed_policy_threshold(name, rows)
  IN IF fixed # None THEN fixed ELSE select_threshold_fast(rows, alpha, conservative).tau

(* Mutant: the budget is taken of the distinct scores. *)
threshold_over_distinct_scores(rows, budget) ==
  LET ordered == Sorted(UniqueScores(rows))
      n == Len(ordered)
      d == Min({n, Max({0, Rounded(Times(<<n, 1>>, budget))})})
  IN CASE n = 0 -> Infinite
       [] n > 0 /\ d = 0 -> AboveAll(rows)
       [] n > 0 /\ d = n -> BelowAll(rows)
       [] OTHER -> ordered[n - d]

(* Defer the top share of the calibration scores; scores tied with the last allowed *)
(* one stay allowed.                                                                *)
threshold_for_deferral_budget(rows, budget) ==
  LET ordered == Ascending(ScoresOf(rows))
      n == Len(ordered)
      d == Min({n, Max({0, Rounded(Times(<<n, 1>>, budget))})})
  IN CASE n = 0 -> Infinite
       [] n > 0 /\ d = 0 -> AboveAll(rows)
       [] n > 0 /\ d = n -> BelowAll(rows)
       [] OTHER -> ordered[n - d]
BudgetThreshold(name, rows, budget) ==
  LET fixed == fixed_policy_threshold(name, rows)
  IN IF fixed # None THEN fixed ELSE threshold_for_deferral_budget(rows, budget)

(***********************************************************************************)
(* The studies: scores[name][role] are the rows of a role as a baseline scores them *)
(***********************************************************************************)
Held(scores) == {name \in DOMAIN scores :
                   \A role \in {"calibration", "test"} : DOMAIN scores[name][role] # {}}
OnBoth(roles, tau, alpha) ==
  [role \in {"calibration", "test"} |-> evaluate_rows(roles[role], tau, alpha)]

run_thresholding(scores, alphas) ==
  [c \in Held(scores) \X alphas \X BOOLEAN |->
     OnBoth(scores[c[1]],
            select_threshold_for_alpha(c[1], scores[c[1]]["calibration"], c[2], c[3]), c[2])]
run_strict_alpha(scores, alphas) == run_thresholding(scores, alphas)

(* The target is a share of the calibration rows' own rate of bad rows. *)
run_relative_risk(scores, fractions) ==
  [c \in Held(scores) \X fractions \X BOOLEAN |->
     LET calibration == scores[c[1]]["calibration"]
         target == Times(base_risk(calibration), c[2])
     IN OnBoth(scores[c[1]], select_threshold_for_alpha(c[1], calibration, target, c[3]), target)]

run_budget_analysis(scores, budgets) ==
  [c \in Held(scores) \X budgets |->
     OnBoth(scores[c[1]], BudgetThreshold(c[1], scores[c[1]]["calibration"], c[2]), Zero)]

(* The same over every seed's splits. *)
run_repeated_strict_alpha(seeds, alphas) ==
  [seed \in DOMAIN seeds |->
     [c \in Held(seeds[seed]) \X alphas \X BOOLEAN |->
        OnBoth(seeds[seed][c[1]],
               repeated_select_threshold(c[1], seeds[seed][c[1]]["calibration"], c[2], c[3]), c[2])]]
run_repeated_relative_risk(seeds, fractions) ==
  [seed \in DOMAIN seeds |->
     [c \in Held(seeds[seed]) \X fractions \X BOOLEAN |->
        LET calibration == seeds[seed][c[1]]["calibration"]
            target == Times(base_risk(calibration), c[2])
        IN OnBoth(seeds[seed][c[1]],
                  repeated_select_threshold(c[1], calibration, target, c[3]), target)]]
run_repeated_budget(seeds, budgets) ==
  [seed \in DOMAIN seeds |-> run_budget_analysis(seeds[seed], budgets)]

(* decisions.jsonl: what each row was decided, under each target. *)
decision_record(rows, i, tau) == IF Leq(rows[i].score, tau) THEN "ALLOW" ELSE "DEFER"
Decisions(rows, tau) == [i \in DOMAIN rows |-> decision_record(rows, i, tau)]

(* The sweep over every threshold, thinned to every step-th when there are many. *)
compact_thresholds(rows, max_points) ==
  LET all == Sorted(candidate_thresholds(rows))
      step == Max({1, Len(all) \div max_points})
  IN IF Len(all) <= max_points THEN Range(all)
     ELSE {all[k] : k \in {j \in DOMAIN all : (j - 1) % step = 0}} \cup {all[Len(all)]}
build_frontier(rows, max_points) ==
  {LET m == decision_metrics(rows, tau, Zero)
   IN [tau |-> tau, allowed_bad_rate |-> m.allowed_bad_rate, deferral_rate |-> m.deferral_rate,
       allowed_count |-> m.allowed_count] : tau \in compact_thresholds(rows, max_points)}
===================================================================================
