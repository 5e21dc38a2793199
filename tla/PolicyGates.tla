------------------------------- MODULE PolicyGates -------------------------------
(* May a selected policy be recommended?  Batch 9J describes every selection by its *)
(* calibration support and lets gates accept it or fail closed, batch 9K does the   *)
(* same by stability, and the cost-aware selector of batch 9G answers requests from *)
(* the recorded evidence.                                                            *)
EXTENDS DualUnit

Accept == "ACCEPT_RECOMMENDATION"
FailClosed == "FAIL_CLOSED"
Fallback == "CONSERVATIVE_FALLBACK"
RequireTarget == "REQUIRE_TARGET_CALIBRATION"
NoSupport == "INSUFFICIENT_SUPPORT"
Unstable == "INSUFFICIENT_STABILITY"

(***********************************************************************************)
(* The diagnostic row of a selection.  A selection that chose nothing names no      *)
(* policy, so no support is found for it: its counts are None, and read as 0.       *)
(***********************************************************************************)
join_support(cal, candidates) ==
  [positive_rows |-> Cardinality(BadKeys(cal)), trajectories |-> Cardinality(DOMAIN cal),
   positive_trajectories |-> Cardinality(Touched(BadKeys(cal))),
   feasible |-> Cardinality(candidates), pareto |-> Cardinality(pareto_frontier(candidates))]
NoSupportFound ==
  [positive_rows |-> 0, trajectories |-> 0, positive_trajectories |-> 0, feasible |-> 0, pareto |-> 0]

(* 1 + the selections of the same selector with better calibration metrics. *)
rank_by_calibration(chosen, others) ==
  LET key(m) == <<Negated(Capture(m)), Negated(Coverage(m)), m.trajectory_burden>>
  IN 1 + Cardinality({o \in others : KeyLess(key(o.calibration), key(chosen.calibration))})

margin(value, limit) == IF value = None THEN None ELSE Minus(limit, value)
Drop(before, after, large) == before # None /\ after # None /\ Leq(large, Minus(before, after))

diagnostic_row(chosen, limits, support, rank) ==
  IF chosen = {}
  THEN [no_safe_recommendation |-> TRUE, scenario |-> "iid", support |-> NoSupportFound, rank |-> None,
        margins |-> [key \in DOMAIN limits |-> None], violation |-> FALSE, bad_outcome |-> FALSE,
        capture |-> Zero, coverage |-> Zero]
  ELSE LET c == CHOOSE c \in chosen : TRUE
           violation == selected_record(chosen, limits).violations # {}
       IN [no_safe_recommendation |-> FALSE, scenario |-> "iid", support |-> support, rank |-> <<rank, 1>>,
           margins |-> [key \in DOMAIN limits |-> margin(c.calibration[key], limits[key])],
           violation |-> violation,
           bad_outcome |-> \/ violation
                           \/ Drop(c.calibration.bad_row_capture, c.test.bad_row_capture, <<1, 10>>)
                           \/ Drop(c.calibration.first_failure_coverage, c.test.first_failure_coverage, <<1, 10>>)
                           \/ Drop(c.test.allowed_bad_rate, c.calibration.allowed_bad_rate, <<1, 100>>),
           capture |-> Capture(c.test), coverage |-> Coverage(c.test)]

(***********************************************************************************)
(* The gates of batch 9J                                                            *)
(***********************************************************************************)
Below(row, key, least, default) == key \in DOMAIN row.margins /\ Less(Known(row.margins[key], default), least)

existing_9i_gate(row) == IF row.no_safe_recommendation THEN FailClosed ELSE Accept
minimum_support_gate(row, rows, trajectories, all) ==
  IF \/ row.support.trajectories < all \/ row.support.positive_rows < rows
     \/ row.support.positive_trajectories < trajectories THEN NoSupport
  ELSE IF row.support.feasible <= 0 THEN FailClosed ELSE Accept
margin_gate(row, row_margin, trajectory_margin) ==
  IF \/ row.no_safe_recommendation
     \/ Below(row, "row_deferral_rate", row_margin, <<-1, 1>>)
     \/ Below(row, "trajectory_burden", trajectory_margin, <<-1, 1>>) THEN FailClosed ELSE Accept
feasibility_gate(row, feasible, pareto, rank) ==
  IF \/ row.support.feasible < feasible \/ row.support.pareto < pareto
     \/ Less(<<rank, 1>>, Known(row.rank, <<rank + 1, 1>>)) THEN FailClosed ELSE Accept
shift_gate(row) ==
  IF row.no_safe_recommendation THEN FailClosed
  ELSE IF row.scenario \in {"openhands_stress", "unknown_shift", "framework_shift"}
  THEN IF row.support.positive_trajectories < 10 THEN RequireTarget ELSE Fallback
  ELSE Accept
combined_gate(row) ==
  IF row.no_safe_recommendation THEN FailClosed
  ELSE IF row.support.positive_rows < 50 \/ row.support.positive_trajectories < 10 THEN NoSupport
  ELSE IF row.support.pareto < 10 \/ Below(row, "trajectory_burden", <<1, 50>>, <<-1, 1>>) THEN FailClosed
  ELSE IF row.scenario \in {"openhands_stress", "unknown_shift"} THEN RequireTarget ELSE Accept

gate_suite ==
  {[name |-> "existing_9i_fail_closed"], [name |-> "shift_aware_gate"], [name |-> "combined_transparent_gate"]}
  \cup [name : {"minimum_support"}, rows : {10, 20, 50, 100}, trajectories : {3, 5, 10, 20}]
  \cup [name : {"margin_traj"}, margin : {Zero, <<1, 100>>, <<1, 50>>, <<1, 20>>}]
  \cup [name : {"feasibility_pareto"}, pareto : {5, 10, 20}]

gate_output(gate, row) ==
  CASE gate.name = "existing_9i_fail_closed" -> existing_9i_gate(row)
    [] gate.name = "minimum_support" -> minimum_support_gate(row, gate.rows, gate.trajectories, 20)
    [] gate.name = "margin_traj" -> margin_gate(row, Zero, gate.margin)
    [] gate.name = "feasibility_pareto" -> feasibility_gate(row, 1, gate.pareto, 50)
    [] gate.name = "shift_aware_gate" -> shift_gate(row)
    [] gate.name = "combined_transparent_gate" -> combined_gate(row)

(* The intervention of batch 9J rebuilds the chosen gate from its name, and not     *)
(* always the same one; a name it does not know is the 9I behaviour.                *)
apply_gate(gate, row) ==
  IF row.no_safe_recommendation THEN FailClosed
  ELSE CASE gate.name = "shift_aware_gate" ->
              IF row.scenario \in {"openhands_stress", "unknown_shift"} THEN RequireTarget
              ELSE IF row.scenario \in {"framework_shift", "source_shift"} THEN Fallback ELSE Accept
         [] gate.name = "margin_traj" -> margin_gate(row, Zero, gate.margin)
         [] gate.name = "feasibility_pareto" -> IF row.support.pareto < gate.pareto THEN FailClosed ELSE Accept
         [] gate.name = "combined_transparent_gate" -> combined_gate(row)
         [] OTHER -> Accept

(* A list of rows under a gate; rates over no row are None. *)
evaluate_gate(rows, gate) ==
  LET out(i) == gate_output(gate, rows[i])
      accepted == {i \in DOMAIN rows : out(i) = Accept}
      failed == DOMAIN rows \ accepted
      useful(i) == Leq(<<1, 10>>, rows[i].capture) \/ Leq(<<1, 10>>, rows[i].coverage)
      rate(S, T) == RateOr(Cardinality(S), Cardinality(T), None)
  IN [gate |-> gate, accepted |-> rate(accepted, DOMAIN rows), failed |-> rate(failed, DOMAIN rows),
      violation |-> rate({i \in accepted : rows[i].violation}, accepted),
      bad_outcome |-> rate({i \in accepted : rows[i].bad_outcome}, accepted),
      false_reject |-> rate({i \in failed : ~rows[i].violation /\ useful(i)}, failed),
      capture |-> IF accepted = {} THEN None
                  ELSE Over(FoldSet(LAMBDA i, acc : Plus(acc, rows[i].capture), Zero, accepted),
                            <<Cardinality(accepted), 1>>)]

(* The least violations among the accepted on the test split, then the most         *)
(* accepted, then the most captured.                                                *)
best_gates(rows, gates) ==
  LET results == {evaluate_gate(rows, gate) : gate \in gates}
      viable == {r \in results : r.violation # None /\ Less(<<1, 20>>, r.accepted)}
      key(r) == <<r.violation, r.failed, Negated(r.capture)>>
  IN {r.gate : r \in {r \in viable : \A s \in viable : ~KeyLess(key(s), key(r))}}

(***********************************************************************************)
(* The gates of batch 9K, on the bootstrap statistics of the same rows              *)
(***********************************************************************************)
gate_existing_9j(row) ==
  IF row.no_safe_recommendation \/ Below(row, "trajectory_burden", Zero, Zero) THEN FailClosed ELSE Accept

stability_settings ==
  [conservative |-> [feasible |-> <<9, 10>>, match |-> <<4, 5>>, fragility |-> <<6, 1000>>],
   balanced |-> [feasible |-> <<7, 10>>, match |-> <<3, 5>>, fragility |-> <<9, 1000>>],
   permissive |-> [feasible |-> <<1, 2>>, match |-> <<2, 5>>, fragility |-> <<12, 1000>>]]

(* boot is [feasible, match, entropy, gini, fragility, burden], burden a quantile   *)
(* minus the requested trajectory budget, None without one.                         *)
OverBudget(boot) == boot.burden # None /\ Less(Zero, boot.burden)
stability_gate(kind, limit, row, boot) ==
  LET unstable == CASE kind = "burden" -> OverBudget(boot)
                    [] kind = "feasible" -> Less(boot.feasible, limit)
                    [] kind = "match" -> Less(boot.match, limit)
                    [] kind = "entropy" -> Less(limit, boot.entropy)
                    [] kind = "fragility" -> Less(limit, boot.fragility)
                    [] OTHER -> FALSE
  IN IF row.no_safe_recommendation THEN FailClosed
     ELSE IF unstable THEN Unstable
     ELSE IF kind = "gini" /\ Less(boot.gini, limit) THEN Fallback ELSE Accept
composite_gate(mode, row, boot) ==
  LET least == stability_settings[mode]
  IN IF row.no_safe_recommendation THEN FailClosed
     ELSE IF row.scenario \in {"openhands_stress", "unknown_shift"} /\ row.support.positive_trajectories < 5
     THEN RequireTarget
     ELSE IF \/ Less(boot.feasible, least.feasible) \/ Less(boot.match, least.match)
             \/ Less(least.fragility, boot.fragility) \/ OverBudget(boot) THEN Unstable
     ELSE Accept

(***********************************************************************************)
(* The cost-aware selector.  An absent constraint, count or metric is None; status  *)
(* is what the caller says of the calibration support.                              *)
(***********************************************************************************)
CONSTANT Evidence(_)        \* what the reports recorded of a policy: [capture, burden], each a rate or None

NoTradeoff == [capture |-> None, burden |-> None]

_support_is_sufficient(support, target) ==
  LET least == IF target = "next_step_unuseful" THEN 5 ELSE 20
  IN \/ support.status = "sufficient"
     \/ /\ support.status \notin {"sufficient", "sparse", "unavailable"}
        /\ IF support.positive_rows = None THEN target # "next_step_unuseful"
           ELSE /\ Leq(<<least, 1>>, support.positive_rows)
                /\ support.positive_trajectories # None => Leq(<<3, 1>>, support.positive_trajectories)

recommend(family, tradeoff) == [family |-> family, tradeoff |-> tradeoff, no_safe_recommendation |-> FALSE]
refuse(family) == [family |-> family, tradeoff |-> NoTradeoff, no_safe_recommendation |-> TRUE]

_apply_constraint_checks(result, constraints) ==
  LET short == /\ constraints.min_capture # None /\ result.tradeoff.capture # None
               /\ Less(result.tradeoff.capture, constraints.min_capture)
      costly == /\ constraints.max_burden # None /\ result.tradeoff.burden # None
                /\ Less(constraints.max_burden, result.tradeoff.burden)
  IN [result EXCEPT !.no_safe_recommendation = @ \/ short \/ (costly /\ constraints.require_support)]

Positive(rate) == rate # None /\ Less(Zero, rate)
Shifted == {"source_shift", "framework_shift", "openhands_stress", "unknown_shift"}

select_intervention_policy(objective, target, context, constraints, support) ==
  IF constraints.require_support /\ ~_support_is_sufficient(support, target) THEN refuse("conservative_fallback")
  ELSE
  CASE objective \in {"row_budget", "balanced_default"} /\ context = "iid_repeated" ->
         _apply_constraint_checks(
           recommend("global_row_threshold",
                     IF target = "next_step_unuseful" THEN NoTradeoff ELSE Evidence("iid_fixed_budget")), constraints)
    [] objective \in {"trajectory_budget", "early_warning"} ->
         [recommend("trajectory_budgeted_first_crossing",
                    [capture |-> None, burden |-> Known(constraints.max_burden, <<1, 4>>)])
          EXCEPT !.no_safe_recommendation = constraints.min_capture # None /\ Less(<<1, 10>>, constraints.min_capture)]
    [] objective = "strict_alpha" -> recommend("strict_alpha_threshold", NoTradeoff)
    [] objective = "heldout_shift" \/ (objective \in {"row_budget", "balanced_default"} /\ context \in Shifted) ->
         IF context \in {"openhands_stress", "unknown_shift"} /\ ~support.target_available
         THEN [recommend("conservative_fallback", Evidence("heldout_openhands"))
               EXCEPT !.no_safe_recommendation = Positive(constraints.min_capture) \/ Positive(constraints.max_burden)]
         ELSE _apply_constraint_checks(recommend("global_row_threshold", Evidence("heldout_shift")), constraints)
    [] objective = "target_domain_adaptation" ->
         IF ~support.target_available \/ ~constraints.allow_adaptation THEN refuse("conservative_fallback")
         ELSE _apply_constraint_checks(recommend("target_domain_adaptation", Evidence("target_domain")), constraints)
    [] OTHER -> refuse("no_safe_recommendation")
==================================================================================
