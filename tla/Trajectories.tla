------------------------------- MODULE Trajectories -------------------------------
(* Exact rates, the rows of a split, and what the study measures on them.  A split  *)
(* is a function from trajectory ids to records                                     *)
(*   score  the risk score of each decision row, in row order                       *)
(*   bad    the positions of the rows with next_step_bad = 1                        *)
(* A warning policy turns a split into the set of rows it warns at, or into the     *)
(* time of its first warning; Never stands for math.inf.                            *)
EXTENDS Integers, FiniteSets, Sequences, FiniteSetsExt

CONSTANT MaxRows            \* rows of the longest trajectory
ASSUME MaxRowsAssumption == MaxRows \in Nat

-----------------------------------------------------------------------------------
(* Exact rates: a rate is a pair <<numerator, denominator>> with a positive         *)
(* denominator, in place of the floats of the scripts, whose only use here is       *)
(* comparison.  None is a cell that holds no number (Python's None).                *)

None == << >>
Zero == <<0, 1>>
One  == <<1, 1>>
Infinite == <<1, 0>>        \* math.inf: above every rate

(* k / n, and the default the scripts fall back to when the denominator is empty. *)
RateOr(k, n, default) == IF n = 0 THEN default ELSE <<k, n>>
Rate(k, n) == RateOr(k, n, Zero)

Leq(a, b)  == a[1] * b[2] <= b[1] * a[2]
Less(a, b) == a[1] * b[2] < b[1] * a[2]
Same(a, b) == a[1] * b[2] = b[1] * a[2]

Plus(a, b)  == <<a[1] * b[2] + b[1] * a[2], a[2] * b[2]>>
Minus(a, b) == <<a[1] * b[2] - b[1] * a[2], a[2] * b[2]>>
Times(a, b) == <<a[1] * b[1], a[2] * b[2]>>

Over(a, b)  == <<a[1] * b[2], a[2] * b[1]>>      \* b above 0
Gap(a, b)   == IF Leq(a, b) THEN Minus(b, a) ELSE Minus(a, b)

Negated(a)  == <<-a[1], a[2]>>
Half(a)     == <<a[1], 2 * a[2]>>

Largest(a, b) == IF Leq(a, b) THEN b ELSE a
AtMostOne(a) == IF Leq(One, a) THEN One ELSE a
AtLeastZero(a) == IF Leq(a, Zero) THEN Zero ELSE a

(* Lowest terms, so that equal rates are one element of a set. *)
Reduced(a) ==
  LET Abs == IF a[1] < 0 THEN -a[1] ELSE a[1]
      Common == {d \in 1..a[2] : Abs % d = 0 /\ a[2] % d = 0}
      g == CHOOSE d \in Common : \A e \in Common : e <= d
  IN IF a[2] = 0 THEN a ELSE <<a[1] \div g, a[2] \div g>>

(* Sorting by a tuple of keys: keys are sequences of rates, compared in order. *)
KeyLess(x, y) ==
  \E i \in DOMAIN x : Less(x[i], y[i]) /\ \A j \in 1..(i - 1) : Same(x[j], y[j])

(* The first row, in list order, of those with the least key: sorted(rows)[0] and  *)
(* min(rows), which are stable.                                                     *)
FirstLeast(rows, ids, Key(_)) ==
  CHOOSE i \in ids : \A j \in ids \ {i} :
    \/ KeyLess(Key(rows[i]), Key(rows[j]))
    \/ ~KeyLess(Key(rows[j]), Key(rows[i])) /\ i < j

-----------------------------------------------------------------------------------
Never == MaxRows + 1

Rows(t) == DOMAIN t.score
Earliest(S) == IF S = {} THEN Never ELSE Min(S)
FirstFailure(t) == Earliest(t.bad)
FailureTimes(split) == [t \in DOMAIN split |-> FirstFailure(split[t])]

(* The first row whose score reaches the threshold. *)
Crossing(scores, threshold) == Earliest({i \in DOMAIN scores : Leq(threshold, scores[i])})
compute_first_crossing_warning_times(split, threshold) ==
  [t \in DOMAIN split |-> Crossing(split[t].score, threshold)]

(* What every table of the study counts: w and f give each trajectory's first      *)
(* warning and first failure.                                                       *)
Tally(w, f) ==
  LET All     == DOMAIN f
      Bad     == {t \in All : f[t] < Never}
      Covered == {t \in Bad : w[t] <= f[t]}
      Warned  == {t \in All : w[t] < Never}
  IN [all     |-> Cardinality(All),
      bad     |-> Cardinality(Bad),
      clean   |-> Cardinality(All \ Bad),
      covered |-> Cardinality(Covered),
      pre     |-> Cardinality({t \in Covered : w[t] < f[t]}),
      missed  |-> Cardinality(Bad \ Covered),
      late    |-> Cardinality((Bad \ Covered) \cap Warned),
      warned  |-> Cardinality(Warned),
      false   |-> Cardinality(Warned \ Bad),
      lead    |-> MapThenSumSet(LAMBDA t : f[t] - w[t], Covered)]

(* The losses of one threshold.  Rates over an empty class are 0, the miss rate of  *)
(* a split without a bad trajectory included.                                       *)
compute_trajectory_event_losses(w, f) ==
  LET n == Tally(w, f)
  IN [trajectory_count         |-> n.all,
      bad_trajectory_count     |-> n.bad,
      miss_rate                |-> Rate(n.missed, n.bad),
      all_trajectory_miss_rate |-> Rate(n.missed, n.all),
      first_failure_coverage   |-> Rate(n.covered, n.bad),
      pre_failure_coverage     |-> Rate(n.pre, n.bad),
      trajectory_burden        |-> Rate(n.warned, n.all),
      false_alarm_rate         |-> Rate(n.false, n.clean),
      late_warning_rate        |-> Rate(n.late, n.bad),
      mean_lead_time           |-> RateOr(n.lead, n.covered, None)]

(* The same measure in the clean-grid tables: here a split without a bad trajectory *)
(* has missed everything, 1.0 - 0.0.                                                *)
first_crossing_metrics(split, threshold) ==
  LET n == Tally(compute_first_crossing_warning_times(split, threshold), FailureTimes(split))
  IN [trajectory_count               |-> n.all,
      bad_trajectory_count           |-> n.bad,
      empirical_miss_rate            |-> Minus(One, Rate(n.covered, n.bad)),
      empirical_burden               |-> Rate(n.warned, n.all),
      empirical_false_alarm_rate     |-> Rate(n.false, n.clean),
      empirical_pre_failure_coverage |-> Rate(n.pre, n.bad),
      first_failure_coverage         |-> Rate(n.covered, n.bad),
      late_warning_rate              |-> Rate(n.late, n.bad),
      mean_lead_time                 |-> RateOr(n.lead, n.covered, None)]

(* A table row per threshold, in the grid's order, and the same row under the names *)
(* the test split's table gives it.  The selectors look for lead times under other  *)
(* names than the tables of this module have them.                                  *)
build_threshold_table(split, grid) ==
  [k \in DOMAIN grid |->
     LET m == first_crossing_metrics(split, grid[k])
     IN [threshold |-> grid[k], order |-> k,
         n_miss |-> m.bad_trajectory_count, n_burden |-> m.trajectory_count,
         miss |-> m.empirical_miss_rate, burden |-> m.empirical_burden,
         false_alarm |-> m.empirical_false_alarm_rate,
         pre |-> m.empirical_pre_failure_coverage, lead |-> None]]

evaluate_threshold_table(split, grid) ==
  LET table == build_threshold_table(split, grid)
  IN [k \in DOMAIN table |-> [threshold |-> table[k].threshold,
                              miss |-> table[k].miss, burden |-> table[k].burden]]

(* The calibration table of the library, over compute_trajectory_event_losses. *)
build_calibration_table(split, grid) ==
  [k \in DOMAIN grid |->
     LET m == compute_trajectory_event_losses(
                compute_first_crossing_warning_times(split, grid[k]), FailureTimes(split))
     IN [threshold |-> grid[k], order |-> k,
         n_miss |-> m.bad_trajectory_count, n_burden |-> m.trajectory_count,
         miss |-> m.miss_rate, burden |-> m.trajectory_burden,
         false_alarm |-> m.false_alarm_rate,
         pre |-> m.pre_failure_coverage, lead |-> None]]
===================================================================================
