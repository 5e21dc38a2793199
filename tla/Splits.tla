---------------------------------- MODULE Splits ----------------------------------
(* The train, calibration and test roles.  Rows are split by trajectory, once by a  *)
(* single shuffle and, for the repeated splits, stratum by stratum.  A shuffle is    *)
(* an order of the trajectory ids, given as a sequence; the random donor of the      *)
(* rebalancing is any of the candidates.  Rows carry trajectory, target, group (the  *)
(* stratification value: source and agent) and the fields of Baselines.              *)
EXTENDS Baselines

Roles == {"train", "calibration", "test"}
TrainRatio == <<3, 5>>
CalibrationRatio == <<1, 5>>
Portion(n, ratio) == Rounded(Times(<<n, 1>>, ratio))

TrajectoriesOf(rows) == {rows[i].trajectory : i \in DOMAIN rows}
RowsOfTrajectory(rows, t) == Part(rows, {i \in DOMAIN rows : rows[i].trajectory = t})

(* The first train_n ids of an order train, the next cal_n calibrate, the rest test. *)
Cut(order, train_n, cal_n) ==
  [t \in Range(order) |->
     LET k == CHOOSE i \in DOMAIN order : order[i] = t
     IN CASE k <= train_n -> "train"
          [] k > train_n /\ k <= train_n + cal_n -> "calibration"
          [] OTHER -> "test"]

(***********************************************************************************)
(* One shuffle                                                                      *)
(***********************************************************************************)
split_counts(total) ==
  LET AtLeast == IF total >= 3 THEN 1 ELSE 0
      train == Max({AtLeast, Portion(total, TrainRatio)})
      wanted == Max({AtLeast, Portion(total, CalibrationRatio)})
      cal == IF train + wanted > total THEN Max({0, total - train}) ELSE wanted
      none_left == total >= 3 /\ train + cal = total
  IN CASE none_left /\ train >= cal /\ train > 1 -> [train |-> train - 1, calibration |-> cal]
       [] none_left /\ ~(train >= cal /\ train > 1) /\ cal > 1 ->
            [train |-> train, calibration |-> cal - 1]
       [] OTHER -> [train |-> train, calibration |-> cal]

make_assignments(order) ==
  LET counts == split_counts(Len(order)) IN Cut(order, counts.train, counts.calibration)

trajectory_leakage_exists(assignments, rows) ==
  \E i, j \in DOMAIN rows : /\ rows[i].trajectory = rows[j].trajectory
                            /\ assignments[rows[i].trajectory] # assignments[rows[j].trajectory]

(* Rows of trajectories without a role are left out. *)
rows_by_split(rows, assignments) ==
  [role \in Roles |-> Part(rows, {i \in DOMAIN rows : /\ rows[i].trajectory \in DOMAIN assignments
                                                      /\ assignments[rows[i].trajectory] = role})]

summarize_split(rows, assignments, role) ==
  LET held == rows_by_split(rows, assignments)[role]
  IN [trajectory_count |-> Cardinality(TrajectoriesOf(held)),
      prefix_row_count |-> Cardinality(DOMAIN held),
      positives |-> Cardinality(Positives(held)),
      positive_rate |-> Rate(Cardinality(Positives(held)), Cardinality(DOMAIN held))]

make_verified_splits(rows, order, enough) ==
  LET assignments == make_assignments(order)
      summaries == [role \in Roles |-> summarize_split(rows, assignments, role)]
  IN [assignments |-> assignments, splits |-> summaries,
      leakage |-> trajectory_leakage_exists(assignments, rows),
      calibration_has_enough |-> summaries["calibration"].positives >= enough,
      test_has_enough |-> summaries["test"].positives >= enough]

(***********************************************************************************)
(* Stratified, once per seed                                                        *)
(***********************************************************************************)
trajectory_metadata(rows, t) ==
  LET own == RowsOfTrajectory(rows, t)
  IN [positive_count |-> Cardinality(Positives(own)), group |-> own[Min(DOMAIN own)].group]
Metadata(rows) == [t \in TrajectoriesOf(rows) |-> trajectory_metadata(rows, t)]

stratum_key(meta) == <<meta.positive_count > 0, meta.group>>
Strata(metadata) == {stratum_key(metadata[t]) : t \in DOMAIN metadata}
Stratum(metadata, key) == {t \in DOMAIN metadata : stratum_key(metadata[t]) = key}

(* Three or more leave something for every role; one or two train first. *)
StratumCut(order) ==
  LET n == Len(order)
      train == Min({Max({1, Portion(n, TrainRatio)}), n - 2})
      cal == Min({Max({1, Portion(n, CalibrationRatio)}), n - train - 1})
  IN IF n >= 3 THEN Cut(order, train, cal) ELSE Cut(order, 1, 0)

(* orders gives each stratum its shuffle. *)
stratified_assignments(orders) ==
  [t \in UNION {Range(orders[key]) : key \in DOMAIN orders} |->
     LET key == CHOOSE k \in DOMAIN orders : t \in Range(orders[k])
     IN StratumCut(orders[key])[t]]

(* A role without a trajectory that ever turns bad takes one from the training set, *)
(* calibration before test.                                                         *)
PositiveIn(assignments, metadata, role) ==
  {t \in DOMAIN assignments : assignments[t] = role /\ metadata[t].positive_count > 0}
(* Mutant: the training set keeps its last one. *)
RefilledBySpare(assignments, metadata, role) ==
  LET donors == PositiveIn(assignments, metadata, "train")
  IN IF PositiveIn(assignments, metadata, role) # {} \/ Cardinality(donors) < 2 THEN {assignments}
     ELSE {[assignments EXCEPT ![t] = role] : t \in donors}
Refilled(assignments, metadata, role) ==
  LET donors == PositiveIn(assignments, metadata, "train")
  IN IF PositiveIn(assignments, metadata, role) # {} \/ donors = {} THEN {assignments}
     ELSE {[assignments EXCEPT ![t] = role] : t \in donors}
rebalance_empty_splits(assignments, metadata) ==
  UNION {Refilled(a, metadata, "test") : a \in Refilled(assignments, metadata, "calibration")}

split_audit(rows, assignments, enough) ==
  LET summaries == [role \in Roles |-> summarize_split(rows, assignments, role)]
  IN [splits |-> summaries,
      base_risk_gap |-> Minus(summaries["test"].positive_rate, summaries["calibration"].positive_rate),
      enough_positives |-> [role \in {"calibration", "test"} |-> summaries[role].positives >= enough]]

(* Everything a seed may yield. *)
create_repeated_splits(rows, orders, enough) ==
  {[assignments |-> a, audit |-> split_audit(rows, a, enough)] :
     a \in rebalance_empty_splits(stratified_assignments(orders), Metadata(rows))}
===================================================================================
