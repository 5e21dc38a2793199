-------------------------- MODULE DeferralContract --------------------------
(***************************************************************************)
(* What the gate promises about one deferral, with no process, file or log *)
(* in sight: it starts pending, retries pass verdicts on it, it is         *)
(* satisfied only after a verdict other than DEFER, and once it has left   *)
(* pending it never comes back to it.                                      *)
(***************************************************************************)
CONSTANTS Ids, Decisions

VARIABLES
  status,   \* status[i]: what the registry says of deferral i
  verdicts  \* verdicts[i]: the verdicts retries have passed on it

contractVars == <<status, verdicts>>

Init ==
  /\ status = [i \in Ids |-> "none"]
  /\ verdicts = [i \in Ids |-> {}]

Defer(i) ==
  /\ status[i] = "none"
  /\ status' = [status EXCEPT ![i] = "pending"]
  /\ UNCHANGED verdicts

Judge(i, d) ==
  /\ status[i] # "none"
  /\ verdicts' = [verdicts EXCEPT ![i] = @ \cup {d}]
  /\ UNCHANGED status

Satisfy(i) ==
  /\ status[i] # "none"
  /\ \E d \in verdicts[i] : d # "DEFER"
  /\ status' = [status EXCEPT ![i] = "satisfied"]
  /\ UNCHANGED verdicts

Supersede(i) ==
  /\ status[i] # "none"
  /\ status' = [status EXCEPT ![i] = "superseded"]
  /\ UNCHANGED verdicts

Next == \E i \in Ids :
  \/ Defer(i) \/ Satisfy(i) \/ Supersede(i)
  \/ \E d \in Decisions : Judge(i, d)

Spec == Init /\ [][Next]_contractVars
=============================================================================
