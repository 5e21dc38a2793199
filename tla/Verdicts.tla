------------------------------ MODULE Verdicts ------------------------------
(***************************************************************************)
(* How fresh what was observed of a file is, what the default policy makes *)
(* of an edit and of a landing action, and what a deferral of it then asks *)
(* for, in terms of the evidence alone: the freshness of the target, the   *)
(* related tests and the validation.                                       *)
(* The rules that need no evidence are summed up as the risk, the decision *)
(* they would reach with all evidence at hand.  DeferRetry runs on this    *)
(* summary; Reauthorization checks it against the rules themselves.        *)
(***************************************************************************)
Validation == "validation"

\* Faulty variant of Freshness: a metadata-only observation is taken for a read.
FreshOnMetadata(o, d) ==
  IF o = "never" THEN "unknown"
  ELSE IF d = "absent" THEN "missing"
  ELSE IF o \in {d, "metadata"} THEN "fresh" ELSE "stale"

\* checkFileFreshness on the latest observation o and the file's content d.
Freshness(o, d) ==
  IF o = "never" \/ (o = "metadata" /\ d # "absent") THEN "unknown"
  ELSE IF d = "absent" THEN "missing"
  ELSE IF o = d THEN "fresh" ELSE "stale"

\* Faulty variant of ObservationOf: the file is taken to exist.
ObservationOfExisting(mode, d) == IF mode = "metadata" THEN "metadata" ELSE d

\* createRecord: what a read in a mode records of a file with content d.
ObservationOf(mode, d) ==
  IF d = "absent" THEN "missing" ELSE IF mode = "metadata" THEN "metadata" ELSE d

\* Faulty variant of StrongestStatus: one command that passed will do.
AnyPassed(results, commands) ==
  IF \E c \in commands : results[c] = "passed" THEN "passed" ELSE "not_run"

\* computeValidationGateSignals: failed outranks stale, stale outranks not_run,
\* and no command at all is not_run.
StrongestStatus(results, commands) ==
  LET has(status) == \E c \in commands : results[c] = status
  IN CASE has("failed") -> "failed"
       [] ~has("failed") /\ has("stale") -> "stale"
       [] ~has("failed") /\ ~has("stale") /\ (commands = {} \/ has("not_run"))
            -> "not_run"
       [] OTHER -> "passed"

\* The winning rule for an edit whose target has freshness st, whose existing
\* related tests are found and of which some is fresh iff read: BLOCK first,
\* then the evidence rules, then the most severe of the others.
VerdictOnEdit(risk, st, found, read) ==
  IF risk = "BLOCK" THEN "BLOCK"
  ELSE IF st # "fresh" \/ (found # {} /\ ~read) THEN "DEFER"
  ELSE risk

\* The winning rule for a landing action whose validation has status v.
VerdictOnLanding(risk, v) ==
  IF risk = "BLOCK" \/ v = "failed" THEN "BLOCK"
  ELSE IF v \in {"not_run", "stale"} THEN "DEFER"
  ELSE risk

\* deriveRequiredEvidence of what buildMissingContext and buildFetchPlan list.
EvidenceForEdit(target, st, found, read) ==
  (IF st # "fresh" THEN {target} ELSE {}) \cup (IF read THEN {} ELSE found)
EvidenceForLanding(v) ==
  IF v \in {"not_run", "stale"} THEN {Validation} ELSE {}
=============================================================================
