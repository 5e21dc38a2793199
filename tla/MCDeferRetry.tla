---------------------------- MODULE MCDeferRetry ----------------------------
(***************************************************************************)
(* Instance of DeferRetry for TLC: a source file with a related test, an   *)
(* edit of the source and a commit.                                        *)
(***************************************************************************)
EXTENDS DeferRetry, TLC

CONSTANTS src, test, edit, commit

MCTarget == [a \in EditActions |-> src]
MCTests == [a \in EditActions |-> Files \ {src}]
MCProceed == [a \in Actions |-> "PROCEED"]
MCEscalate == [a \in Actions |-> IF a = edit THEN "ESCALATE" ELSE "BLOCK"]

MCSymmetry == Permutations(Procs) \cup Permutations(Ids) \cup Permutations(Contents)
=============================================================================
