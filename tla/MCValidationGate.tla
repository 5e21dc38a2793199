--------------------------- MODULE MCValidationGate ---------------------------
(***************************************************************************)
(* Instances of ValidationGate for TLC: two validate processes, a required *)
(* command that ends on SIGTERM and another that need not, in a repository *)
(* where the other, or both, have passed before.                           *)
(***************************************************************************)
EXTENDS ValidationGate

CONSTANTS test, lint

MCChildren == [c \in Commands |-> IF c = test THEN {"obedient"} ELSE {"stubborn"}]
MCEarlier == {[c \in Commands |-> IF c = test THEN first ELSE "passed"] :
                first \in {"none", "passed"}}
MCPassed == {[c \in Commands |-> "passed"]}
=============================================================================
