---------------------------- MODULE SignalRecords ----------------------------
(***************************************************************************)
(* Signals are a function from signal names to values; a signal nobody     *)
(* reports is not in its domain, as in the code's partial objects.         *)
(***************************************************************************)
EXTENDS Naturals

\* A signal's value, or "undefined" when no detector reports it.
SignalOf(s, name) == IF name \in DOMAIN s THEN s[name] ELSE "undefined"

\* A boolean signal that is reported, and TRUE or FALSE.
IsSet(s, name) == name \in DOMAIN s /\ s[name]
IsCleared(s, name) == name \in DOMAIN s /\ ~s[name]

\* A numeric signal that is reported and under n.
IsBelow(s, name, n) == name \in DOMAIN s /\ s[name] < n

\* The signals of two detectors together; what both report is as the first says.
\* (TLC's own @@, written out for the proofs.)
a ++ b == [x \in DOMAIN a \cup DOMAIN b |-> IF x \in DOMAIN a THEN a[x] ELSE b[x]]

\* Signals when a condition holds, none otherwise.
When(condition, signals) == IF condition THEN signals ELSE << >>
=============================================================================
