----------------------------- MODULE MCAuditLog -----------------------------
(* Instance of AuditLog for TLC: the operations are interchangeable. *)
EXTENDS AuditLog, TLC

OpSymmetry == Permutations(Ops)
=============================================================================
