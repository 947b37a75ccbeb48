--------------------------- MODULE MCAuditWriter ---------------------------
(* Small instances of AuditWriter for TLC. *)
EXTENDS AuditWriter, TLC

Symmetry == Permutations(Task)
=============================================================================
