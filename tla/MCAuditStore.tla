---------------------------- MODULE MCAuditStore ----------------------------
(* Small instances of AuditStore for TLC.  Contents are interchangeable:   *)
(* the one NoEvent names fills the event of an idle thread, which no step  *)
(* reads.                                                                  *)
EXTENDS AuditStore, TLC

Symmetry == Permutations(Thread) \cup Permutations(Event)
=============================================================================
