--------------------------- MODULE MCEventAlerts ----------------------------
(* Small instances of EventAlerts for TLC. *)
EXTENDS EventAlerts, TLC
=============================================================================
