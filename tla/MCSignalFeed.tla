---------------------------- MODULE MCSignalFeed ----------------------------
(* Small instances of SignalFeed for TLC. *)
EXTENDS SignalFeed, TLC

HardOnOff == {"hard_on", "hard_off"}
=============================================================================
