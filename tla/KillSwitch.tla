----------------------------- MODULE KillSwitch -----------------------------
(***************************************************************************)
(* KillSwitch of src/quant_platform/kill_switch.py: the emergency level,   *)
(* kept in memory only, and what each of the four operator actions makes   *)
(* of it.                                                                  *)
(***************************************************************************)
EXTENDS Naturals, Sequences, FiniteSets

CONSTANTS Approver,  \* names that may approve
          Blank      \* an empty or white-space entry of an approver list

ASSUME BlankAssumption == Blank \notin Approver

VARIABLE level       \* KillSwitchState.level

Level  == {"off", "soft", "hard"}
Action == {"soft_on", "soft_off", "hard_on", "hard_off"}

\* Entries are stripped, blank ones dropped and duplicates merged.
DistinctApprovers(approvers) ==
  {approvers[i] : i \in 1 .. Len(approvers)} \ {Blank}

TwoPersons(approvers) == Cardinality(DistinctApprovers(approvers)) >= 2

\* Only deactivate_hard can refuse; no action looks at the level it replaces.
Accepts(action, approvers) == action = "hard_off" => TwoPersons(approvers)

LevelAfter(action) ==
  CASE action = "soft_on" -> "soft"
    [] action = "hard_on" -> "hard"
    [] OTHER              -> "off"
=============================================================================
