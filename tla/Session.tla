------------------------------ MODULE Session -------------------------------
(***************************************************************************)
(* The terminal with its session lock (check_idle_timeout in               *)
(* rust/terminal-client/src/app.rs) and the frames of the event loop       *)
(* (main.rs): a frame handles the keys that have come in, checks the idle  *)
(* timeout and draws; results are applied between frames.  The fetchers    *)
(* work at any time, but what they do in the middle of a frame they might  *)
(* as well do before or after it: a key only adds to their channels, the   *)
(* rest of a frame does not touch them.  Quitting and the edit line of the *)
(* news filter are left out.                                               *)
(***************************************************************************)
EXTENDS Terminal

VARIABLES
  locked,  \* the lock screen takes over
  idle,    \* last_input_at is IDLE_TIMEOUT_SECS or more ago
  typed    \* the frame under way has handled a key

lockVars    == << locked, idle, typed >>
sessionVars == << vars, lockVars >>

SessionTypeOK ==
  /\ TypeOK
  /\ {locked, idle, typed} \subseteq BOOLEAN

SessionInit ==
  /\ Init
  /\ locked = FALSE /\ idle = FALSE /\ typed = FALSE

\* Any key while locked; last_input_at is not touched.
Unlock ==
  /\ locked
  /\ Press
  /\ locked' = FALSE
  /\ typed' = TRUE
  /\ UNCHANGED << view, panel, linked, queue, idle >>

Type ==
  /\ ~ locked
  /\ Key
  /\ idle' = FALSE
  /\ typed' = TRUE
  /\ UNCHANGED locked

\* IDLE_TIMEOUT_SECS pass without a key, as long as one may still come.
TimePasses ==
  /\ ~ idle /\ ~ typed
  /\ keys < MaxKeys
  /\ idle' = TRUE
  /\ UNCHANGED << vars, locked, typed >>

\* Variant: the timeout is checked only after a key.
EndFrameTyped ==
  /\ typed
  /\ typed' = FALSE
  /\ locked' = (locked \/ idle)
  /\ UNCHANGED << vars, idle >>

\* check_idle_timeout and draw end a frame, also one without a key.
EndFrame ==
  /\ typed \/ (idle /\ ~ locked)
  /\ typed' = FALSE
  /\ locked' = (locked \/ idle)
  /\ UNCHANGED << vars, idle >>

SessionNext ==
  \/ Type \/ Unlock \/ TimePasses \/ EndFrame
  \/ ~ typed /\ (FetcherStep \/ Apply) /\ UNCHANGED lockVars

SessionSpec == SessionInit /\ [][SessionNext]_sessionVars

\* As for Terminal; and frames come at a fixed rate.
SessionFairness == Fairness /\ WF_sessionVars(EndFrame)

FairSession == SessionSpec /\ SessionFairness
-----------------------------------------------------------------------------
\* A session that is left alone is locked, whatever its results are doing
\* (check_idle_timeout).
UnattendedLocks == []<>(~ idle \/ locked)

\* "Press any key to resume": a frame in which a key was pressed does not end
\* on the lock screen.
AnyKeyResumes == [][(typed /\ ~ typed') => ~ locked']_sessionVars
=============================================================================
