-------------------------- MODULE PlatformService --------------------------
(***************************************************************************)
(* predict, set_kill_switch and the calls on the calibration monitor of    *)
(* src/quant_platform/service.py, run by the request threads of one        *)
(* process.  The kill-switch level, the last known good prediction and the *)
(* samples are attributes every thread reads and writes without a lock;    *)
(* the audit store (AuditStore) is seen here only as the events it has     *)
(* accepted, each append succeeding or raising.                            *)
(***************************************************************************)
EXTENDS KillSwitch, Calibration

CONSTANTS
  MaxOperators,   \* bound on the kill-switch calls in progress at once
  MayFailAudit,   \* append may raise
  MayRestart      \* the process may be restarted by systemd

ASSUME ServiceAssumption ==
  /\ MaxOperators \in Nat
  /\ MayFailAudit \in BOOLEAN
  /\ MayRestart \in BOOLEAN

VARIABLES
  lastKnownGood, \* _last_known_good: is there a prediction to replay?
  lastChange,    \* result_level of the latest kill_switch_changed event
  forgotten,     \* history: a restart dropped the level in effect, and none was set since
  astray,        \* history: the latest change crossed another, or was not told
  pc,            \* where each thread is
  call,          \* what it was asked: "predict", or an operator action
  approvers,     \* the approver list of its request
  flag,          \* kill_switch_active of the prediction it will answer with
  result,        \* what the call has come to
  told,          \* the level the kill-switch call reports
  logged,        \* the event_type of the audit event its call stored
  window,        \* history: levels ordered since a prediction was asked for
  hadGood        \* history: was there a last known good when it began

shared  == << level, lastKnownGood, lastChange, forgotten, astray >>
history == << window, hadGood >>
aside   == << monitor, history >>      \* what most steps leave alone
locals  == << call, approvers, flag, result, told, logged >>
vars    == << shared, pc, locals, aside >>

PC == {"idle", "level", "replay", "compute", "remember", "switch", "readBack", "audit", "done",
       "append", "status", "probs", "between", "labels", "known"}

\* The calls that read the calibration: POST update, GET status, POST decision-support.
MlCall == {"calibrate", "calibration", "support"}

Outcome == {"none", "prediction_rejected", "prediction_blocked",
            "prediction_soft_kill_replay", "prediction_served",
            "kill_switch_changed", "ml_calibration_updated", "ml_calibration_read",
            "ml_decision_support_served", "refused", "failed"}

TypeOK ==
  /\ MonitorTypeOK
  /\ level \in Level
  /\ lastKnownGood \in BOOLEAN
  /\ lastChange \in Level
  /\ forgotten \in BOOLEAN
  /\ astray \in BOOLEAN
  /\ pc \in [Thread -> PC]
  /\ call \in [Thread -> Action \cup MlCall \cup {"predict"}]
  /\ approvers \in [Thread -> Seq(Approver \cup {Blank})]
  /\ flag \in [Thread -> BOOLEAN]
  /\ result \in [Thread -> Outcome]
  /\ told \in [Thread -> Level]
  /\ logged \in [Thread -> Outcome]
  /\ window \in [Thread -> SUBSET (Level \cup {"forgotten"})]
  /\ hadGood \in [Thread -> BOOLEAN]

\* A thread between two requests.
Fresh ==
  [pc |-> "idle", call |-> "predict", approvers |-> << >>, flag |-> FALSE,
   result |-> "none", told |-> "off", logged |-> "none",
   window |-> {}, hadGood |-> FALSE]

Init ==
  /\ MonitorInit
  /\ level = "off"
  /\ lastKnownGood = FALSE
  /\ lastChange = "off"
  /\ forgotten = FALSE
  /\ astray = FALSE
  /\ pc = [t \in Thread |-> Fresh.pc]
  /\ call = [t \in Thread |-> Fresh.call]
  /\ approvers = [t \in Thread |-> Fresh.approvers]
  /\ flag = [t \in Thread |-> Fresh.flag]
  /\ result = [t \in Thread |-> Fresh.result]
  /\ told = [t \in Thread |-> Fresh.told]
  /\ logged = [t \in Thread |-> Fresh.logged]
  /\ window = [t \in Thread |-> Fresh.window]
  /\ hadGood = [t \in Thread |-> Fresh.hadGood]
-----------------------------------------------------------------------------
Goto(t, from, to) == pc[t] = from /\ pc' = [pc EXCEPT ![t] = to]

Conclude(t, outcome) == result' = [result EXCEPT ![t] = outcome]

(* predict *)

\* A thread receives POST /v1/predict; a stale or mismatched feature set is
\* rejected, and the rejection audited.
BeginPredict(t) ==
  /\ call' = [call EXCEPT ![t] = "predict"]
  /\ \/ /\ Goto(t, "idle", "level")
        /\ Conclude(t, "none")
        /\ window' = [window EXCEPT ![t] = {IF forgotten THEN "forgotten" ELSE level}]
        /\ hadGood' = [hadGood EXCEPT ![t] = lastKnownGood]
     \/ /\ Goto(t, "idle", "audit")
        /\ Conclude(t, "prediction_rejected")
        /\ UNCHANGED history
  /\ UNCHANGED << shared, approvers, flag, told, logged, monitor >>

\* The level that decides is read once: HARD raises PermissionError after the audit.
Block(t) ==
  /\ level = "hard"
  /\ Goto(t, "level", "audit")
  /\ Conclude(t, "prediction_blocked")
  /\ UNCHANGED << shared, call, approvers, flag, told, logged, aside >>

\* Variant: the soft level forgets to replay.
PassUnlessHard(t) ==
  /\ level # "hard"
  /\ Goto(t, "level", "compute")
  /\ UNCHANGED << shared, locals, aside >>

\* OFF: a prediction is computed, which takes a while.
Pass(t) ==
  /\ level = "off"
  /\ Goto(t, "level", "compute")
  /\ UNCHANGED << shared, locals, aside >>

\* SOFT: the last known good prediction is looked up.
LookUp(t) ==
  /\ level = "soft"
  /\ Goto(t, "level", "replay")
  /\ UNCHANGED << shared, locals, aside >>

\* It is replayed, if there is one (and then there is one for good); the answer
\* says that the kill switch is active.
Replay(t) ==
  /\ lastKnownGood
  /\ Goto(t, "replay", "audit")
  /\ flag' = [flag EXCEPT ![t] = TRUE]
  /\ Conclude(t, "prediction_soft_kill_replay")
  /\ UNCHANGED << shared, call, approvers, told, logged, aside >>

\* If there is none, a fresh prediction is computed under SOFT as well.
ReplayNothing(t) ==
  /\ ~ lastKnownGood
  /\ Goto(t, "replay", "compute")
  /\ UNCHANGED << shared, locals, aside >>

\* The answer tells whether the kill switch is active by now, whatever the level
\* was that let it through.
Compute(t) ==
  /\ Goto(t, "compute", "status")
  /\ flag' = [flag EXCEPT ![t] = level # "off"]
  /\ UNCHANGED << shared, call, approvers, result, told, logged, aside >>

\* Writing the checkpoint file, or the model, raises.
ComputeRaises(t) ==
  /\ Goto(t, "compute", "done")
  /\ Conclude(t, "failed")
  /\ UNCHANGED << shared, call, approvers, flag, told, logged, aside >>

\* Variant: the prediction is returned without an audit event.
RememberUnaudited(t) ==
  /\ Goto(t, "remember", "done")
  /\ lastKnownGood' = TRUE
  /\ Conclude(t, "prediction_served")
  /\ UNCHANGED << level, lastChange, forgotten, astray, call, approvers,
                  flag, told, logged, aside >>

\* The prediction becomes the last known good one before it is audited.
Remember(t) ==
  /\ Goto(t, "remember", "audit")
  /\ lastKnownGood' = TRUE
  /\ Conclude(t, "prediction_served")
  /\ UNCHANGED << level, lastChange, forgotten, astray, call, approvers,
                  flag, told, logged, aside >>
-----------------------------------------------------------------------------
(* set_kill_switch *)

\* POST /v1/ops/kill-switch; the role, the MFA token or the signature of the
\* reason may be wrong, and then nothing changes.
BeginKill(t, action, list) ==
  /\ Cardinality({u \in Thread : call[u] \in Action}) < MaxOperators
  /\ call' = [call EXCEPT ![t] = action]
  /\ \/ /\ Goto(t, "idle", "switch")
        /\ Conclude(t, "none")
        /\ approvers' = [approvers EXCEPT ![t] = list]
     \/ /\ Goto(t, "idle", "done")
        /\ Conclude(t, "refused")
        /\ UNCHANGED approvers
  /\ UNCHANGED << shared, flag, told, logged, aside >>

\* The calls that have changed the level and not told it yet.
Changing == {t \in Thread : call[t] \in Action /\ pc[t] \in {"readBack", "audit"}}

\* The new level is seen by every prediction in progress; a change crosses those
\* that are still to be told.
SetLevel(new) ==
  /\ level' = new
  /\ forgotten' = FALSE
  /\ astray' = (Changing # {})
  /\ window' = [t \in Thread |-> IF window[t] = {} THEN {} ELSE window[t] \cup {new}]

Switch(t) ==
  /\ Accepts(call[t], approvers[t])
  /\ Goto(t, "switch", "readBack")
  /\ SetLevel(LevelAfter(call[t]))
  /\ UNCHANGED << lastKnownGood, lastChange, locals, hadGood, monitor >>

\* Variant: deactivate_hard counts the approvers after it has changed the level.
SwitchRefusedLate(t) ==
  /\ ~ Accepts(call[t], approvers[t])
  /\ Goto(t, "switch", "done")
  /\ Conclude(t, "refused")
  /\ SetLevel("off")
  /\ UNCHANGED << lastKnownGood, lastChange, call, approvers,
                  flag, told, logged, hadGood, monitor >>

\* deactivate_hard raises ValueError.
SwitchRefused(t) ==
  /\ ~ Accepts(call[t], approvers[t])
  /\ Goto(t, "switch", "done")
  /\ Conclude(t, "refused")
  /\ UNCHANGED << shared, call, approvers, flag, told, logged, aside >>

\* `return self._state` reads the attribute again.
ReadBack(t) ==
  /\ Goto(t, "readBack", "audit")
  /\ told' = [told EXCEPT ![t] = level]
  /\ Conclude(t, "kill_switch_changed")
  /\ UNCHANGED << shared, call, approvers, flag, logged, aside >>
-----------------------------------------------------------------------------
(* ml_calibration_update, ml_calibration_status, ml_decision_support_snapshot, *)
(* and the status() of the calibration monitor in these and in predict         *)

\* A request without its fields, or with stale features, is refused unaudited.
BeginMl(t, what) ==
  /\ \/ Goto(t, "idle", IF what = "calibrate" THEN "append" ELSE "status")
        /\ Conclude(t, "none")
     \/ what # "calibration" /\ Goto(t, "idle", "done") /\ Conclude(t, "refused")
  /\ call' = [call EXCEPT ![t] = what]
  /\ UNCHANGED << shared, approvers, flag, told, logged, aside >>

RegisterOutcome(t) ==
  /\ Goto(t, "append", "status")
  /\ Register
  /\ UNCHANGED << shared, locals, history >>

\* The status is there: predict goes on to sign and remember the prediction,
\* the reading call answers at once, the other two are audited.
StatusKnown(t, from) ==
  \/ /\ call[t] = "predict"
     /\ Goto(t, from, "remember")
     /\ UNCHANGED result
  \/ /\ call[t] = "calibration"
     /\ Goto(t, from, "done")
     /\ Conclude(t, "ml_calibration_read")
  \/ /\ call[t] = "calibrate"
     /\ Goto(t, from, "audit")
     /\ Conclude(t, "ml_calibration_updated")
  \/ /\ call[t] = "support"
     /\ Goto(t, from, "audit")
     /\ Conclude(t, "ml_decision_support_served")

\* No samples, no walk.
StatusEmpty(t) ==
  /\ pairs = << >>
  /\ StatusKnown(t, "status")
  /\ UNCHANGED << shared, call, approvers, flag, told, logged, aside >>

BeginProbs(t) ==
  /\ pairs # << >>
  /\ Goto(t, "status", "probs")
  /\ BeginWalk(t)
  /\ UNCHANGED << shared, locals, history >>

EndProbs(t) ==
  /\ Goto(t, "probs", "between")
  /\ WalkProbs(t)
  /\ UNCHANGED << shared, locals, history >>

BeginLabels(t) ==
  /\ Goto(t, "between", "labels")
  /\ BeginWalk(t)
  /\ UNCHANGED << shared, locals, history >>

EndLabels(t) ==
  /\ Goto(t, "labels", "known")
  /\ WalkLabels(t)
  /\ UNCHANGED << shared, locals, history >>

ReturnStatus(t) ==
  /\ StatusKnown(t, "known")
  /\ Return(t)
  /\ UNCHANGED << shared, call, approvers, flag, told, logged, history >>

\* Nobody catches the RuntimeError: the client gets no answer, although a new
\* sample counts and a prediction has created its checkpoint.
StatusRaises(t) ==
  /\ \/ Goto(t, "probs", "done")
     \/ Goto(t, "labels", "done")
  /\ WalkBreaks(t)
  /\ Conclude(t, "failed")
  /\ UNCHANGED << shared, call, approvers, flag, told, logged, history >>
-----------------------------------------------------------------------------
(* audit.append, the last thing the calls do before they answer *)

Store(t) ==
  /\ logged' = [logged EXCEPT ![t] = result[t]]
  /\ lastChange' = IF call[t] \in Action THEN told[t] ELSE lastChange

AuditEvent(t) ==
  /\ Goto(t, "audit", "done")
  /\ Store(t)
  /\ UNCHANGED << level, lastKnownGood, forgotten, astray, call, approvers, flag, result, told, aside >>

\* The exception is not caught and the client gets no answer; the event may be
\* stored all the same (a flush that fails).
AuditRaises(t) ==
  /\ MayFailAudit
  /\ Goto(t, "audit", "done")
  /\ Conclude(t, "failed")
  /\ \/ Store(t) /\ UNCHANGED astray
     \/ astray' = (astray \/ call[t] \in Action) /\ UNCHANGED << lastChange, logged >>
  /\ UNCHANGED << level, lastKnownGood, forgotten, call, approvers, flag, told, aside >>

\* The threads in set start afresh.
Reset(set) ==
  LET Renew(old, new) == [t \in Thread |-> IF t \in set THEN new ELSE old[t]]
  IN /\ pc' = Renew(pc, Fresh.pc)
     /\ call' = Renew(call, Fresh.call)
     /\ approvers' = Renew(approvers, Fresh.approvers)
     /\ flag' = Renew(flag, Fresh.flag)
     /\ result' = Renew(result, Fresh.result)
     /\ told' = Renew(told, Fresh.told)
     /\ logged' = Renew(logged, Fresh.logged)
     /\ window' = Renew(window, Fresh.window)
     /\ hadGood' = Renew(hadGood, Fresh.hadGood)

\* The response is sent and the thread is free for the next request.
Answer(t) ==
  /\ pc[t] = "done"
  /\ Reset({t})
  /\ UNCHANGED << shared, monitor >>

\* Neither the level nor the last known good prediction nor a sample is persisted.
Restart ==
  /\ MayRestart
  /\ level' = "off"
  /\ astray' = TRUE
  /\ forgotten' = (forgotten \/ level # "off")
  /\ lastKnownGood' = FALSE
  /\ MonitorRestart
  /\ Reset(Thread)
  /\ UNCHANGED lastChange
-----------------------------------------------------------------------------
\* Only hard_off looks at its approvers: none, one, the same one twice or with a
\* blank entry, and two persons.
ApproverLists(action) ==
  {<< >>} \cup (IF action # "hard_off" THEN {}
               ELSE {<< a >> : a \in Approver}
                    \cup {<< a, b >> : a \in Approver, b \in Approver \cup {Blank}})

ServiceStep(t) ==
  \/ Block(t) \/ Pass(t) \/ LookUp(t) \/ Replay(t) \/ ReplayNothing(t)
  \/ Compute(t) \/ ComputeRaises(t) \/ Remember(t)
  \/ Switch(t) \/ SwitchRefused(t) \/ ReadBack(t)
  \/ RegisterOutcome(t) \/ StatusEmpty(t) \/ StatusRaises(t)
  \/ BeginProbs(t) \/ EndProbs(t) \/ BeginLabels(t) \/ EndLabels(t)
  \/ ReturnStatus(t)
  \/ AuditEvent(t) \/ AuditRaises(t)

Next ==
  \/ \E t \in Thread :
       \/ BeginPredict(t)
       \/ \E action \in Action : \E list \in ApproverLists(action) : BeginKill(t, action, list)
       \/ \E what \in MlCall : BeginMl(t, what)
       \/ ServiceStep(t)
       \/ Answer(t)
  \/ Restart

Spec == Init /\ [][Next]_vars
-----------------------------------------------------------------------------
\* A prediction could see OFF: it was ordered, or a restart had forgotten what was.
SawOff(t) == window[t] \cap {"off", "forgotten"} # {}

\* It could see SOFT while there was nothing to replay.
NothingToReplay(t) == "soft" \in window[t] /\ ~ hadGood[t]

\* What a predict call does is explained by a level that operators had put in
\* effect while it ran: HARD throughout blocks it; SOFT throughout, with a last
\* known good prediction from the start, replays; and kill_switch_active of the
\* answer is true of some such level as well.  Two exceptions let a fresh
\* prediction out under a kill switch: SOFT with nothing to replay, and a level
\* that a restart has forgotten (predict, Restart).
DecisionIsLinearizable ==
  \A t \in Thread : pc[t] # "idle" =>
     /\ result[t] = "prediction_blocked" => "hard" \in window[t]
     /\ result[t] = "prediction_soft_kill_replay" => "soft" \in window[t]
     /\ pc[t] = "compute" \/ result[t] = "prediction_served" => SawOff(t) \/ NothingToReplay(t)
     /\ result[t] = "prediction_served" =>
          IF flag[t] THEN window[t] \cap {"soft", "hard"} # {} ELSE SawOff(t)

Unaudited == {"ml_calibration_read", "refused", "failed"}

\* No other answer leaves the service unaudited: when a call is about to answer
\* with a prediction, a refusal to predict, a changed level, a registered outcome
\* or decision support, the event is stored.
AuditedBeforeAnswer ==
  \A t \in Thread :
     pc[t] = "done" /\ result[t] \notin Unaudited => logged[t] = result[t]

\* However many operators act, the latest kill_switch_changed event tells the
\* level in effect once every change has been told, unless the latest change was
\* made while another was still to be told, its own audit raised, or the process
\* was restarted since (set_kill_switch).
AuditTellsLevel == Changing = {} => astray \/ lastChange = level

\* A hard kill ends only with the approval of two persons.
HardNeedsTwoPersons ==
  [][level = "hard" /\ level' # "hard" =>
       \E t \in Thread : pc[t] = "switch" /\ TwoPersons(approvers[t])]_vars
=============================================================================
