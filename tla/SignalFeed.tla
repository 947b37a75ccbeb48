----------------------------- MODULE SignalFeed -----------------------------
(***************************************************************************)
(* The signal feed, from the kill switch to the screen: the task that      *)
(* subscribe_signals spawns in the gateway (rust/vps1-serving/src/         *)
(* gateway.rs), the client task run_signal_stream (rust/terminal-client/   *)
(* src/main.rs) with its connection, polling fallback and back-off, and    *)
(* App, which caches each snapshot in SQLite before it shows it.           *)
(*                                                                         *)
(* A snapshot is known by the time at which its building began and by the  *)
(* kill-switch level that was read then.  Three processes run at their own *)
(* pace: that a subscriber went away is noticed first by the transport of  *)
(* the gateway, which has no keepalive, then by the task at its next send; *)
(* a request of the gateway may stay without an answer for ever, and the   *)
(* level may change between any two steps.  Times are of one clock.        *)
(***************************************************************************)
EXTENDS Naturals, Sequences, SequencesExt

CONSTANTS
  Slot,         \* places for the tasks of subscriptions, old and new
  NoSlot,       \* the client has no stream
  ChannelSize,  \* mpsc::channel between the task and its stream: 8
  EventSize,    \* StreamEvent channel of the terminal: 32
  CacheSize,    \* snapshots the cache keeps: 20
  Switches,     \* operator actions the level can change by
  MaxBuilds,    \* bound: from this one on snapshots have the same time
  MaxSwitches,  \* bound: changes of the level
  MaxFailures   \* bound: failures of network, backend, audit, cache or client

ASSUME FeedAssumption ==
  /\ NoSlot \notin Slot
  /\ {ChannelSize, EventSize, CacheSize, MaxBuilds} \subseteq Nat \ {0}
  /\ {MaxSwitches, MaxFailures} \subseteq Nat

VARIABLES
  level,      \* kill-switch level of the backend
  switches,   \* how often it was changed
  clock,      \* when the last snapshot was begun
  failures,   \* how many failures there were
  task,       \* where the gateway's task of each slot is
  draft,      \* the snapshot it is building
  channel,    \* what it sent and its stream has not delivered
  open,       \* the receiving end of the stream still exists in the gateway
  orphaned,   \* history: snapshots a task audited after its receiver had gone
              \* (2 stands for more)
  pc,         \* where run_signal_stream is
  connected,  \* its `client` is Some
  stream,     \* the slot its stream belongs to
  polled,     \* the snapshot it is collecting by polling
  refresh,    \* the refresh channel holds a key press
  events,     \* StreamEvent channel; no snapshot stands for Degraded
  shown,      \* what App shows: signals, threat and time of capture
  degraded,   \* App.degraded
  cache       \* table signal_snapshots, oldest first

backendVars == << level, switches >>
gatewayVars == << task, draft, channel, open, orphaned >>
clientVars  == << pc, connected, stream, polled, refresh >>
appVars     == << shown, degraded, cache >>
vars == << backendVars, clock, failures, gatewayVars, clientVars, events, appVars >>

K == INSTANCE KillSwitch WITH Approver <- {}, Blank <- NoSlot

Snapshot == [at : Nat, level : K!Level \cup {"unknown"}, switches : Nat]

\* What App shows before it has anything, and what Degraded carries.
Nothing == [at |-> 0, level |-> "unknown", switches |-> 0]

Later == IF clock < MaxBuilds THEN clock + 1 ELSE clock

\* captured_at and what ops_status tells.
Taken == [at |-> Later, level |-> level, switches |-> switches]

TypeOK ==
  /\ level \in K!Level /\ switches \in Nat /\ clock \in Nat /\ failures \in Nat
  /\ task \in [Slot -> {"none", "build", "predict", "audit", "send", "sleep", "fail", "hung", "done"}]
  /\ draft \in [Slot -> Snapshot]
  /\ channel \in [Slot -> Seq(Snapshot)]
  /\ \A s \in Slot : Len(channel[s]) <= ChannelSize
  /\ open \in [Slot -> BOOLEAN]
  /\ orphaned \in [Slot -> 0 .. 2]
  /\ pc \in {"connect", "subscribe", "stream", "poll", "pollPredict", "wait"}
  /\ connected \in BOOLEAN
  /\ stream \in Slot \cup {NoSlot}
  /\ polled \in Snapshot
  /\ refresh \in BOOLEAN
  /\ events \in Seq(Snapshot) /\ Len(events) <= EventSize
  /\ shown \in Snapshot
  /\ degraded \in BOOLEAN
  /\ cache \in Seq(Snapshot)

\* The first start, with an empty cache.
Init ==
  /\ level = "off" /\ switches = 0 /\ clock = 0 /\ failures = 0
  /\ task = [s \in Slot |-> "none"]
  /\ draft = [s \in Slot |-> Nothing]
  /\ channel = [s \in Slot |-> << >>]
  /\ open = [s \in Slot |-> FALSE]
  /\ orphaned = [s \in Slot |-> 0]
  /\ pc = "connect" /\ connected = FALSE /\ stream = NoSlot
  /\ polled = Nothing /\ refresh = FALSE /\ events = << >>
  /\ shown = Nothing /\ degraded = TRUE /\ cache = << >>

\* Something goes wrong that nothing in the model explains.
Failure == failures < MaxFailures /\ failures' = failures + 1

SwitchLevel(action) ==
  /\ switches < MaxSwitches
  /\ level' = K!LevelAfter(action)
  /\ switches' = switches + 1
  /\ UNCHANGED << clock, failures, gatewayVars, clientVars, events, appVars >>
-----------------------------------------------------------------------------
(* The task of a subscription: build_signal_snapshot, send, sleep. *)

Goto(s, from, to) == task[s] = from /\ task' = [task EXCEPT ![s] = to]

\* The task ends; its slot is free once its receiver is gone.
Finish(s) ==
  /\ task' = [task EXCEPT ![s] = IF open[s] THEN "done" ELSE "none"]
  /\ draft' = [draft EXCEPT ![s] = Nothing]
  /\ orphaned' = [orphaned EXCEPT ![s] = IF open[s] THEN @ ELSE 0]

\* captured_at and ops_status come first ...
ReadStatus(s) ==
  /\ Goto(s, "build", "predict")
  /\ clock' = Later
  /\ draft' = [draft EXCEPT ![s] = Taken]
  /\ UNCHANGED << backendVars, failures, channel, open, orphaned, clientVars, events, appVars >>

\* Variant: predictions pass under a hard kill.
PredictAlways(s) ==
  /\ Goto(s, "predict", "audit")
  /\ UNCHANGED << backendVars, clock, failures, draft, channel, open, orphaned, clientVars,
                  events, appVars >>

\* ... then one prediction per symbol, which a hard kill refuses ...
Predict(s) ==
  /\ level # "hard"
  /\ Goto(s, "predict", "audit")
  /\ UNCHANGED << backendVars, clock, failures, draft, channel, open, orphaned, clientVars,
                  events, appVars >>

\* ... then "signal_stream_snapshot" is recorded and the chain status read.
Audit(s) ==
  /\ Goto(s, "audit", "send")
  /\ orphaned' = [orphaned EXCEPT ![s] = IF open[s] THEN @ ELSE Min({@ + 1, 2})]
  /\ UNCHANGED << backendVars, clock, failures, draft, channel, open, clientVars, events,
                  appVars >>

\* Any other answer of the backend or of the audit ends the task ...
BuildFails(s) ==
  /\ \/ task[s] = "predict" /\ level = "hard" /\ UNCHANGED failures
     \/ task[s] \in {"build", "predict", "audit"} /\ Failure
  /\ task' = [task EXCEPT ![s] = "fail"]
  /\ draft' = [draft EXCEPT ![s] = Nothing]
  /\ UNCHANGED << backendVars, clock, channel, open, orphaned, clientVars, events, appVars >>

\* ... once there is room for the error, which the stream delivers after what
\* was sent before: it is the end of a stream whose task is done.
SendError(s) ==
  /\ task[s] = "fail"
  /\ open[s] => Len(channel[s]) < ChannelSize
  /\ Finish(s)
  /\ UNCHANGED << backendVars, clock, failures, channel, open, clientVars, events, appVars >>

\* HttpBackend and the audit set no deadline for their requests: one that is
\* never answered holds the task for ever.
TaskHangs(s) ==
  /\ Failure
  /\ task[s] \in {"build", "predict", "audit"}
  /\ task' = [task EXCEPT ![s] = "hung"]
  /\ UNCHANGED << backendVars, clock, draft, channel, open, orphaned, clientVars, events, appVars >>

\* Variant: the result of send is ignored.
SendIgnored(s) ==
  /\ Goto(s, "send", "sleep")
  /\ open[s] => Len(channel[s]) < ChannelSize
  /\ channel' = [channel EXCEPT ![s] = IF open[s] THEN Append(@, draft[s]) ELSE @]
  /\ draft' = [draft EXCEPT ![s] = Nothing]
  /\ UNCHANGED << backendVars, clock, failures, open, orphaned, clientVars, events, appVars >>

\* send waits for room, and fails when the receiver is gone: the task ends.
Send(s) ==
  /\ task[s] = "send"
  /\ \/ /\ open[s] /\ Len(channel[s]) < ChannelSize
        /\ Goto(s, "send", "sleep")
        /\ channel' = [channel EXCEPT ![s] = Append(@, draft[s])]
        /\ draft' = [draft EXCEPT ![s] = Nothing]
        /\ UNCHANGED orphaned
     \/ ~ open[s] /\ Finish(s) /\ UNCHANGED channel
  /\ UNCHANGED << backendVars, clock, failures, open, clientVars, events, appVars >>

\* refresh_seconds have passed.
Wake(s) ==
  /\ Goto(s, "sleep", "build")
  /\ UNCHANGED << backendVars, clock, failures, draft, channel, open, orphaned, clientVars,
                  events, appVars >>
-----------------------------------------------------------------------------
(* The stream of a subscription in the gateway. *)

\* The receiver is dropped with what it has not delivered.
Close(s) ==
  /\ open' = [open EXCEPT ![s] = FALSE]
  /\ channel' = [channel EXCEPT ![s] = << >>]
  /\ task' = [task EXCEPT ![s] = IF @ = "done" THEN "none" ELSE @]
  /\ UNCHANGED << draft, orphaned >>

\* Until the transport notices that the client is gone, it takes what the task
\* sends, for nobody.
SendToNobody(s) ==
  /\ open[s] /\ stream # s
  /\ channel[s] # << >>
  /\ channel' = [channel EXCEPT ![s] = Tail(@)]
  /\ UNCHANGED << backendVars, clock, failures, task, draft, open, orphaned, clientVars, events,
                  appVars >>

Notice(s) ==
  /\ open[s] /\ stream # s
  /\ Close(s)
  /\ UNCHANGED << backendVars, clock, failures, clientVars, events, appVars >>
-----------------------------------------------------------------------------
(* run_signal_stream.  What it sends to App waits for room in the channel;  *)
(* a snapshot in its hands counts as not yet received.                      *)

Move(from, to) == pc = from /\ pc' = to

Emit(event) == Len(events) < EventSize /\ events' = Append(events, event)

Connect ==
  /\ Move("connect", "subscribe")
  /\ connected' = TRUE
  /\ UNCHANGED << backendVars, clock, failures, gatewayVars, stream, polled, refresh, events,
                  appVars >>

ConnectFails ==
  /\ Failure
  /\ Move("connect", "wait")
  /\ Emit(Nothing)
  /\ UNCHANGED << backendVars, clock, gatewayVars, connected, stream, polled, refresh, appVars >>

\* subscribe_signals always succeeds in the gateway: it spawns the task, here
\* in some free slot; which one makes no difference.
Spawn(s) ==
  /\ task[s] = "none"
  /\ s = CHOOSE free \in Slot : task[free] = "none"
  /\ task' = [task EXCEPT ![s] = "build"]
  /\ open' = [open EXCEPT ![s] = TRUE]
  /\ UNCHANGED << draft, channel, orphaned >>

Subscribe(s) ==
  /\ Spawn(s)
  /\ Move("subscribe", "stream")
  /\ stream' = s
  /\ UNCHANGED << backendVars, clock, failures, connected, polled, refresh, events, appVars >>

\* The request or its reply is lost, or late.
SubscribeFails ==
  /\ Failure
  /\ Move("subscribe", "poll")
  /\ Emit(Nothing)
  /\ UNCHANGED gatewayVars \/ \E s \in Slot : Spawn(s)
  /\ UNCHANGED << backendVars, clock, connected, stream, polled, refresh, appVars >>

Receive ==
  /\ pc = "stream"
  /\ channel[stream] # << >>
  /\ Emit(Head(channel[stream]))
  /\ channel' = [channel EXCEPT ![stream] = Tail(@)]
  /\ UNCHANGED << backendVars, clock, failures, task, draft, open, orphaned, clientVars, appVars >>

\* map_stream_snapshot rejects it; the stream goes on.
DecodeFails ==
  /\ Failure
  /\ pc = "stream"
  /\ channel[stream] # << >>
  /\ Emit(Nothing)
  /\ channel' = [channel EXCEPT ![stream] = Tail(@)]
  /\ UNCHANGED << backendVars, clock, task, draft, open, orphaned, clientVars, appVars >>

\* The error of the task, which is the last the gateway's stream delivers, or a
\* transport error, of which the gateway need not know.
StreamOver ==
  \/ /\ task[stream] = "done" /\ channel[stream] = << >>
     /\ Close(stream) /\ UNCHANGED failures
  \/ Failure /\ UNCHANGED gatewayVars

\* Variant: a stream that ended is not reported.
StreamEndsSilently ==
  /\ Move("stream", "wait")
  /\ StreamOver
  /\ connected' = FALSE /\ stream' = NoSlot
  /\ UNCHANGED << backendVars, clock, polled, refresh, events, appVars >>

StreamEnds ==
  /\ Move("stream", "wait")
  /\ StreamOver
  /\ Emit(Nothing)
  /\ connected' = FALSE /\ stream' = NoSlot
  /\ UNCHANGED << backendVars, clock, polled, refresh, appVars >>

\* fetch_snapshot_via_polling: GetOpsStatus, then Predict per symbol.
PollStatus ==
  /\ Move("poll", "pollPredict")
  /\ clock' = Later
  /\ polled' = Taken
  /\ UNCHANGED << backendVars, failures, gatewayVars, connected, stream, refresh, events, appVars >>

PollPredict ==
  /\ level # "hard"
  /\ Move("pollPredict", "wait")
  /\ Emit(polled)
  /\ polled' = Nothing
  /\ UNCHANGED << backendVars, clock, failures, gatewayVars, connected, stream, refresh, appVars >>

PollFails ==
  /\ \/ pc = "pollPredict" /\ level = "hard" /\ UNCHANGED failures
     \/ pc \in {"poll", "pollPredict"} /\ Failure
  /\ pc' = "wait"
  /\ Emit(Nothing)
  /\ connected' = FALSE
  /\ polled' = Nothing
  /\ UNCHANGED << backendVars, clock, gatewayVars, stream, refresh, appVars >>

\* Variant: the task waits for a refresh that only it could cause.
EndWaitOnRefresh ==
  /\ refresh
  /\ Move("wait", IF connected THEN "subscribe" ELSE "connect")
  /\ refresh' = FALSE
  /\ UNCHANGED << backendVars, clock, failures, gatewayVars, connected, stream, polled, events,
                  appVars >>

\* The refresh interval is over, or a key press cuts it short.
EndWait ==
  /\ Move("wait", IF connected THEN "subscribe" ELSE "connect")
  /\ refresh' \in {refresh, FALSE}
  /\ UNCHANGED << backendVars, clock, failures, gatewayVars, connected, stream, polled, events,
                  appVars >>

\* try_send into a channel of one: a second press is dropped.
PressRefresh ==
  /\ ~ refresh
  /\ refresh' = TRUE
  /\ UNCHANGED << backendVars, clock, failures, gatewayVars, pc, connected, stream, polled,
                  events, appVars >>
-----------------------------------------------------------------------------
(* App *)

Latest(c) == IF c = << >> THEN Nothing ELSE Last(c)

\* Variant: the DELETE keeps the first.
SavedKeepsOldest(c, x) ==
  LET all == Append(c, x)
  IN  IF Len(all) <= CacheSize THEN all ELSE SubSeq(all, 1, CacheSize)

\* save_snapshot: INSERT, then DELETE all but the last.
Saved(c, x) ==
  LET all == Append(c, x)
  IN  IF Len(all) <= CacheSize THEN all ELSE SubSeq(all, Len(all) - CacheSize + 1, Len(all))

\* mark_degraded: what is shown stays; an empty table takes the cached snapshot,
\* if it can be read.
MarkDegraded ==
  /\ degraded' = TRUE
  /\ shown' \in IF shown = Nothing THEN {Latest(cache'), Nothing} ELSE {shown}

TakeEvent ==
  /\ events # << >>
  /\ events' = Tail(events)
  /\ UNCHANGED << backendVars, clock, gatewayVars, clientVars >>

ApplySnapshot ==
  /\ TakeEvent
  /\ Head(events) # Nothing
  /\ cache' = Saved(cache, Head(events))
  /\ shown' = Head(events)
  /\ degraded' = FALSE
  /\ UNCHANGED failures

\* Variant: the snapshot is shown although it could not be saved.
ApplyUnsavedShown ==
  /\ TakeEvent
  /\ Head(events) # Nothing
  /\ Failure
  /\ shown' = Head(events)
  /\ degraded' = TRUE
  /\ UNCHANGED cache

\* A snapshot that could not be inserted, or after which the old ones could not
\* be deleted, is not shown: "cache write failed".
ApplyUnsaved ==
  /\ TakeEvent
  /\ Head(events) # Nothing
  /\ Failure
  /\ cache' \in {cache, Append(cache, Head(events))}
  /\ MarkDegraded

ApplyDegraded ==
  /\ TakeEvent
  /\ Head(events) = Nothing
  /\ UNCHANGED << failures, cache >>
  /\ MarkDegraded

\* The terminal is closed or dies, and is started again: App::new shows the
\* cached snapshot, saves it once more, and calls it cached.
Restart ==
  /\ Failure
  /\ pc' = "connect" /\ connected' = FALSE /\ stream' = NoSlot
  /\ polled' = Nothing /\ refresh' = FALSE /\ events' = << >>
  /\ cache' = IF cache = << >> THEN cache ELSE Saved(cache, Last(cache))
  /\ shown' = Latest(cache)
  /\ degraded' = TRUE
  /\ UNCHANGED << backendVars, clock, gatewayVars >>
-----------------------------------------------------------------------------
TaskStep(s) ==
  \/ ReadStatus(s) \/ Predict(s) \/ Audit(s) \/ BuildFails(s)
  \/ Send(s) \/ SendError(s) \/ Wake(s)

ClientStep ==
  \/ Connect \/ ConnectFails \/ (\E s \in Slot : Subscribe(s)) \/ SubscribeFails
  \/ Receive \/ DecodeFails \/ StreamEnds
  \/ PollStatus \/ PollPredict \/ PollFails
  \/ EndWait

AppStep == ApplySnapshot \/ ApplyUnsaved \/ ApplyDegraded

Next ==
  \/ \E a \in Switches : SwitchLevel(a)
  \/ \E s \in Slot : TaskStep(s) \/ TaskHangs(s) \/ SendToNobody(s) \/ Notice(s)
  \/ ClientStep
  \/ PressRefresh
  \/ AppStep
  \/ Restart

Spec == Init /\ [][Next]_vars

\* Requests that do not hang are answered or fail, timers fire, and both event
\* loops go on: those of the client have a deadline, and its stream delivers
\* what the gateway sends, or breaks (tcp_keepalive).  Nothing makes the gateway
\* notice that a client is gone.
Fairness ==
  /\ \A s \in Slot : WF_vars(TaskStep(s))
  /\ WF_vars(ClientStep)
  /\ WF_vars(AppStep)

FairSpec == Spec /\ Fairness
-----------------------------------------------------------------------------
\* What is on the screen survives the terminal: the cache ends with it or with
\* something newer, whatever failed (apply_snapshot saves before it shows).
ShownIsCached == Latest(cache).at >= shown.at

\* The banner says CONNECTED only while the client has a connection, or the
\* news of its loss is on the way to App.
ConnectedIsTrue == degraded \/ connected \/ Contains(events, Nothing)

\* The table never goes back in time, not through a reconnect, the polling
\* fallback, a failing cache or a restart of the terminal.
NeverBackwards == [][shown'.at >= shown.at]_vars

\* Once the receiver of a subscription is gone, its task builds and audits at
\* most one more snapshot.
OneOrphanAtMost == \A s \in Slot : orphaned[s] <= 1

\* The threat board shows a hard kill only when it is over: while it is in
\* effect no prediction passes, hence no snapshot; one that does name "hard"
\* was begun under it and finished after the level had changed again.
HardIsOver ==
  \A x \in {shown, Latest(cache)} \cup ToSet(events) : x.level = "hard" => x.switches < switches

\* A task whose receiver is gone ends, its next send fails; unless a request of
\* it is never answered.
OrphanEnds ==
  \A s \in Slot : (task[s] # "none" /\ ~ open[s]) ~> (task[s] \in {"none", "hung"} \/ open[s])

\* The client waits for a stream whose task hangs: message() has no deadline.
Silent == pc = "stream" /\ task[stream] = "hung"

\* The feed recovers from any failure by itself, unless the hard kill stays, or
\* the task at the other end of the stream hangs.
Recovers == degraded ~> (~ degraded \/ level = "hard" \/ Silent)
=============================================================================
