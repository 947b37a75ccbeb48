------------------------------ MODULE Gateway ------------------------------
(***************************************************************************)
(* The unary handlers of rust/vps1-serving/src/gateway.rs, composed of the *)
(* HTTP call to the Python backend (KillSwitch, seen here one request at a *)
(* time) and of write_event of the Rust audit (AuditWriter, step by step). *)
(*                                                                         *)
(* Seven handlers record what they are about to answer; GetFocusBundle and *)
(* GetOpsStatus do not.  A task is the handler of one request.             *)
(* Three processes and two networks fail independently of each other: the  *)
(* client gives up after 12 s and the handler's future is dropped; the     *)
(* gateway dies; a reply of the backend is lost; the backend serves a      *)
(* request nobody waits for any more; Postgres or S3 refuses the event.    *)
(***************************************************************************)
EXTENDS KillSwitch

CONSTANTS Task, NoTask, MaxRows, MayLoseReply, MayCrash,  \* see AuditWriter
          MayFailBackend,  \* audit.append of the backend may raise
          MayDrop          \* deadlines and lost replies

VARIABLES rows, manifests, latest, dated, lastHash, buffered, holder, pc, row,
          acked, replyLost \* see AuditWriter

\* Each request writes an event of its own.
W == INSTANCE AuditWriter WITH Event <- Task

ASSUME GatewayAssumption ==
  /\ W!ConstantsAssumption
  /\ MayFailBackend \in BOOLEAN
  /\ MayDrop \in BOOLEAN

VARIABLES
  enabled,    \* RUST_AUDIT_ENABLED; without it NoopAuditWriter stands in for the writer
  request,    \* what is asked for; an operator's action has two approvers or none
  stage,      \* where the handler is, or what the client was told
  server,     \* what the backend makes of the request
  backendLog, \* the requests the backend's own audit has an event of
  setBy       \* the request that set the level in effect

writerVars  == << rows, manifests, latest, dated, lastHash, buffered, holder, pc,
                  row, acked, replyLost >>
gatewayVars == << enabled, level, request, stage, server, backendLog, setBy >>
vars        == << writerVars, gatewayVars >>

Intel  == {"board", "event", "impact"}   \* GetNewsIntelBoard, GetEventIntel, GetEventImpact
Ml     == {"support", "calibration"}     \* GetMlDecisionSupport, GetMlCalibrationStatus
Silent == {"focus", "ops"}               \* GetFocusBundle, GetOpsStatus: no audit event

\* What the backend answers without an event in its own audit.
Unlogged == {"impact", "calibration", "ops"}

Request ==
  [action : {"predict"} \cup Intel \cup Ml \cup Silent, approvers : {<< >>}]
  \cup [action : Action, approvers : {<< >>} \cup (Approver \X Approver)]

\* The client is told one of the last four.
Stage  == {"new", "backend", "audit", "ok", "backend_error", "unaudited", "deadline"}
Server == {"none", "pending", "served", "refused"}

TypeOK ==
  /\ W!TypeOK
  /\ enabled \in BOOLEAN
  /\ level \in Level
  /\ request \in [Task -> Request]
  /\ stage \in [Task -> Stage]
  /\ server \in [Task -> Server]
  /\ backendLog \subseteq Task
  /\ setBy \in Task \cup {NoTask}

Init ==
  /\ W!Init
  /\ enabled \in BOOLEAN
  /\ level = "off"
  /\ request = [t \in Task |-> [action |-> "predict", approvers |-> << >>]]
  /\ stage = [t \in Task |-> "new"]
  /\ server = [t \in Task |-> "none"]
  /\ backendLog = {}
  /\ setBy = NoTask
-----------------------------------------------------------------------------
Move(t, from, to) == stage[t] = from /\ stage' = [stage EXCEPT ![t] = to]

Serve(t, outcome) ==
  server[t] = "pending" /\ server' = [server EXCEPT ![t] = outcome]

Asks(t, kinds) == request[t].action \in kinds

IsSwitch(t) == Asks(t, Action)

Accepted(t) ==
  /\ Asks(t, {"predict"}) => level # "hard"
  /\ IsSwitch(t) => Accepts(request[t].action, request[t].approvers)

\* Some requests may be refused for what else they carry: features that break
\* the contract, an event that is no longer listed, the role, the token, the
\* signature or the name of an operator's action.
Refusable(t) == ~ Accepted(t) \/ Asks(t, {"predict", "event", "support"} \cup Action)

\* A request arrives, and the handler posts it to the backend.
Receive(t, r) ==
  /\ Move(t, "new", "backend")
  /\ request' = [request EXCEPT ![t] = r]
  /\ server' = [server EXCEPT ![t] = "pending"]
  /\ UNCHANGED << writerVars, enabled, level, backendLog, setBy >>

ApplySwitch(t) ==
  IF IsSwitch(t) THEN level' = LevelAfter(request[t].action) /\ setBy' = t
  ELSE UNCHANGED << level, setBy >>

(* The backend works whether or not a handler still waits for it. *)

BackendServes(t) ==
  /\ Accepted(t)
  /\ Serve(t, "served")
  /\ ApplySwitch(t)
  /\ backendLog' = IF Asks(t, Unlogged) THEN backendLog ELSE backendLog \cup {t}
  /\ UNCHANGED << writerVars, enabled, request, stage >>

BackendRefuses(t) ==
  /\ Refusable(t)
  /\ Serve(t, "refused")
  /\ UNCHANGED << writerVars, enabled, level, request, stage, backendLog, setBy >>

\* audit.append raises after the level was changed, and no reply is sent.
BackendBreaks(t) ==
  /\ MayFailBackend
  /\ Accepted(t) /\ ~ Asks(t, Unlogged)
  /\ Serve(t, "refused")
  /\ ApplySwitch(t)
  /\ UNCHANGED << writerVars, enabled, request, stage, backendLog >>
-----------------------------------------------------------------------------
(* The handler. *)

\* record_audit calls write_event with the event of this request; the writer of
\* a gateway without an audit returns Ok at once.
RecordAudit(t) ==
  /\ \/ enabled /\ Move(t, "backend", "audit") /\ W!Call(t, t)
     \/ ~ enabled /\ Move(t, "backend", "ok") /\ UNCHANGED writerVars
  /\ UNCHANGED << enabled, level, request, server, backendLog, setBy >>

\* Variant: the event is written before the reply is looked at.
ForwardEarly(t) == server[t] # "none" /\ Asks(t, Action \cup {"predict"}) /\ RecordAudit(t)

\* The backend's answer is 200.
Forward(t) == server[t] = "served" /\ Asks(t, Action \cup {"predict"}) /\ RecordAudit(t)

\* Variant: the read is answered as soon as it is there.
ForwardIntelUnaudited(t) ==
  /\ server[t] = "served" /\ Asks(t, Intel)
  /\ Move(t, "backend", "ok")
  /\ UNCHANGED << writerVars, enabled, level, request, server, backendLog, setBy >>

\* What was fetched decodes as what was asked for; it is mapped, recorded, and
\* only then answered.
ForwardIntel(t) == server[t] = "served" /\ Asks(t, Intel) /\ RecordAudit(t)

\* Features that are missing are taken from the market data or made up first:
\* best effort, without an effect on the request.
ForwardMl(t) == server[t] = "served" /\ Asks(t, Ml) /\ RecordAudit(t)

\* A bundle; or, when it could not be fetched, a bundle of history and digest,
\* either of which is empty when it could not be fetched: never an error.
AnswerFocus(t) ==
  /\ Asks(t, {"focus"})
  /\ server[t] \in {"served", "refused"} \/ MayDrop
  /\ Move(t, "backend", "ok")
  /\ UNCHANGED << writerVars, enabled, level, request, server, backendLog, setBy >>

\* Variant: the status of the audit stands in for the one of the backend.
AnswerOpsAlways(t) ==
  /\ Asks(t, {"ops"})
  /\ Move(t, "backend", "ok")
  /\ UNCHANGED << writerVars, enabled, level, request, server, backendLog, setBy >>

\* The level comes from the backend, the chain status from the Rust audit, which
\* walks the table (if it is enabled): an error of either is the answer.
AnswerOps(t) ==
  /\ Asks(t, {"ops"})
  /\ server[t] = "served"
  /\ Move(t, "backend", "ok") \/ (enabled /\ Move(t, "backend", "unaudited"))
  /\ UNCHANGED << writerVars, enabled, level, request, server, backendLog, setBy >>

\* map_backend_error: an error status, or a connection that broke under a
\* request the backend may still serve, or has served.
BackendFails(t) ==
  /\ ~ Asks(t, {"focus"})
  /\ server[t] = "refused" \/ MayDrop
  /\ Move(t, "backend", "backend_error")
  /\ UNCHANGED << writerVars, enabled, level, request, server, backendLog, setBy >>

\* write_event returns, and the client gets Ok or map_audit_error.
WriteReturns(t) ==
  /\ \/ (W!InsertFails(t) \/ W!ReplyLost(t) \/ W!FlushFails(t)) /\ Move(t, "audit", "unaudited")
     \/ (W!ReplyNotDue(t) \/ W!Clear(t)) /\ Move(t, "audit", "ok")
  /\ UNCHANGED << enabled, level, request, server, backendLog, setBy >>

WriteGoesOn(t) ==
  /\ \/ W!Lock(t) \/ W!InsertCommits(t) \/ W!ReplyDue(t)
     \/ W!PutManifest(t) \/ W!PutLatest(t) \/ W!PutDated(t)
  /\ UNCHANGED gatewayVars

\* The 12 s of the client are over, and the handler's future is dropped
\* wherever it is; the guard of the mutex is dropped with it.
Deadline(t) ==
  /\ MayDrop
  /\ \/ Move(t, "backend", "deadline") /\ UNCHANGED writerVars
     \/ /\ Move(t, "audit", "deadline")
        /\ W!LeaveQueue(t) \/ W!InsertFails(t) \/ W!ReplyLost(t) \/ W!FlushFails(t)
  /\ UNCHANGED << enabled, level, request, server, backendLog, setBy >>

\* The gateway dies and is restarted; the backend is another process.
CrashRestart ==
  /\ W!CrashRestart
  /\ stage' = [t \in Task |-> IF stage[t] \in {"backend", "audit"} THEN "backend_error"
                              ELSE stage[t]]
  /\ UNCHANGED << enabled, level, request, server, backendLog, setBy >>

Next ==
  \/ \E t \in Task :
       \/ \E r \in Request : Receive(t, r)
       \/ BackendServes(t) \/ BackendRefuses(t) \/ BackendBreaks(t)
       \/ Forward(t) \/ ForwardIntel(t) \/ ForwardMl(t)
       \/ AnswerFocus(t) \/ AnswerOps(t) \/ BackendFails(t)
       \/ WriteGoesOn(t) \/ WriteReturns(t) \/ Deadline(t)
  \/ CrashRestart

Spec == Init /\ [][Next]_vars
-----------------------------------------------------------------------------
Forwarded == {rows[i].event : i \in 1 .. Len(rows)}

\* What a client was told, a prediction, a level, news, a risk assessment, has a
\* row in the audit of the gateway (if it has one: RUST_AUDIT_ENABLED) and an
\* event in the audit of the backend (if the backend audits it at all), for
\* ever, whatever crashes, deadlines and lost replies came between (predict,
\* set_kill_switch, get_*); a focus bundle and the status are the exceptions.
OkIsAuditedTwice ==
  \A t \in Task : stage[t] = "ok" /\ ~ Asks(t, Silent) =>
     (enabled => t \in Forwarded) /\ (Asks(t, Unlogged) \/ t \in backendLog)

\* Ok is never the answer to a request the backend refused, could not serve or
\* has not answered, except for a focus bundle, whose parts default to empty.
OkWasServed == \A t \in Task : stage[t] = "ok" => Asks(t, {"focus"}) \/ server[t] = "served"

\* The gateway's audit never has an event of a request that the backend did
\* not serve, and audit, first: neither log tells of what did not happen.
ForwardedWasServed ==
  \A t \in Forwarded : server[t] = "served" /\ (Asks(t, Unlogged) \/ t \in backendLog)

\* Why these hold: only a served request is forwarded, a task is in write_event
\* exactly while its handler is in record_audit and with its own event, and the
\* row is there before write_event can return Ok.
HandlerInv ==
  /\ stage \in [Task -> Stage] /\ server \in [Task -> Server]
  /\ OkWasServed
  /\ \A t \in Task : stage[t] = "ok" /\ ~ Asks(t, Silent) /\ enabled => t \in Forwarded
  /\ \A t \in Forwarded : t \in Task /\ server[t] = "served"
  /\ \A t \in Task : stage[t] = "new" => server[t] = "none"
  /\ \A t \in Task : server[t] = "served" => Asks(t, Unlogged) \/ t \in backendLog
  /\ \A t \in Task : pc[t] # "idle" => server[t] = "served" /\ row[t].event = t
  /\ \A t \in Task : stage[t] = "audit" => pc[t] # "idle"
  /\ \A t \in Task : pc[t] \in {"inserted"} \cup W!Flushing => t \in Forwarded

\* The handlers use the audit writer as it expects to be used: what is proved
\* of AuditWriter holds of the gateway.
UsesAuditWriter == W!Spec

\* SetKillSwitch fails closed when its event cannot be written: the level it
\* asked for is not in effect.
FailClosed == \A t \in Task : stage[t] = "unaudited" => setBy # t
=============================================================================
