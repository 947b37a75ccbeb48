--------------------------- MODULE GatewayProofs ---------------------------
(***************************************************************************)
(* Proofs about the gateway: it uses the audit writer as the writer        *)
(* expects, so that what is proved of AuditWriter holds of the gateway.    *)
(***************************************************************************)
EXTENDS Gateway, TLAPS

P == INSTANCE AuditWriterProofs WITH Event <- Task

\* Every step of the gateway is a step of the audit writer, or leaves it alone.
LEMMA GatewayUsesAuditWriter == Spec => UsesAuditWriter
<1>1. Init => W!Init
  BY DEF Init
<1>2. [Next]_vars => [W!Next]_(W!vars)
  <2> SUFFICES ASSUME [Next]_vars PROVE [W!Next]_(W!vars)
    OBVIOUS
  <2>1. ASSUME UNCHANGED writerVars PROVE UNCHANGED W!vars
    BY <2>1 DEF writerVars, W!vars
  <2>2. ASSUME NEW t \in Task,
               \/ (\E r \in Request : Receive(t, r))
               \/ BackendServes(t) \/ BackendRefuses(t) \/ BackendBreaks(t)
               \/ BackendFails(t) \/ AnswerFocus(t) \/ AnswerOps(t)
        PROVE  UNCHANGED W!vars
    BY <2>1, <2>2 DEF Receive, BackendServes, BackendRefuses, BackendBreaks, BackendFails,
                      AnswerFocus, AnswerOps
  <2>3. ASSUME NEW t \in Task, Forward(t) \/ ForwardIntel(t) \/ ForwardMl(t)
        PROVE  W!Next \/ UNCHANGED W!vars
    BY <2>1, <2>3 DEF Forward, ForwardIntel, ForwardMl, RecordAudit, W!Next
  <2>4. ASSUME NEW t \in Task, WriteGoesOn(t) \/ WriteReturns(t) PROVE W!Next
    BY <2>4 DEF WriteGoesOn, WriteReturns, W!Next, W!Advance
  <2>5. ASSUME NEW t \in Task, Deadline(t) PROVE W!Next \/ UNCHANGED W!vars
    BY <2>1, <2>5 DEF Deadline, W!Next, W!Advance
  <2>6. ASSUME CrashRestart PROVE W!Next
    BY <2>6 DEF CrashRestart, W!Next
  <2>7. ASSUME UNCHANGED vars PROVE UNCHANGED W!vars
    BY <2>1, <2>7 DEF vars
  <2>. QED
    BY <2>2, <2>3, <2>4, <2>5, <2>6, <2>7 DEF Next
<1>. QED
  BY <1>1, <1>2, PTL DEF Spec, UsesAuditWriter, W!Spec

\* The two instances of the writer are the same specification.
LEMMA SameWriter == W!Spec => P!Spec
<1>1. W!Init => P!Init
  BY DEF W!Init, P!Init, W!GENESIS, P!GENESIS
<1>2. W!Next => P!Next
  BY DEF W!Next, P!Next, W!Call, P!Call, W!Lock, P!Lock, W!LeaveQueue, P!LeaveQueue,
         W!Advance, P!Advance, W!InsertCommits, P!InsertCommits,
         W!InsertFails, P!InsertFails, W!ReplyLost, P!ReplyLost,
         W!ReplyNotDue, P!ReplyNotDue, W!ReplyDue, P!ReplyDue, W!Remember, P!Remember,
         W!PutManifest, P!PutManifest, W!PutLatest, P!PutLatest, W!PutDated, P!PutDated,
         W!Clear, P!Clear, W!FlushFails, P!FlushFails, W!CrashRestart, P!CrashRestart,
         W!Goto, P!Goto, W!Return, P!Return, W!storeVars, P!storeVars,
         W!Chained, P!Chained, W!Hash, P!Hash, W!BufferedManifest, P!BufferedManifest,
         W!HeadHash, P!HeadHash, W!GENESIS, P!GENESIS, W!Flushing, P!Flushing
<1>3. UNCHANGED W!vars => UNCHANGED P!vars
  BY DEF W!vars, P!vars
<1>. QED
  BY <1>1, <1>2, <1>3, PTL DEF W!Spec, P!Spec

\* Hence the writer's variables keep their types within the gateway.
LEMMA WriterTypeCorrect == Spec => []W!TypeOK
<1>1. P!TypeOK => W!TypeOK
  BY DEF P!TypeOK, W!TypeOK, P!HashValue, W!HashValue, P!Row, W!Row, P!Manifest, W!Manifest,
         P!PC, W!PC, P!Locked, W!Locked, P!Flushing, W!Flushing
<1>2. P!ConstantsAssumption
  BY GatewayAssumption DEF W!ConstantsAssumption, P!ConstantsAssumption
<1>3. P!Spec => []P!TypeOK
  BY <1>2, P!TypeCorrect
<1>. QED
  BY <1>1, <1>3, GatewayUsesAuditWriter, SameWriter, PTL DEF UsesAuditWriter

\* And what the writer promises holds within the gateway, where a deadline may
\* drop a handler wherever it is and the stores may fail under it.  The chain
\* verifies and the manifests are runs of the table until a commit's reply is
\* lost, and even then no row is hashed over anything but an earlier row; no
\* checkpoint is published without its manifest; and an event whose write_event
\* returned is in the table (record_audit).
THEOREM GatewayKeepsAudit ==
  Spec => [](/\ W!ChainVerifiesWhenHeard
             /\ W!RowsAreRooted
             /\ W!AckedIsDurable
             /\ W!CheckpointsAreBacked
             /\ W!ManifestsAreRuns)
<1>0. P!ConstantsAssumption
  BY GatewayAssumption DEF W!ConstantsAssumption, P!ConstantsAssumption
<1>1. P!ChainVerifiesWhenHeard => W!ChainVerifiesWhenHeard
  BY DEF P!ChainVerifiesWhenHeard, W!ChainVerifiesWhenHeard, P!ChainVerifies, W!ChainVerifies,
         P!ChainValid, W!ChainValid, P!ExpectedPrev, W!ExpectedPrev, P!GENESIS, W!GENESIS,
         P!Hash, W!Hash
<1>2. P!AckedIsDurable => W!AckedIsDurable
  BY DEF P!AckedIsDurable, W!AckedIsDurable, P!RowHashes, W!RowHashes
<1>3. P!CheckpointsAreBacked => W!CheckpointsAreBacked
  BY DEF P!CheckpointsAreBacked, W!CheckpointsAreBacked, P!GENESIS, W!GENESIS
<1>4. P!ManifestsAreRuns => W!ManifestsAreRuns
  BY DEF P!ManifestsAreRuns, W!ManifestsAreRuns, P!IsRun, W!IsRun
<1>5. P!RowsAreRooted => W!RowsAreRooted
  BY DEF P!RowsAreRooted, W!RowsAreRooted, P!Hash, W!Hash, P!GENESIS, W!GENESIS
<1>6. /\ P!Spec => []P!ChainVerifiesWhenHeard
      /\ P!Spec => []P!RowsAreRooted
      /\ P!Spec => []P!AckedIsDurable
      /\ P!Spec => []P!CheckpointsAreBacked
      /\ P!Spec => []P!ManifestsAreRuns
  BY <1>0, P!ChainAlwaysVerifies, P!RowsAlwaysRooted, P!AcknowledgedIsDurable, P!CheckpointsAlwaysBacked,
     P!ManifestsAlwaysRuns
<1>. QED
  BY <1>1, <1>2, <1>3, <1>4, <1>5, <1>6, GatewayUsesAuditWriter, SameWriter, PTL DEF UsesAuditWriter

\* Seen from outside, the audit of the gateway is an append-only log of the
\* requests it forwarded, and a seal that only moves forward, as long as no
\* reply of a commit is lost.
THEOREM GatewayImplementsLog == Spec => W!ImplementsAuditLog
<1>0. P!ConstantsAssumption
  BY GatewayAssumption DEF W!ConstantsAssumption, P!ConstantsAssumption
<1>1. P!Log!Init => W!Log!Init
  BY DEF P!Log!Init, W!Log!Init, P!Contents, W!Contents
<1>2. [replyLost' \/ P!Log!Next]_(P!Log!vars) => [replyLost' \/ W!Log!Next]_(W!Log!vars)
  <2>1. P!Log!AppendEvent => W!Log!AppendEvent
    BY DEF P!Log!AppendEvent, W!Log!AppendEvent, P!Contents, W!Contents
  <2>2. P!Log!Seal => W!Log!Seal
    BY DEF P!Log!Seal, W!Log!Seal, P!Contents, W!Contents
  <2>3. P!Log!Tear => W!Log!Tear
    BY DEF P!Log!Tear, W!Log!Tear, P!Contents, W!Contents
  <2>4. UNCHANGED P!Log!vars => UNCHANGED W!Log!vars
    BY DEF P!Log!vars, W!Log!vars, P!Contents, W!Contents
  <2>. QED
    BY <2>1, <2>2, <2>3, <2>4 DEF P!Log!Next, W!Log!Next
<1>3. P!Spec => P!ImplementsAuditLog
  BY <1>0, P!WriterImplementsLog
<1>. QED
  BY <1>1, <1>2, <1>3, GatewayUsesAuditWriter, SameWriter, PTL
  DEF UsesAuditWriter, P!ImplementsAuditLog, W!ImplementsAuditLog

-----------------------------------------------------------------------------
LEMMA ForwardedGrows ==
  ASSUME NEW s \in Seq(W!Row), NEW r \in W!Row, rows = s, rows' = Append(s, r)
  PROVE  Forwarded' = Forwarded \cup {r.event}
<1>1. /\ Len(rows') = Len(s) + 1
      /\ \A i \in 1 .. Len(s) : rows'[i] = s[i]
      /\ rows'[Len(s) + 1] = r
  OBVIOUS
<1>. QED
  BY <1>1 DEF Forwarded

LEMMA InitHandlerInv == Init => HandlerInv
<1> SUFFICES ASSUME Init PROVE HandlerInv
  OBVIOUS
<1>1. rows = << >> /\ pc = [t \in Task |-> "idle"]
  BY DEF Init, W!Init
<1>. QED
  BY <1>1 DEF Init, HandlerInv, Stage, Server, OkWasServed, Forwarded, W!Flushing

LEMMA NextHandlerInv == HandlerInv /\ W!TypeOK /\ [Next]_vars => HandlerInv'
<1> SUFFICES ASSUME HandlerInv, W!TypeOK, [Next]_vars PROVE HandlerInv'
  OBVIOUS
<1> DEFINE Written == {"inserted"} \cup W!Flushing
<1>T. /\ stage \in [Task -> Stage] /\ server \in [Task -> Server]
      /\ \A u \in Task : stage[u] = "ok" => Asks(u, {"focus"}) \/ server[u] = "served"
      /\ \A u \in Task : stage[u] = "ok" /\ ~ Asks(u, Silent) /\ enabled => u \in Forwarded
      /\ \A u \in Forwarded : u \in Task /\ server[u] = "served"
      /\ \A u \in Task : stage[u] = "new" => server[u] = "none"
      /\ \A u \in Task : server[u] = "served" => Asks(u, Unlogged) \/ u \in backendLog
      /\ \A u \in Task : pc[u] # "idle" => server[u] = "served" /\ row[u].event = u
      /\ \A u \in Task : stage[u] = "audit" => pc[u] # "idle"
      /\ \A u \in Task : pc[u] \in Written => u \in Forwarded
  BY DEF HandlerInv, OkWasServed
<1>W. /\ rows \in Seq(W!Row)
      /\ pc \in [Task -> W!PC]
      /\ row \in [Task -> W!Row]
  BY DEF W!TypeOK
\* A step outside record_audit that leaves the requests as they are.
<1>1. ASSUME UNCHANGED << writerVars, enabled, request >>,
             stage' \in [Task -> Stage], server' \in [Task -> Server],
             \A u \in Task : stage'[u] = "audit" => stage[u] = "audit",
             \A u \in Task : stage'[u] = "new" => stage[u] = "new" /\ server'[u] = server[u],
             \A u \in Task : stage'[u] = "ok" /\ stage[u] # "ok" =>
                Asks(u, {"focus"}) \/ (server[u] = "served" /\ (Asks(u, Silent) \/ ~ enabled)),
             \A u \in Task : server[u] = "served" => server'[u] = "served",
             backendLog \subseteq backendLog',
             \A u \in Task : server'[u] = "served" => Asks(u, Unlogged) \/ u \in backendLog'
      PROVE  HandlerInv'
  <2>1. UNCHANGED << rows, pc, row >> /\ Forwarded' = Forwarded
    BY <1>1 DEF writerVars, Forwarded
  <2>2. \A u \in Task : Asks(u, {"focus"})' = Asks(u, {"focus"}) /\ Asks(u, Silent)' = Asks(u, Silent)
                        /\ Asks(u, Unlogged)' = Asks(u, Unlogged)
                        /\ (Asks(u, {"focus"}) => Asks(u, Silent))
    BY <1>1 DEF Asks, Silent, Unlogged
  <2>. QED
    BY <1>1, <2>1, <2>2, <1>T DEF HandlerInv, OkWasServed
<1>2. ASSUME NEW t \in Task, NEW r \in Request, Receive(t, r) PROVE HandlerInv'
  <2>1. /\ UNCHANGED << writerVars, enabled, backendLog >>
        /\ stage[t] = "new" /\ stage' = [stage EXCEPT ![t] = "backend"]
        /\ server' = [server EXCEPT ![t] = "pending"]
        /\ request' = [request EXCEPT ![t] = r]
    BY <1>2 DEF Receive, Move
  <2>2. UNCHANGED << rows, pc, row >> /\ Forwarded' = Forwarded
    BY <2>1 DEF writerVars, Forwarded
  <2>3. server[t] = "none" /\ t \notin Forwarded /\ pc[t] = "idle"
    BY <2>1, <1>T
  <2>4. \A u \in Task \ {t} : request'[u] = request[u]
    BY <2>1
  <2>5. \A u \in Task \ {t} : /\ Asks(u, {"focus"})' = Asks(u, {"focus"})
                              /\ Asks(u, Silent)' = Asks(u, Silent)
                              /\ Asks(u, Unlogged)' = Asks(u, Unlogged)
    BY <2>4 DEF Asks, Silent, Unlogged
  <2>6. stage' \in [Task -> Stage] /\ server' \in [Task -> Server]
    BY <2>1, <1>T DEF Stage, Server
  <2>7. /\ stage'[t] = "backend" /\ server'[t] = "pending"
        /\ \A u \in Task \ {t} : stage'[u] = stage[u] /\ server'[u] = server[u]
    BY <2>1, <1>T
  <2>. QED
    BY <2>1, <2>2, <2>3, <2>5, <2>6, <2>7, <1>T DEF HandlerInv, OkWasServed
<1>3. ASSUME NEW t \in Task, BackendServes(t) \/ BackendRefuses(t) \/ BackendBreaks(t)
      PROVE  HandlerInv'
  <2>1. /\ UNCHANGED << writerVars, enabled, stage, request >>
        /\ server[t] = "pending"
        /\ \/ /\ server' = [server EXCEPT ![t] = "served"]
              /\ backendLog' = IF Asks(t, Unlogged) THEN backendLog ELSE backendLog \cup {t}
           \/ server' = [server EXCEPT ![t] = "refused"] /\ backendLog' = backendLog
    BY <1>3 DEF BackendServes, BackendRefuses, BackendBreaks, Serve
  <2>2. server' \in [Task -> Server]
    BY <2>1, <1>T DEF Server
  <2>3. \A u \in Task : server'[u] = "served" => Asks(u, Unlogged) \/ u \in backendLog'
    BY <2>1, <1>T
  <2>4. /\ \A u \in Task : server[u] = "served" => server'[u] = "served"
        /\ \A u \in Task : stage[u] = "new" => server'[u] = server[u]
        /\ backendLog \subseteq backendLog'
    BY <2>1, <1>T
  <2>. QED
    BY <2>1, <2>2, <2>3, <2>4, <1>1, <1>T
<1>4. ASSUME NEW t \in Task, BackendFails(t) \/ AnswerFocus(t) \/ AnswerOps(t) PROVE HandlerInv'
  <2>1. /\ UNCHANGED << writerVars, enabled, server, backendLog, request >>
        /\ \E s \in {"backend_error", "unaudited", "ok"} :
              /\ stage' = [stage EXCEPT ![t] = s]
              /\ s = "ok" => Asks(t, {"focus"}) \/ (Asks(t, {"ops"}) /\ server[t] = "served")
    BY <1>4 DEF BackendFails, AnswerFocus, AnswerOps, Move
  <2>2. Asks(t, {"ops"}) => Asks(t, Silent)
    BY DEF Asks, Silent
  <2>3. stage' \in [Task -> Stage]
    BY <2>1, <1>T DEF Stage
  <2>. QED
    BY <2>1, <2>2, <2>3, <1>1, <1>T
<1>5. ASSUME NEW t \in Task, Forward(t) \/ ForwardIntel(t) \/ ForwardMl(t), ~ enabled
      PROVE  HandlerInv'
  <2>1. /\ UNCHANGED << writerVars, enabled, server, backendLog, request >>
        /\ stage' = [stage EXCEPT ![t] = "ok"]
        /\ server[t] = "served"
    BY <1>5 DEF Forward, ForwardIntel, ForwardMl, RecordAudit, Move
  <2>2. stage' \in [Task -> Stage]
    BY <2>1, <1>T DEF Stage
  <2>. QED
    BY <1>5, <2>1, <2>2, <1>1, <1>T
<1>11. ASSUME NEW t \in Task, Forward(t) \/ ForwardIntel(t) \/ ForwardMl(t), enabled
       PROVE  HandlerInv'
  <2>1. /\ server[t] = "served" /\ UNCHANGED << rows, enabled, server, backendLog, request >>
        /\ stage' = [stage EXCEPT ![t] = "audit"]
        /\ pc' = [pc EXCEPT ![t] = "lock"]
        /\ row' = [row EXCEPT ![t].event = t]
    BY <1>11 DEF Forward, ForwardIntel, ForwardMl, RecordAudit, Move, W!Call, W!Goto, W!storeVars
  <2>2. row'[t].event = t /\ \A u \in Task : u # t => row'[u] = row[u]
    BY <2>1, <1>W DEF W!Row
  <2>3. stage' \in [Task -> Stage] /\ Forwarded' = Forwarded
    BY <2>1, <1>T DEF Stage, Forwarded
  <2>4. "lock" \notin Written /\ "lock" # "idle"
    BY DEF W!Flushing
  <2>5. \A u \in Task : /\ Asks(u, {"focus"})' = Asks(u, {"focus"})
                        /\ Asks(u, Silent)' = Asks(u, Silent)
                        /\ Asks(u, Unlogged)' = Asks(u, Unlogged)
    BY <2>1 DEF Asks, Silent, Unlogged
  <2>. QED
    BY <2>1, <2>2, <2>3, <2>4, <2>5, <1>T, <1>W DEF HandlerInv, OkWasServed
\* A task leaves write_event, and its handler is told how it went.
<1>6. ASSUME NEW t \in Task, NEW s \in Stage \ {"audit", "new"},
             s = "ok" => pc[t] \in Written,
             stage' = [stage EXCEPT ![t] = s],
             pc[t] # "idle",
             pc' = [pc EXCEPT ![t] = "idle"],
             UNCHANGED << rows, row, enabled, server, backendLog, request >>
      PROVE  HandlerInv'
  <2>1. stage' \in [Task -> Stage] /\ Forwarded' = Forwarded
    BY <1>6, <1>T DEF Forwarded
  <2>2. "idle" \notin Written
    BY DEF W!Flushing
  <2>3. /\ \A u \in Task : stage'[u] = "ok" => Asks(u, {"focus"}) \/ server[u] = "served"
        /\ \A u \in Task : stage'[u] = "ok" /\ ~ Asks(u, Silent) /\ enabled => u \in Forwarded
    BY <1>6, <2>2, <1>T
  <2>. QED
    BY <1>6, <2>1, <2>2, <2>3, <1>T, <1>W
    DEF HandlerInv, OkWasServed, Asks, Silent, Unlogged
<1>7. ASSUME NEW t \in Task, WriteReturns(t) \/ Deadline(t) PROVE HandlerInv'
  <2>1. CASE /\ W!LeaveQueue(t) \/ W!InsertFails(t) \/ W!ReplyLost(t) \/ W!FlushFails(t)
             /\ Move(t, "audit", "unaudited") \/ Move(t, "audit", "deadline")
             /\ UNCHANGED << enabled, server, backendLog, request >>
    <3>1. /\ pc' = [pc EXCEPT ![t] = "idle"] /\ pc[t] # "idle"
          /\ UNCHANGED << rows, row >>
      BY <2>1 DEF W!LeaveQueue, W!InsertFails, W!ReplyLost, W!FlushFails, W!Return,
                  W!Goto, W!storeVars, W!Flushing
    <3>2. \E s \in {"unaudited", "deadline"} : stage' = [stage EXCEPT ![t] = s]
      BY <2>1 DEF Move
    <3>. QED
      BY <2>1, <3>1, <3>2, <1>6 DEF Stage
  <2>2. CASE /\ W!ReplyNotDue(t) \/ W!Clear(t)
             /\ Move(t, "audit", "ok")
             /\ UNCHANGED << enabled, server, backendLog, request >>
    <3>1. /\ pc' = [pc EXCEPT ![t] = "idle"] /\ pc[t] \in Written
          /\ UNCHANGED << rows, row >>
      BY <2>2 DEF W!ReplyNotDue, W!Remember, W!Clear, W!Return, W!Goto, W!storeVars, W!Flushing
    <3>2. pc[t] # "idle"
      BY <3>1 DEF W!Flushing
    <3>. QED
      BY <2>2, <3>1, <3>2, <1>6 DEF Stage, Move
  <2>3. CASE /\ Move(t, "backend", "deadline")
             /\ UNCHANGED << writerVars, enabled, server, backendLog, request >>
    BY <2>3, <1>1, <1>T DEF Stage, Move
  <2>. QED
    BY <1>7, <2>1, <2>2, <2>3 DEF WriteReturns, Deadline
<1>8. ASSUME NEW t \in Task, WriteGoesOn(t) PROVE HandlerInv'
  <2>1. UNCHANGED << enabled, stage, server, backendLog, request >>
    BY <1>8 DEF WriteGoesOn, gatewayVars
  <2>2. CASE W!Lock(t)
    <3>1. /\ pc[t] = "lock" /\ pc' = [pc EXCEPT ![t] = "insert"]
          /\ row' = [row EXCEPT ![t] = W!Chained(row[t].event, lastHash)]
          /\ UNCHANGED rows
      BY <2>2 DEF W!Lock, W!Goto, W!storeVars
    <3>2. \A u \in Task : row'[u].event = row[u].event
      BY <3>1, <1>W DEF W!Chained
    <3>3. "insert" \notin Written /\ Forwarded' = Forwarded
      BY <3>1 DEF W!Flushing, Forwarded
    <3>. QED
      BY <2>1, <3>1, <3>2, <3>3, <1>T, <1>W
      DEF HandlerInv, OkWasServed, Asks, Silent, Unlogged
  <2>3. CASE W!InsertCommits(t)
    <3>1. /\ pc[t] = "insert" /\ pc' = [pc EXCEPT ![t] = "inserted"]
          /\ rows' = Append(rows, row[t]) /\ UNCHANGED row
      BY <2>3 DEF W!InsertCommits, W!Goto
    <3>2. Forwarded' = Forwarded \cup {t} /\ server[t] = "served"
      BY <3>1, <1>T, <1>W, ForwardedGrows
    <3>. QED
      BY <2>1, <3>1, <3>2, <1>T, <1>W
      DEF HandlerInv, OkWasServed, Asks, Silent, Unlogged
  <2>4. CASE W!ReplyDue(t) \/ W!PutManifest(t) \/ W!PutLatest(t) \/ W!PutDated(t)
    <3>1. /\ pc[t] \in Written
          /\ \E l \in W!Flushing : pc' = [pc EXCEPT ![t] = l]
          /\ UNCHANGED << rows, row >>
      BY <2>4 DEF W!ReplyDue, W!Remember, W!PutManifest, W!PutLatest, W!PutDated,
                  W!Goto, W!storeVars, W!Flushing
    <3>2. "idle" \notin Written /\ Forwarded' = Forwarded
      BY <3>1 DEF W!Flushing, Forwarded
    <3>. QED
      BY <2>1, <3>1, <3>2, <1>T, <1>W
      DEF HandlerInv, OkWasServed, Asks, Silent, Unlogged
  <2>. QED
    BY <1>8, <2>2, <2>3, <2>4 DEF WriteGoesOn
<1>9. ASSUME CrashRestart PROVE HandlerInv'
  <2>1. /\ pc' = [u \in Task |-> "idle"]
        /\ UNCHANGED << rows, row, enabled, server, backendLog, request >>
        /\ stage' = [u \in Task |-> IF stage[u] \in {"backend", "audit"} THEN "backend_error"
                                    ELSE stage[u]]
    BY <1>9 DEF CrashRestart, W!CrashRestart, W!storeVars
  <2>2. stage' \in [Task -> Stage] /\ Forwarded' = Forwarded
    BY <2>1, <1>T DEF Stage, Forwarded
  <2>. QED
    BY <2>1, <2>2, <1>T DEF HandlerInv, OkWasServed, Asks, Silent, Unlogged, W!Flushing
<1>10. ASSUME UNCHANGED vars PROVE HandlerInv'
  BY <1>10, <1>1, <1>T DEF vars, gatewayVars
<1>. QED
  BY <1>2, <1>3, <1>4, <1>5, <1>11, <1>7, <1>8, <1>9, <1>10 DEF Next

LEMMA HandlerInvHolds == Spec => []HandlerInv
BY InitHandlerInv, NextHandlerInv, WriterTypeCorrect, PTL DEF Spec

\* Whatever a client was told Ok for is in both audits, for any number of
\* requests and any combination of crashes, deadlines and lost replies.
THEOREM OkAlwaysAuditedTwice == Spec => []OkIsAuditedTwice
<1>1. HandlerInv => OkIsAuditedTwice
  BY DEF HandlerInv, OkIsAuditedTwice, OkWasServed, Asks, Silent
<1>. QED
  BY <1>1, HandlerInvHolds, PTL

\* The gateway's audit tells only of requests the backend served and audited.
THEOREM ForwardedAlwaysServed == Spec => []ForwardedWasServed
<1>1. HandlerInv => ForwardedWasServed
  BY DEF HandlerInv, ForwardedWasServed
<1>. QED
  BY <1>1, HandlerInvHolds, PTL

\* Nobody is told Ok for what the backend did not serve, focus bundles apart.
THEOREM OkAlwaysServed == Spec => []OkWasServed
<1>1. HandlerInv => OkWasServed
  BY DEF HandlerInv
<1>. QED
  BY <1>1, HandlerInvHolds, PTL
-----------------------------------------------------------------------------
(* Types.  The variables of the writer have theirs by WriterTypeCorrect.    *)

GatewayTypes ==
  /\ enabled \in BOOLEAN
  /\ level \in Level
  /\ request \in [Task -> Request]
  /\ stage \in [Task -> Stage]
  /\ server \in [Task -> Server]
  /\ backendLog \subseteq Task
  /\ setBy \in Task \cup {NoTask}

LEMMA InitGatewayTypes == Init => GatewayTypes
<1> SUFFICES ASSUME Init PROVE GatewayTypes
  OBVIOUS
<1>1. [action |-> "predict", approvers |-> << >>] \in Request
  BY DEF Request
<1>. QED
  BY <1>1 DEF Init, GatewayTypes, Level, Stage, Server

LEMMA NextGatewayTypes == GatewayTypes /\ [Next]_vars => GatewayTypes'
<1> SUFFICES ASSUME GatewayTypes, [Next]_vars PROVE GatewayTypes'
  OBVIOUS
<1>M. ASSUME NEW t \in Task, NEW from, NEW to \in Stage, Move(t, from, to)
      PROVE  stage' \in [Task -> Stage]
  BY <1>M DEF Move, GatewayTypes
<1>S. ASSUME NEW t \in Task, NEW outcome \in Server, Serve(t, outcome)
      PROVE  server' \in [Task -> Server]
  BY <1>S DEF Serve, GatewayTypes
<1>A. ASSUME NEW t \in Task, ApplySwitch(t)
      PROVE  level' \in Level /\ setBy' \in Task \cup {NoTask}
  BY <1>A DEF ApplySwitch, LevelAfter, Level, GatewayTypes
\* A step that moves one handler.
<1>1. ASSUME stage' \in [Task -> Stage], UNCHANGED << enabled, level, request, server, backendLog, setBy >>
      PROVE  GatewayTypes'
  BY <1>1 DEF GatewayTypes
<1>2. ASSUME NEW t \in Task, NEW r \in Request, Receive(t, r) PROVE GatewayTypes'
  <2>1. stage' \in [Task -> Stage]
    BY <1>2, <1>M DEF Receive, Stage
  <2>2. request' \in [Task -> Request] /\ server' \in [Task -> Server]
    BY <1>2 DEF Receive, GatewayTypes, Server
  <2>. QED
    BY <1>2, <2>1, <2>2 DEF Receive, GatewayTypes
<1>3. ASSUME NEW t \in Task, BackendServes(t) \/ BackendRefuses(t) \/ BackendBreaks(t)
      PROVE  GatewayTypes'
  <2>1. server' \in [Task -> Server]
    BY <1>3, <1>S DEF BackendServes, BackendRefuses, BackendBreaks, Server
  <2>2. level' \in Level /\ setBy' \in Task \cup {NoTask}
    BY <1>3, <1>A DEF BackendServes, BackendRefuses, BackendBreaks, GatewayTypes
  <2>. QED
    BY <1>3, <2>1, <2>2 DEF BackendServes, BackendRefuses, BackendBreaks, GatewayTypes
<1>4. ASSUME NEW t \in Task,
             \/ Forward(t) \/ ForwardIntel(t) \/ ForwardMl(t)
             \/ AnswerFocus(t) \/ AnswerOps(t) \/ BackendFails(t)
             \/ WriteReturns(t) \/ Deadline(t)
      PROVE  GatewayTypes'
  <2>1. \E from, to : to \in Stage /\ Move(t, from, to)
    BY <1>4 DEF Forward, ForwardIntel, ForwardMl, RecordAudit, AnswerFocus, AnswerOps,
                BackendFails, WriteReturns, Deadline, Stage
  <2>. QED
    BY <1>1, <1>4, <1>M, <2>1
    DEF Forward, ForwardIntel, ForwardMl, RecordAudit, AnswerFocus, AnswerOps, BackendFails,
        WriteReturns, Deadline
<1>5. ASSUME UNCHANGED gatewayVars PROVE GatewayTypes'
  BY <1>5 DEF gatewayVars, GatewayTypes
<1>6. ASSUME CrashRestart PROVE GatewayTypes'
  <2>1. stage' \in [Task -> Stage]
    BY <1>6 DEF CrashRestart, GatewayTypes, Stage
  <2>. QED
    BY <1>1, <1>6, <2>1 DEF CrashRestart
<1>. QED
  BY <1>2, <1>3, <1>4, <1>5, <1>6 DEF Next, WriteGoesOn, vars

\* Every variable of the gateway and of its audit keeps its type (gateway.rs).
THEOREM TypeCorrect == Spec => []TypeOK
<1>1. W!TypeOK /\ GatewayTypes => TypeOK
  BY DEF TypeOK, GatewayTypes
<1>. QED
  BY <1>1, WriterTypeCorrect, InitGatewayTypes, NextGatewayTypes, PTL DEF Spec
=============================================================================
