---------------------------- MODULE AuditWriter ----------------------------
(***************************************************************************)
(* PostgresS3AuditWriter of rust/vps1-serving/src/audit.rs.                *)
(*                                                                         *)
(* Every gRPC handler of the gateway is a task; a task that calls          *)
(* write_event takes the tokio mutex around AuditState, inserts one row in *)
(* Postgres, and, when the flush interval has elapsed, puts a manifest and *)
(* two checkpoint objects to S3 before it clears the buffer.  Each .await  *)
(* on Postgres or S3 is a step of its own: other tasks run in between, the *)
(* request can fail, the handler's future can be dropped, and the process  *)
(* can die.                                                                *)
(***************************************************************************)
EXTENDS HashChain, FiniteSets

CONSTANTS
  Task,          \* concurrent callers of write_event
  NoTask,        \* the mutex is free
  MaxRows,       \* bound: no call starts once the table has this many rows
  MayLoseReply,  \* a committed INSERT may be followed by an error or by the
                 \* drop of the handler's future instead of by its reply
  MayCrash       \* the process may die and be restarted

ASSUME ConstantsAssumption ==
  /\ NoTask \notin Task
  /\ MaxRows \in Nat
  /\ MayLoseReply \in BOOLEAN
  /\ MayCrash \in BOOLEAN

VARIABLES
  rows,      \* table audit_events, in the order of its BIGSERIAL id
  manifests, \* manifest objects in the bucket
  latest,    \* checkpoint_hash of checkpoints/latest.json, GENESIS if absent
  dated,     \* checkpoint hashes of the dated checkpoint objects
  lastHash,  \* AuditState.last_hash
  buffered,  \* AuditState.buffered
  holder,    \* the task that holds the mutex
  pc,        \* where each task is in write_event
  row,       \* the event each task is writing (its content before the lock)
  acked,     \* hashes that write_event returned as Ok
  replyLost  \* history: the reply of a committed INSERT was lost

vars == << rows, manifests, latest, dated, lastHash, buffered, holder, pc,
           row, acked, replyLost >>

storeVars == << rows, manifests, latest, dated >>

\* The steps of write_event taken with the mutex held.
Flushing == {"manifest", "latest", "dated", "clear"}
Locked   == {"insert", "inserted"} \cup Flushing
PC       == {"idle", "lock"} \cup Locked

Manifest == [start : HashValue, end : HashValue, events : Seq(Row)]

TypeOK ==
  /\ rows \in Seq(Row)
  /\ manifests \subseteq Manifest
  /\ latest \in HashValue
  /\ dated \subseteq HashValue
  /\ lastHash \in HashValue
  /\ buffered \in Seq(Row)
  /\ holder \in Task \cup {NoTask}
  /\ pc \in [Task -> PC]
  /\ row \in [Task -> Row]
  /\ acked \subseteq HashValue
  /\ replyLost \in BOOLEAN

Init ==
  /\ rows = << >>
  /\ manifests = {}
  /\ latest = GENESIS
  /\ dated = {}
  /\ lastHash = GENESIS
  /\ buffered = << >>
  /\ holder = NoTask
  /\ pc = [t \in Task |-> "idle"]
  /\ row \in [Task -> {[event |-> e, prev |-> GENESIS, hash |-> GENESIS] : e \in Event}]
  /\ acked = {}
  /\ replyLost = FALSE
-----------------------------------------------------------------------------
Goto(t, label) == pc' = [pc EXCEPT ![t] = label]

\* The guard is dropped with the handler's frame, whatever the result was.
Return(t) == Goto(t, "idle") /\ holder' = NoTask

\* A handler calls write_event with some content and queues for the mutex.
Call(t, e) ==
  /\ pc[t] = "idle"
  /\ Len(rows) < MaxRows
  /\ row' = [row EXCEPT ![t].event = e]
  /\ Goto(t, "lock")
  /\ UNCHANGED << storeVars, lastHash, buffered, holder, acked, replyLost >>

\* The handler's future is dropped while it waits for the mutex.
LeaveQueue(t) ==
  /\ pc[t] = "lock"
  /\ Goto(t, "idle")
  /\ UNCHANGED << storeVars, lastHash, buffered, holder, row, acked, replyLost >>

\* Variant: the event is built before the mutex is taken.
LockUnguarded(t) ==
  /\ pc[t] = "lock"
  /\ holder' = t
  /\ row' = [row EXCEPT ![t] = Chained(row[t].event, lastHash)]
  /\ Goto(t, "insert")
  /\ UNCHANGED << storeVars, lastHash, buffered, acked, replyLost >>

\* The mutex is granted; the event is hashed over the last hash in memory.
Lock(t) ==
  /\ pc[t] = "lock"
  /\ holder = NoTask
  /\ holder' = t
  /\ row' = [row EXCEPT ![t] = Chained(row[t].event, lastHash)]
  /\ Goto(t, "insert")
  /\ UNCHANGED << storeVars, lastHash, buffered, acked, replyLost >>

\* Postgres commits the INSERT; the column event_hash is UNIQUE.
InsertCommits(t) ==
  /\ pc[t] = "insert"
  /\ \A i \in 1 .. Len(rows) : rows[i].hash # row[t].hash
  /\ rows' = Append(rows, row[t])
  /\ Goto(t, "inserted")
  /\ UNCHANGED << manifests, latest, dated, lastHash, buffered, holder, row, acked, replyLost >>

\* Variants of a failing INSERT: reported as Ok; the event already in the
\* buffer; its hash already the last one; the mutex never released.
InsertFailsOk(t) ==
  /\ pc[t] = "insert"
  /\ Return(t)
  /\ acked' = acked \cup {row[t].hash}
  /\ UNCHANGED << storeVars, lastHash, buffered, row, replyLost >>

InsertFailsBuffered(t) ==
  /\ pc[t] = "insert"
  /\ Return(t)
  /\ buffered' = Append(buffered, row[t])
  /\ UNCHANGED << storeVars, lastHash, row, acked, replyLost >>

InsertFailsRemembered(t) ==
  /\ pc[t] = "insert"
  /\ Return(t)
  /\ lastHash' = row[t].hash
  /\ UNCHANGED << storeVars, buffered, row, acked, replyLost >>

InsertFailsLocked(t) ==
  /\ pc[t] = "insert"
  /\ Goto(t, "idle")
  /\ UNCHANGED << storeVars, lastHash, buffered, holder, row, acked, replyLost >>

\* The INSERT fails, or the future is dropped before it was sent: `?` returns.
InsertFails(t) ==
  /\ pc[t] = "insert"
  /\ Return(t)
  /\ UNCHANGED << storeVars, lastHash, buffered, row, acked, replyLost >>

\* The row is committed, but the task sees an error, or no longer exists.
ReplyLost(t) ==
  /\ MayLoseReply
  /\ pc[t] = "inserted"
  /\ Return(t)
  /\ replyLost' = TRUE
  /\ UNCHANGED << storeVars, lastHash, buffered, row, acked >>

\* The event becomes the head of the chain in memory and joins the buffer.
Remember(t) ==
  /\ pc[t] = "inserted"
  /\ lastHash' = row[t].hash
  /\ buffered' = Append(buffered, row[t])

\* The reply arrives before the flush interval has elapsed: Ok(event_hash).
ReplyNotDue(t) ==
  /\ Remember(t)
  /\ acked' = acked \cup {row[t].hash}
  /\ Return(t)
  /\ UNCHANGED << storeVars, row, replyLost >>

\* The reply arrives when the flush is due.
ReplyDue(t) ==
  /\ Remember(t)
  /\ Goto(t, "manifest")
  /\ UNCHANGED << storeVars, holder, row, acked, replyLost >>
-----------------------------------------------------------------------------
(* flush_buffer_locked: the buffer is never empty here. *)

BufferedManifest ==
  [start  |-> buffered[1].prev,
   end    |-> buffered[Len(buffered)].hash,
   events |-> buffered]

\* Variant: a failed manifest put is ignored and the checkpoint published.
PutManifestIgnored(t) ==
  /\ pc[t] = "manifest"
  /\ Goto(t, "latest")
  /\ UNCHANGED << storeVars, lastHash, buffered, holder, row, acked, replyLost >>

PutManifest(t) ==
  /\ pc[t] = "manifest"
  /\ manifests' = manifests \cup {BufferedManifest}
  /\ Goto(t, "latest")
  /\ UNCHANGED << rows, latest, dated, lastHash, buffered, holder, row, acked, replyLost >>

PutLatest(t) ==
  /\ pc[t] = "latest"
  /\ latest' = BufferedManifest.end
  /\ Goto(t, "dated")
  /\ UNCHANGED << rows, manifests, dated, lastHash, buffered, holder, row, acked, replyLost >>

PutDated(t) ==
  /\ pc[t] = "dated"
  /\ dated' = dated \cup {BufferedManifest.end}
  /\ Goto(t, "clear")
  /\ UNCHANGED << rows, manifests, latest, lastHash, buffered, holder, row, acked, replyLost >>

\* buffered.clear(), then write_event returns Ok(event_hash).
Clear(t) ==
  /\ pc[t] = "clear"
  /\ buffered' = << >>
  /\ acked' = acked \cup {row[t].hash}
  /\ Return(t)
  /\ UNCHANGED << storeVars, lastHash, row, replyLost >>

\* Variant: the buffer is cleared although the put failed.
FlushFailsClearing(t) ==
  /\ pc[t] \in Flushing
  /\ buffered' = << >>
  /\ Return(t)
  /\ UNCHANGED << storeVars, lastHash, row, acked, replyLost >>

\* A put fails (perhaps after S3 stored the object), or the future is
\* dropped: the buffer is kept, and write_event does not return Ok.
FlushFails(t) ==
  /\ pc[t] \in Flushing
  /\ Return(t)
  /\ UNCHANGED << storeVars, lastHash, buffered, row, acked, replyLost >>

\* Variant: new starts a chain of its own.
CrashForgets ==
  /\ MayCrash
  /\ lastHash' = GENESIS
  /\ buffered' = << >>
  /\ holder' = NoTask
  /\ pc' = [t \in Task |-> "idle"]
  /\ UNCHANGED << storeVars, row, acked, replyLost >>

\* The process dies with what it had in memory; PostgresS3AuditWriter::new
\* reads the last hash back from the table.
CrashRestart ==
  /\ MayCrash
  /\ lastHash' = HeadHash(rows)
  /\ buffered' = << >>
  /\ holder' = NoTask
  /\ pc' = [t \in Task |-> "idle"]
  /\ UNCHANGED << storeVars, row, acked, replyLost >>
-----------------------------------------------------------------------------
\* The steps of a task that nothing but the scheduler and the network delay.
Advance(t) ==
  \/ InsertCommits(t) \/ InsertFails(t)
  \/ ReplyNotDue(t)   \/ ReplyDue(t)
  \/ PutManifest(t)   \/ PutLatest(t) \/ PutDated(t) \/ Clear(t)

Next ==
  \/ \E t \in Task :
       \/ \E e \in Event : Call(t, e)
       \/ Lock(t)
       \/ LeaveQueue(t)
       \/ Advance(t)
       \/ ReplyLost(t)
       \/ FlushFails(t)
  \/ CrashRestart

Spec == Init /\ [][Next]_vars

\* Postgres and S3 answer every request (the drivers report a lost
\* connection as an error), and tokio's mutex is granted in FIFO order.
Fairness == \A t \in Task : WF_vars(Advance(t)) /\ SF_vars(Lock(t))

FairSpec == Spec /\ Fairness
-----------------------------------------------------------------------------
RowHashes == {rows[i].hash : i \in 1 .. Len(rows)}

Archived == UNION {{m.events[i].hash : i \in 1 .. Len(m.events)} : m \in manifests}

Waiting == {buffered[i].hash : i \in 1 .. Len(buffered)}

\* Each row names the hash of the row before it: status() reports "valid".
ChainVerifies == ChainValid(rows)

\* It does as long as no reply is lost, whatever else fails: the mutex spans
\* reading last_hash, the INSERT and the update of last_hash, failures and
\* restarts included (write_event, new).
ChainVerifiesWhenHeard == ~ replyLost => ChainVerifies

\* Lost replies make the chain fork, but leave no gap: every row was hashed over
\* GENESIS or a row that was committed before it (write_event, new).
RowsAreRooted ==
  \A i \in 1 .. Len(rows) :
     /\ rows[i].hash = Hash(rows[i].event, rows[i].prev)
     /\ rows[i].prev \in {GENESIS} \cup {rows[j].hash : j \in 1 .. i - 1}

\* An event whose hash write_event returned is in Postgres, whatever failed
\* or crashed afterwards.
AckedIsDurable == acked \subseteq RowHashes

\* Every checkpoint object names the end of a manifest already in the bucket:
\* a flush that stops half way never publishes a checkpoint nobody can check.
CheckpointsAreBacked ==
  \A h \in dated \cup (IF latest = GENESIS THEN {} ELSE {latest}) :
     \E m \in manifests : m.end = h

\* A manifest is a contiguous run of the table, with the hashes of its ends.
IsRun(m) ==
  \E i \in 1 .. Len(rows) : \E j \in i .. Len(rows) :
     /\ m.events = SubSeq(rows, i, j)
     /\ m.start = rows[i].prev
     /\ m.end = rows[j].hash

\* Every manifest is one, also when a flush failed and the same events were
\* archived again together with later ones, as long as no row was inserted that
\* the buffer never saw.
ManifestsAreRuns == ~ replyLost => \A m \in manifests : IsRun(m)

\* Committed rows that no manifest holds and no flush will ever see.
Unarchived ==
  RowHashes \ (Archived \cup Waiting
               \cup {row[t].hash : t \in {u \in Task : pc[u] = "inserted"}})

\* Nothing but the death of the process, or a lost reply, leaves a committed
\* row out of the archive: a flush never clears an event it did not put in a
\* manifest.
NoRowDropped ==
  [][CrashRestart \/ (\E t \in Task : ReplyLost(t)) \/ Unarchived' \subseteq Unarchived]_vars

(* The strengthenings that make the invariants above inductive.             *)

\* Exactly the task inside write_event's critical section holds the mutex.
MutexHeld == \A t \in Task : pc[t] \in Locked <=> holder = t

\* Outside the window between COMMIT and the reply, the hash in memory is the
\* hash of the last row.
HeadInMemory == (\A t \in Task : pc[t] # "inserted") => lastHash = HeadHash(rows)

\* The event under way is chained to the head, or is the last row.
EventChained ==
  \A t \in Task :
     /\ pc[t] = "insert" =>
          /\ row[t].prev = lastHash
          /\ row[t].hash = Hash(row[t].event, row[t].prev)
     /\ pc[t] = "inserted" =>
          /\ Len(rows) > 0
          /\ rows[Len(rows)] = row[t]

ChainInv ==
  TypeOK /\ MutexHeld /\ HeadInMemory /\ EventChained /\ ChainVerifies

\* What the next row will be chained to is in the table, or starts a chain.
RootInv ==
  /\ TypeOK
  /\ RowsAreRooted
  /\ lastHash \in {GENESIS} \cup RowHashes
  /\ \A t \in Task :
       /\ pc[t] = "insert" =>
            /\ row[t].prev \in {GENESIS} \cup RowHashes
            /\ row[t].hash = Hash(row[t].event, row[t].prev)
       /\ pc[t] = "inserted" => row[t].hash \in RowHashes

\* The row a task is about to acknowledge is in the table.
AckInv ==
  /\ TypeOK
  /\ AckedIsDurable
  /\ \A t \in Task : pc[t] \in {"inserted"} \cup Flushing => row[t].hash \in RowHashes

\* While a checkpoint is put, the manifest of the same buffer is in the bucket.
BackedInv ==
  /\ TypeOK
  /\ MutexHeld
  /\ \A t \in Task : pc[t] \in Flushing => Len(buffered) > 0
  /\ \A t \in Task : pc[t] \in {"latest", "dated", "clear"} => BufferedManifest \in manifests
  /\ CheckpointsAreBacked

\* The head of the chain commits to the whole table, and so does the last
\* buffered event unless its reply is still on the way.
SealInv ==
  /\ ChainInv
  /\ HeadHash(rows) = Contents(rows)
  /\ Len(buffered) > 0 => buffered[Len(buffered)].hash = lastHash
  /\ Len(latest) <= Len(rows)

\* How many rows the writer knows to be in the table.
Heard == IF \E t \in Task : pc[t] = "inserted" THEN Len(rows) - 1 ELSE Len(rows)

\* The buffer is the run of rows that ends with the last one it heard of.
RunInv ==
  /\ \E first \in 1 .. Heard + 1 : buffered = SubSeq(rows, first, Heard)
  /\ ManifestsAreRuns
-----------------------------------------------------------------------------
\* The table and the latest checkpoint are an append-only log and its seal,
\* until a reply is lost: no failure, restart or repeated flush moves
\* latest.json back.
Log == INSTANCE AuditLog WITH log <- Contents(rows), seal <- {latest}
ImplementsAuditLog == Log!Init /\ [][replyLost' \/ Log!Next]_(Log!vars)

\* Every caller of write_event gets an answer: no error path keeps the mutex.
WriteReturns == \A t \in Task : pc[t] = "lock" ~> pc[t] = "idle"
=============================================================================
