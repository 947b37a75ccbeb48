----------------------------- MODULE AuditStore -----------------------------
(***************************************************************************)
(* AuditStore of src/quant_platform/audit.py: one SQLite connection and    *)
(* one in-memory buffer, shared without a lock by the request threads of   *)
(* ThreadingHTTPServer (main.py).                                          *)
(*                                                                         *)
(* A step is a stretch between two reads or writes of shared state, which  *)
(* is where the interpreter or SQLite may run another thread.  Statements  *)
(* of all threads share the connection's one transaction: an INSERT is     *)
(* visible to every thread at once, durable from the next COMMIT of any    *)
(* thread, and gone when the failing statement of any thread makes SQLite  *)
(* roll the transaction back.                                              *)
(***************************************************************************)
EXTENDS HashChain, FiniteSets, SequencesExt

CONSTANTS
  Thread,         \* request threads
  MaxRows,        \* bound: rows in the table, undone, or about to be inserted
  MaxUndone,      \* bound: so many rows of other calls are rolled back
  MayFailCommit,  \* COMMIT may raise (disk full, database is locked)
  MayCrash,       \* the process may die and be restarted
  Empty, Garbled  \* a checkpoint file with no text, or not with one text

ASSUME ConstantsAssumption ==
  /\ Event # {}
  /\ MaxRows \in Nat
  /\ MaxUndone \in Nat
  /\ MayFailCommit \in BOOLEAN
  /\ MayCrash \in BOOLEAN
  /\ Empty \notin HashValue /\ Garbled \notin HashValue

VARIABLES
  rows,        \* table audit_events as the connection sees it
  committed,   \* how many of the rows are committed
  objectStore, \* manifests in the NDJSON file, oldest first
  checkpoint,  \* checkpoint_hash in the checkpoint file, GENESIS if absent,
               \* or a file that is no checkpoint
  lastHash,    \* _last_event_hash
  buffer,      \* _buffer
  pc,          \* where each thread is
  job,         \* the call each thread is in
  event,       \* the event each thread is appending
  lines,       \* the copy of the buffer each thread is about to write
  seen,        \* the checkpoint hash each thread has read from the table
  acked,       \* hashes of the events append has returned
  lost,        \* history: durable events a crash caught before they were in
               \* the NDJSON file
  undone,      \* history: hashes of the rows that another call's failure
               \* rolled back between their INSERT and their COMMIT
  disturbed    \* history: two calls were under way at once, or a COMMIT raised
               \* and left the row in the open transaction

disk == << rows, committed, objectStore, checkpoint >>
memory == << lastHash, buffer >>
locals == << job, event, lines, seen >>
history == << lost, undone, disturbed >>
results == << acked, history >>
vars == << disk, memory, pc, locals, results >>

PC == {"idle", "hash", "prev", "insert", "commit", "buffer", "last", "flush",
       "build", "write", "clear", "readHead", "openCheckpoint", "fillCheckpoint"}

TypeOK ==
  /\ rows \in Seq(Row)
  /\ committed \in 0 .. Len(rows)
  /\ objectStore \in Seq(Seq(Row))
  /\ checkpoint \in HashValue \cup {Empty, Garbled}
  /\ lastHash \in HashValue
  /\ buffer \in Seq(Row)
  /\ pc \in [Thread -> PC]
  /\ job \in [Thread -> {"append", "checkpoint", "opsAudit"}]
  /\ event \in [Thread -> Row]
  /\ lines \in [Thread -> Seq(Row)]
  /\ seen \in [Thread -> HashValue]
  /\ acked \subseteq HashValue
  /\ lost \subseteq HashValue
  /\ undone \subseteq HashValue
  /\ disturbed \in BOOLEAN

Hashes(s) == {s[i].hash : i \in 1 .. Len(s)}

Durable == SubSeq(rows, 1, committed)

NoEvent == Chained(CHOOSE e \in Event : TRUE, GENESIS)

Init ==
  /\ rows = << >> /\ committed = 0
  /\ objectStore = << >> /\ checkpoint = GENESIS
  /\ lastHash = GENESIS /\ buffer = << >>
  /\ pc = [t \in Thread |-> "idle"]
  /\ job = [t \in Thread |-> "append"]
  /\ event = [t \in Thread |-> NoEvent]
  /\ lines = [t \in Thread |-> << >>]
  /\ seen = [t \in Thread |-> GENESIS]
  /\ acked = {}
  /\ lost = {}
  /\ undone = {}
  /\ disturbed = FALSE
-----------------------------------------------------------------------------
Step(t, from, to) == pc[t] = from /\ pc' = [pc EXCEPT ![t] = to]

\* A call ends: its locals die with its frame.
Leave(t, from) ==
  /\ Step(t, from, "idle")
  /\ job'   = [job   EXCEPT ![t] = "append"]
  /\ event' = [event EXCEPT ![t] = NoEvent]
  /\ lines' = [lines EXCEPT ![t] = << >>]
  /\ seen'  = [seen  EXCEPT ![t] = GENESIS]

\* An exception ends the thread's call; what it changed before stays.
Raise(t, from) ==
  /\ Leave(t, from)
  /\ UNCHANGED << disk, memory, results >>

\* A request comes in, for an idle thread.
Call(t, to, what) ==
  /\ Step(t, "idle", to)
  /\ job' = [job EXCEPT ![t] = what]
  /\ disturbed' = (disturbed \/ \E u \in Thread : pc[u] # "idle")
  /\ UNCHANGED << acked, lost, undone >>

(* append *)

Inserting == {t \in Thread : pc[t] \in {"hash", "prev", "insert"}}

CallAppend(t, e) ==
  /\ Len(rows) + Cardinality(Inserting) + Cardinality(undone) < MaxRows   \* bound
  /\ Call(t, "hash", "append")
  /\ event' = [event EXCEPT ![t] = Chained(e, GENESIS)]
  /\ UNCHANGED << disk, memory, lines, seen >>

\* event_hash is computed over _last_event_hash ...
ComputeHash(t) ==
  /\ Step(t, "hash", "prev")
  /\ event' = [event EXCEPT ![t].hash = Hash(event[t].event, lastHash)]
  /\ UNCHANGED << disk, memory, job, lines, seen, results >>

\* ... which the constructor of AuditEvent reads a second time.
ReadPrev(t) ==
  /\ Step(t, "prev", "insert")
  /\ event' = [event EXCEPT ![t].prev = lastHash]
  /\ UNCHANGED << disk, memory, job, lines, seen, results >>

\* INSERT, within the connection's open transaction; event_hash is UNIQUE.
Insert(t) ==
  /\ \A i \in 1 .. Len(rows) : rows[i].hash # event[t].hash
  /\ Step(t, "insert", "commit")
  /\ rows' = Append(rows, event[t])
  /\ UNCHANGED << committed, objectStore, checkpoint, memory, locals, results >>

\* Variants of a failing INSERT: the head of the chain, or the buffer, is
\* updated before the row is persisted.
InsertRaisesAdvanced(t) ==
  /\ Leave(t, "insert")
  /\ lastHash' = event[t].hash
  /\ UNCHANGED << disk, buffer, results >>

InsertRaisesBuffered(t) ==
  /\ Leave(t, "insert")
  /\ buffer' = Append(buffer, event[t])
  /\ UNCHANGED << disk, lastHash, results >>

\* The rows of other calls that go with the open transaction.
Undone(t) ==
  {event[u].hash : u \in {v \in Thread \ {t} : pc[v] = "commit"}} \ Hashes(Durable)

\* SQLite rolls the transaction back, with the rows of every thread in it.
RollBack(t) ==
  /\ rows' = Durable
  /\ undone' = undone \cup Undone(t)
  /\ Undone(t) \cap undone = {} /\ Cardinality(undone') <= MaxUndone   \* bound
  /\ UNCHANGED << committed, objectStore, checkpoint, memory, acked, lost, disturbed >>

\* UNIQUE undoes the statement, a full disk or an I/O error the transaction.
InsertRaises(t) ==
  \/ Raise(t, "insert")
  \/ Leave(t, "insert") /\ RollBack(t)

\* Variant of COMMIT: forgotten.
CommitForgotten(t) ==
  /\ Step(t, "commit", "buffer")
  /\ UNCHANGED << disk, memory, locals, results >>

\* COMMIT makes the rows of all threads durable.  commit() is silent when there
\* is no transaction, as after another call's failure has rolled it back with
\* this thread's row.
Commit(t) ==
  /\ Step(t, "commit", "buffer")
  /\ committed' = Len(rows)
  /\ UNCHANGED << rows, objectStore, checkpoint, memory, locals, results >>

\* The transaction stays open (the database is locked), and a later COMMIT will
\* include this row; or it is rolled back (the disk is full, an I/O error).
CommitRaises(t) ==
  /\ MayFailCommit
  /\ Leave(t, "commit")
  /\ \/ /\ disturbed' = TRUE
        /\ UNCHANGED << disk, memory, acked, lost, undone >>
     \/ RollBack(t)

BufferEvent(t) ==
  /\ Step(t, "buffer", "last")
  /\ buffer' = Append(buffer, event[t])
  /\ UNCHANGED << disk, lastHash, locals, results >>

\* The new head of the chain; append returns, or flushes first when due.
SetLastHash(t) ==
  /\ lastHash' = event[t].hash
  /\ \/ /\ Leave(t, "last")
        /\ acked' = acked \cup {event[t].hash}
        /\ UNCHANGED history
     \/ /\ Step(t, "last", "flush")
        /\ UNCHANGED << locals, results >>
  /\ UNCHANGED << disk, buffer >>
-----------------------------------------------------------------------------
(* flush_object_store, create_checkpoint, and ops_audit which calls both *)

CallOpsAudit(t) ==
  /\ Call(t, "flush", "opsAudit")
  /\ UNCHANGED << disk, memory, event, lines, seen >>

CallCheckpoint(t) ==
  /\ Call(t, "readHead", "checkpoint")
  /\ UNCHANGED << disk, memory, event, lines, seen >>

\* Where a flush returns to.
AfterFlush(t, from) ==
  IF job[t] = "opsAudit"
  THEN /\ Step(t, from, "readHead")
       /\ UNCHANGED << locals, results >>
  ELSE /\ Leave(t, from)
       /\ acked' = acked \cup {event[t].hash}
       /\ UNCHANGED history

FlushEmpty(t) ==
  /\ buffer = << >>
  /\ AfterFlush(t, "flush")
  /\ UNCHANGED << disk, memory >>

FlushDue(t) ==
  /\ buffer # << >>
  /\ Step(t, "flush", "build")
  /\ UNCHANGED << disk, memory, locals, results >>

\* The lines are built from the buffer as it is now.
FlushBuild(t) ==
  /\ buffer # << >>
  /\ Step(t, "build", "write")
  /\ lines' = [lines EXCEPT ![t] = buffer]
  /\ UNCHANGED << disk, memory, job, event, seen, results >>

\* Another thread has cleared it: lines[0] is an IndexError.
BuildRaises(t) ==
  /\ buffer = << >>
  /\ Raise(t, "build")

FlushWrite(t) ==
  /\ Step(t, "write", "clear")
  /\ objectStore' = Append(objectStore, lines[t])
  /\ UNCHANGED << rows, committed, checkpoint, memory, locals, results >>

\* Variant: the buffer is cleared although the write failed.
WriteRaisesClearing(t) ==
  /\ Leave(t, "write")
  /\ buffer' = << >>
  /\ UNCHANGED << disk, lastHash, results >>

WriteRaises(t) == Raise(t, "write")

\* Variant: the buffer is not cleared.
FlushKeeps(t) ==
  /\ AfterFlush(t, "clear")
  /\ UNCHANGED << disk, memory >>

FlushClear(t) ==
  /\ AfterFlush(t, "clear")
  /\ buffer' = << >>
  /\ UNCHANGED << disk, lastHash >>

ReadHead(t) ==
  /\ Step(t, "readHead", "openCheckpoint")
  /\ seen' = [seen EXCEPT ![t] = HeadHash(rows)]
  /\ UNCHANGED << disk, memory, job, event, lines, results >>

\* write_text opens the file, which empties it, ...
OpenCheckpoint(t) ==
  /\ Step(t, "openCheckpoint", "fillCheckpoint")
  /\ checkpoint' = Empty
  /\ UNCHANGED << rows, committed, objectStore, memory, locals, results >>

OpenRaises(t) == Raise(t, "openCheckpoint")

\* ... and writes from its start.  Only the text that says GENESIS is shorter
\* than the others: over one of them it leaves that one's end behind.
Filled(t) ==
  IF seen[t] = GENESIS /\ checkpoint \notin {Empty, GENESIS} THEN Garbled ELSE seen[t]

FillCheckpoint(t) ==
  /\ Leave(t, "fillCheckpoint")
  /\ checkpoint' = Filled(t)
  /\ UNCHANGED << rows, committed, objectStore, memory, results >>

\* Nothing is written, or a part of it.
FillRaises(t) ==
  /\ Leave(t, "fillCheckpoint")
  /\ checkpoint' \in {checkpoint, Garbled}
  /\ UNCHANGED << rows, committed, objectStore, memory, results >>

Stored == UNION {Hashes(objectStore[i]) : i \in 1 .. Len(objectStore)}

LostByCrash == lost \cup (Hashes(Durable) \ Stored)

\* Variant: the head of the chain is not reloaded.
CrashForgets ==
  /\ MayCrash
  /\ rows' = Durable
  /\ lastHash' = GENESIS
  /\ buffer' = << >>
  /\ pc' = [t \in Thread |-> "idle"]
  /\ lost' = LostByCrash
  /\ UNCHANGED << committed, objectStore, checkpoint, locals, acked, undone, disturbed >>

\* The open transaction is rolled back; __init__ reloads the head of the table.
CrashRestart ==
  /\ MayCrash
  /\ rows' = Durable
  /\ lastHash' = HeadHash(Durable)
  /\ buffer' = << >>
  /\ pc' = [t \in Thread |-> "idle"]
  /\ job' = [t \in Thread |-> "append"]
  /\ event' = [t \in Thread |-> NoEvent]
  /\ lines' = [t \in Thread |-> << >>]
  /\ seen' = [t \in Thread |-> GENESIS]
  /\ lost' = LostByCrash
  /\ UNCHANGED << committed, objectStore, checkpoint, acked, undone, disturbed >>
-----------------------------------------------------------------------------
ThreadStep(t) ==
  \/ \E e \in Event : CallAppend(t, e)
  \/ ComputeHash(t) \/ ReadPrev(t) \/ Insert(t) \/ InsertRaises(t)
  \/ Commit(t) \/ CommitRaises(t) \/ BufferEvent(t) \/ SetLastHash(t)
  \/ CallOpsAudit(t) \/ CallCheckpoint(t)
  \/ FlushEmpty(t) \/ FlushDue(t) \/ FlushBuild(t) \/ BuildRaises(t)
  \/ FlushWrite(t) \/ WriteRaises(t) \/ FlushClear(t)
  \/ ReadHead(t) \/ OpenCheckpoint(t) \/ OpenRaises(t)
  \/ FillCheckpoint(t) \/ FillRaises(t)

Next == (\E t \in Thread : ThreadStep(t)) \/ CrashRestart

Spec == Init /\ [][Next]_vars
-----------------------------------------------------------------------------
\* verify_chain finds every row chained to the one before it.
ChainVerifies == ChainValid(rows)

\* It does as long as calls come one at a time and no COMMIT leaves its row in
\* the open transaction, whatever else fails and however often the process dies.
ChainVerifiesInTurn == ~ disturbed => ChainVerifies

\* What a row at place n may be chained to: nothing, one of the rows before, or
\* a row that another call's failure rolled back under the call that made it.
Roots(n) == {GENESIS} \cup {rows[j].hash : j \in 1 .. n - 1} \cup undone

\* Overlapping calls fork the chain, and a row may even be hashed over another
\* row than the one it names, as append reads _last_event_hash twice.  But each
\* of the two is a row before it or GENESIS, whatever raises or dies: a row hangs
\* on a hash the table does not hold only if a rollback undid it under its call.
RowsAreRooted ==
  \A i \in 1 .. Len(rows) :
     /\ rows[i].prev \in Roots(i)
     /\ \E h \in Roots(i) : rows[i].hash = Hash(rows[i].event, h)

\* An event append has returned is committed, although append publishes the
\* hash through memory that other threads overwrite, and although the COMMIT
\* that made it durable may have been another thread's.  The one exception: the
\* failure of another call rolled the shared transaction back with its row, and
\* its own commit() then had nothing to do.
AckedIsDurable == acked \subseteq Hashes(Durable) \cup undone

\* No event reaches the buffer or the object store before its row is durable,
\* or was rolled back under its call: after any crash the NDJSON stream holds
\* nothing else that the table does not hold.
ArchiveAfterCommit == Stored \cup Hashes(buffer) \subseteq Hashes(Durable) \cup undone

\* Dual write, for calls in turn: a durable event is in the object store, or in
\* the buffer that will be written there, or its append has not buffered it
\* yet; only the death of the process may keep it out.
DualWrite ==
  ~ disturbed =>
     Hashes(Durable) \subseteq
        Stored \cup Hashes(buffer) \cup lost
        \cup {event[t].hash : t \in {u \in Thread : pc[u] = "buffer"}}

\* The NDJSON stream and then the buffer repeat the order of the table, and
\* no event twice, whatever failed or crashed in between calls in turn.
ArchiveInOrder ==
  LET written  == FlattenSeq(objectStore)
      clearing == \E t \in Thread : pc[t] = "clear"
      stream   == IF clearing THEN written ELSE written \o buffer
  IN  ~ disturbed =>
         \A i, j \in 1 .. Len(stream) : i < j =>
            \E m, n \in 1 .. Len(rows) : m < n /\ rows[m] = stream[i] /\ rows[n] = stream[j]

\* The durable rows and the checkpoint are an append-only log and its seal,
\* which a crash or an error during its replacement may destroy but never moves
\* back, until calls overlap or a COMMIT leaves its row in the open
\* transaction: then two rows can become durable at once, and an older
\* checkpoint can replace a newer one.
Log == INSTANCE AuditLog WITH log <- Contents(Durable), seal <- {checkpoint} \ {Empty, Garbled}
ImplementsAuditLog == Log!Init /\ [][disturbed' \/ Log!Next]_(Log!vars)
=============================================================================
