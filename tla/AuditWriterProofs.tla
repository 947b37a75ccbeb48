------------------------- MODULE AuditWriterProofs -------------------------
(***************************************************************************)
(* Proofs about the Rust audit writer, for any number of tasks, any set of *)
(* event contents and any bound on the table.                              *)
(***************************************************************************)
EXTENDS AuditWriter, HashChainProofs

\* A manifest of what is buffered is one.
LEMMA ManifestType ==
  ASSUME buffered \in Seq(Row), Len(buffered) > 0
  PROVE  BufferedManifest \in Manifest
<1>1. buffered[1] \in Row /\ buffered[Len(buffered)] \in Row
  OBVIOUS
<1>. QED BY <1>1 DEF BufferedManifest, Manifest, Row

-----------------------------------------------------------------------------
(* Type correctness needs to know that a flush finds a buffer that is not   *)
(* empty, and that in turn needs the mutex: both are proved together.       *)

FlushInv ==
  /\ TypeOK
  /\ MutexHeld
  /\ \A t \in Task : pc[t] \in Flushing => Len(buffered) > 0

LEMMA InitFlushInv == Init => FlushInv
<1> SUFFICES ASSUME Init PROVE FlushInv
  OBVIOUS
<1>1. GENESIS \in HashValue
  BY DEF GENESIS, HashValue
<1>2. row \in [Task -> Row]
  BY <1>1 DEF Init, Row
<1>3. /\ rows \in Seq(Row) /\ buffered \in Seq(Row) /\ pc \in [Task -> PC]
      /\ holder \in Task \cup {NoTask}
      /\ latest \in HashValue /\ lastHash \in HashValue
      /\ manifests \subseteq Manifest /\ dated \subseteq HashValue /\ acked \subseteq HashValue
  BY <1>1 DEF Init, PC
<1>4. replyLost \in BOOLEAN
  BY DEF Init
<1>5. TypeOK
  BY <1>2, <1>3, <1>4 DEF TypeOK
<1>. QED
  BY <1>5, ConstantsAssumption DEF Init, FlushInv, MutexHeld, Locked, Flushing

LEMMA NextFlushInv == FlushInv /\ [Next]_vars => FlushInv'
<1> SUFFICES ASSUME FlushInv, [Next]_vars PROVE FlushInv'
  OBVIOUS
<1> USE DEF FlushInv
<1>T. TypeOK /\ MutexHeld
  OBVIOUS
<1> DEFINE Nonempty == \A u \in Task : pc[u] \in Flushing => Len(buffered) > 0
<1>1. ASSUME NEW t \in Task, NEW e \in Event, Call(t, e) PROVE FlushInv'
  <2>1. row' \in [Task -> Row]
    BY <1>1 DEF Call, TypeOK, Row
  <2>2. TypeOK'
    BY <1>1, <2>1 DEF Call, Goto, TypeOK, PC, storeVars
  <2>. QED
    BY <1>1, <2>2 DEF Call, Goto, TypeOK, MutexHeld, Locked, Flushing
<1>2. ASSUME NEW t \in Task, Lock(t) PROVE FlushInv'
  <2>1. Chained(row[t].event, lastHash) \in Row
    BY ChainedType DEF TypeOK, Row
  <2>2. row' \in [Task -> Row]
    BY <1>2, <2>1 DEF Lock, TypeOK
  <2>3. TypeOK'
    BY <1>2, <2>2 DEF Lock, Goto, TypeOK, PC, Locked, storeVars
  <2>. QED
    BY <1>2, <2>3, ConstantsAssumption
    DEF Lock, Goto, TypeOK, MutexHeld, Locked, Flushing
<1>3. ASSUME NEW t \in Task, InsertCommits(t) PROVE FlushInv'
  <2>1. rows' \in Seq(Row)
    BY <1>3 DEF InsertCommits, TypeOK
  <2>2. TypeOK'
    BY <1>3, <2>1 DEF InsertCommits, Goto, TypeOK, PC, Locked
  <2>. QED
    BY <1>3, <2>2 DEF InsertCommits, Goto, TypeOK, MutexHeld, Locked, Flushing
<1>4. ASSUME NEW t \in Task, InsertFails(t) \/ ReplyLost(t) \/ FlushFails(t)
      PROVE  FlushInv'
  <2>1. /\ pc[t] \in Locked
        /\ Return(t)
        /\ UNCHANGED << storeVars, lastHash, buffered, row, acked >>
        /\ replyLost' \in BOOLEAN
    BY <1>4 DEF InsertFails, ReplyLost, FlushFails, Locked, TypeOK
  <2>2. TypeOK'
    BY <2>1 DEF Return, Goto, TypeOK, PC, storeVars
  <2>. QED
    BY <2>1, <2>2, ConstantsAssumption
    DEF Return, Goto, TypeOK, MutexHeld, Locked, Flushing
<1>5. ASSUME NEW t \in Task, ReplyNotDue(t) PROVE FlushInv'
  <2>1. buffered' \in Seq(Row) /\ lastHash' \in HashValue /\ acked' \subseteq HashValue
    BY <1>5 DEF ReplyNotDue, Remember, TypeOK, Row
  <2>2. TypeOK'
    BY <1>5, <2>1 DEF ReplyNotDue, Remember, Return, Goto, TypeOK, PC, storeVars
  <2>3. \A u \in Task : pc[u] \notin Flushing
    BY <1>5 DEF ReplyNotDue, Remember, MutexHeld, Locked, Flushing
  <2>. QED
    BY <1>5, <2>2, <2>3, ConstantsAssumption
    DEF ReplyNotDue, Remember, Return, Goto, TypeOK, MutexHeld, Locked, Flushing
<1>6. ASSUME NEW t \in Task, ReplyDue(t) PROVE FlushInv'
  <2>1. buffered' \in Seq(Row) /\ Len(buffered') > 0 /\ lastHash' \in HashValue
    BY <1>6 DEF ReplyDue, Remember, TypeOK, Row
  <2>2. TypeOK'
    BY <1>6, <2>1 DEF ReplyDue, Remember, Goto, TypeOK, PC, Locked, Flushing, storeVars
  <2>. QED
    BY <1>6, <2>1, <2>2 DEF ReplyDue, Remember, Goto, TypeOK, MutexHeld, Locked, Flushing
<1>7. ASSUME NEW t \in Task, PutManifest(t) \/ PutLatest(t) \/ PutDated(t)
      PROVE  FlushInv'
  <2>1. Len(buffered) > 0 /\ pc[t] \in Flushing
    BY <1>7 DEF PutManifest, PutLatest, PutDated, Flushing
  <2>2. BufferedManifest \in Manifest
    BY <2>1, ManifestType DEF TypeOK
  <2>3. manifests' \subseteq Manifest /\ latest' \in HashValue /\ dated' \subseteq HashValue
    BY <1>7, <2>2 DEF PutManifest, PutLatest, PutDated, TypeOK, Manifest
  <2>4. /\ UNCHANGED << rows, lastHash, buffered, holder, row, acked, replyLost >>
        /\ pc' \in {[pc EXCEPT ![t] = "latest"], [pc EXCEPT ![t] = "dated"],
                    [pc EXCEPT ![t] = "clear"]}
    BY <1>7 DEF PutManifest, PutLatest, PutDated, Goto
  <2>5. TypeOK'
    BY <2>3, <2>4 DEF TypeOK, PC, Locked, Flushing
  <2>. QED
    BY <2>1, <2>4, <2>5 DEF TypeOK, MutexHeld, Locked, Flushing
<1>8. ASSUME NEW t \in Task, Clear(t) PROVE FlushInv'
  <2>1. TypeOK'
    BY <1>8 DEF Clear, Return, Goto, TypeOK, PC, Row, storeVars
  <2>2. \A u \in Task : u # t => pc[u] \notin Flushing
    BY <1>8 DEF Clear, MutexHeld, Locked, Flushing
  <2>. QED
    BY <1>8, <2>1, <2>2, ConstantsAssumption
    DEF Clear, Return, Goto, TypeOK, MutexHeld, Locked, Flushing
<1>9. ASSUME CrashRestart PROVE FlushInv'
  <2>1. TypeOK'
    BY <1>9, HeadType DEF CrashRestart, TypeOK, PC, storeVars
  <2>. QED
    BY <1>9, <2>1, ConstantsAssumption DEF CrashRestart, MutexHeld, Locked, Flushing
<1>10. ASSUME NEW t \in Task, LeaveQueue(t) PROVE FlushInv'
  BY <1>10 DEF LeaveQueue, Goto, TypeOK, PC, storeVars, MutexHeld, Locked, Flushing
<1>11. ASSUME UNCHANGED vars PROVE FlushInv'
  BY <1>11 DEF vars, TypeOK, MutexHeld
<1>. QED
  BY <1>1, <1>2, <1>3, <1>4, <1>5, <1>6, <1>7, <1>8, <1>9, <1>10, <1>11
  DEF Next, Advance

\* Every variable keeps its type; every manifest is well formed, so a flush
\* never indexes an empty buffer (flush_buffer_locked).
THEOREM TypeCorrect == Spec => []TypeOK
<1>1. FlushInv => TypeOK
  BY DEF FlushInv
<1>. QED
  BY <1>1, InitFlushInv, NextFlushInv, PTL DEF Spec

\* The mutex excludes other tasks from the whole critical section.
LEMMA FlushInvHolds == Spec => []FlushInv
BY InitFlushInv, NextFlushInv, PTL DEF Spec

-----------------------------------------------------------------------------
(* The chain.  With every reply seen, the hash in memory is stale only      *)
(* between COMMIT and the reply, and then the mutex keeps other tasks from  *)
(* reading it.                                                              *)

LEMMA InitChainInv == Init => ChainInv
<1> SUFFICES ASSUME Init PROVE ChainInv
  OBVIOUS
<1>1. TypeOK /\ MutexHeld
  BY InitFlushInv DEF FlushInv
<1>. QED
  BY <1>1 DEF Init, ChainInv, HeadInMemory, HeadHash, EventChained, ChainVerifies, ChainValid

LEMMA NextChainInv == ChainInv /\ FlushInv' /\ [Next]_vars => ChainInv' \/ replyLost'
<1> SUFFICES ASSUME ChainInv, FlushInv', [Next]_vars, ~ replyLost' PROVE ChainInv'
  OBVIOUS
<1>T. /\ TypeOK /\ MutexHeld /\ HeadInMemory /\ EventChained /\ ChainVerifies
      /\ TypeOK' /\ MutexHeld'
  BY DEF ChainInv, FlushInv
<1>S. SUFFICES HeadInMemory' /\ EventChained' /\ ChainVerifies'
  BY <1>T DEF ChainInv
<1>1. ASSUME NEW t \in Task, NEW e \in Event, Call(t, e)
      PROVE  HeadInMemory' /\ EventChained' /\ ChainVerifies'
  <2>1. /\ UNCHANGED << rows, lastHash >>
        /\ pc[t] = "idle" /\ pc' = [pc EXCEPT ![t] = "lock"]
        /\ \A u \in Task : u # t => row'[u] = row[u]
    BY <1>1, <1>T DEF Call, Goto, storeVars, TypeOK
  <2>. QED
    BY <2>1, <1>T DEF TypeOK, HeadInMemory, EventChained, ChainVerifies
<1>2. ASSUME NEW t \in Task, Lock(t)
      PROVE  HeadInMemory' /\ EventChained' /\ ChainVerifies'
  <2>1. /\ UNCHANGED << rows, lastHash >>
        /\ pc[t] = "lock" /\ pc' = [pc EXCEPT ![t] = "insert"]
        /\ row' = [row EXCEPT ![t] = Chained(row[t].event, lastHash)]
    BY <1>2 DEF Lock, Goto, storeVars
  <2>. QED
    BY <2>1, <1>T DEF TypeOK, HeadInMemory, EventChained, ChainVerifies, Chained
<1>3. ASSUME NEW t \in Task, InsertCommits(t)
      PROVE  HeadInMemory' /\ EventChained' /\ ChainVerifies'
  <2>1. /\ pc[t] = "insert" /\ pc' = [pc EXCEPT ![t] = "inserted"]
        /\ rows' = Append(rows, row[t])
        /\ UNCHANGED << row, lastHash >>
    BY <1>3 DEF InsertCommits, Goto
  <2>2. \A u \in Task : u # t => pc[u] \notin Locked
    BY <2>1, <1>T DEF MutexHeld, Locked
  <2>3. row[t] \in Row /\ rows \in Seq(Row)
    BY <1>T DEF TypeOK
  <2>4. lastHash = HeadHash(rows)
    BY <2>1, <2>2, <1>T DEF HeadInMemory, Locked
  <2>5. ChainVerifies'
    BY <2>1, <2>3, <2>4, <1>T, AppendedRowExtendsChain DEF ChainVerifies, EventChained
  <2>6. Len(rows') > 0 /\ rows'[Len(rows')] = row[t]
    BY <2>1, <2>3
  <2>7. EventChained'
    BY <2>1, <2>2, <2>6, <1>T DEF EventChained, TypeOK, Locked
  <2>8. HeadInMemory'
    BY <2>1, <1>T DEF HeadInMemory, TypeOK
  <2>. QED
    BY <2>5, <2>7, <2>8
<1>4. ASSUME NEW t \in Task, InsertFails(t) \/ FlushFails(t) \/ LeaveQueue(t)
      PROVE  HeadInMemory' /\ EventChained' /\ ChainVerifies'
  <2>1. /\ pc[t] # "inserted" /\ pc' = [pc EXCEPT ![t] = "idle"]
        /\ UNCHANGED << rows, lastHash, row >>
    BY <1>4 DEF InsertFails, FlushFails, LeaveQueue, Flushing, Return, Goto, storeVars
  <2>. QED
    BY <2>1, <1>T DEF TypeOK, HeadInMemory, EventChained, ChainVerifies
<1>5. ASSUME NEW t \in Task, ReplyNotDue(t) \/ ReplyDue(t)
      PROVE  HeadInMemory' /\ EventChained' /\ ChainVerifies'
  <2>1. /\ pc[t] = "inserted"
        /\ lastHash' = row[t].hash
        /\ pc' \in {[pc EXCEPT ![t] = "idle"], [pc EXCEPT ![t] = "manifest"]}
        /\ UNCHANGED << rows, row >>
    BY <1>5 DEF ReplyNotDue, ReplyDue, Remember, Return, Goto, storeVars
  <2>2. \A u \in Task : u # t => pc[u] \notin Locked
    BY <2>1, <1>T DEF MutexHeld, Locked
  <2>3. lastHash' = HeadHash(rows)
    BY <2>1, <1>T DEF EventChained, TypeOK, HeadHash
  <2>4. EventChained'
    BY <2>1, <2>2, <1>T DEF EventChained, TypeOK, Locked
  <2>. QED
    BY <2>1, <2>3, <2>4, <1>T DEF TypeOK, HeadInMemory, ChainVerifies
<1>6. ASSUME NEW t \in Task, PutManifest(t) \/ PutLatest(t) \/ PutDated(t) \/ Clear(t)
      PROVE  HeadInMemory' /\ EventChained' /\ ChainVerifies'
  <2>1. /\ pc[t] \in Flushing
        /\ pc' \in {[pc EXCEPT ![t] = l] : l \in {"latest", "dated", "clear", "idle"}}
        /\ UNCHANGED << rows, lastHash, row >>
    BY <1>6 DEF PutManifest, PutLatest, PutDated, Clear, Flushing, Return, Goto, storeVars
  <2>2. pc[t] # "inserted" /\ pc'[t] \notin {"insert", "inserted"}
    BY <2>1, <1>T DEF Flushing, TypeOK
  <2>3. \A u \in Task : u # t => pc'[u] = pc[u]
    BY <2>1, <1>T DEF TypeOK
  <2>4. (\A u \in Task : pc'[u] # "inserted") => (\A u \in Task : pc[u] # "inserted")
    BY <2>2, <2>3
  <2>5. EventChained'
    BY <2>1, <2>2, <2>3, <1>T DEF EventChained
  <2>. QED
    BY <2>1, <2>4, <2>5, <1>T DEF HeadInMemory, ChainVerifies
<1>7. ASSUME CrashRestart
      PROVE  HeadInMemory' /\ EventChained' /\ ChainVerifies'
  BY <1>7, <1>T DEF CrashRestart, storeVars, HeadInMemory, EventChained, ChainVerifies
<1>8. ASSUME UNCHANGED vars
      PROVE  HeadInMemory' /\ EventChained' /\ ChainVerifies'
  BY <1>8, <1>T DEF vars, HeadInMemory, EventChained, ChainVerifies
<1>9. \A t \in Task : ~ ReplyLost(t)
  BY DEF ReplyLost
<1>. QED
  BY <1>1, <1>2, <1>3, <1>4, <1>5, <1>6, <1>7, <1>8, <1>9 DEF Next, Advance

\* Once a reply is lost, it stays so.
LEMMA LostForGood == replyLost /\ [Next]_vars => replyLost'
  BY DEF Next, Advance, vars, Call, Lock, LeaveQueue, InsertCommits, InsertFails, ReplyLost,
         ReplyNotDue, ReplyDue, PutManifest, PutLatest, PutDated, Clear, FlushFails, CrashRestart

\* Until the reply of a committed INSERT is lost, the chain status() verifies
\* is valid, through failing inserts, failing flushes and restarts.
THEOREM ChainAlwaysVerifies == Spec => []ChainVerifiesWhenHeard
<1>1. replyLost \/ ChainInv => ChainVerifiesWhenHeard
  BY DEF ChainInv, ChainVerifiesWhenHeard
<1>2. (replyLost \/ ChainInv) /\ FlushInv' /\ [Next]_vars => (replyLost \/ ChainInv)'
  BY NextChainInv, LostForGood
<1>. QED
  BY <1>1, <1>2, InitChainInv, FlushInvHolds, PTL DEF Spec

-----------------------------------------------------------------------------
(* Acknowledged events.  Rows are only ever added, and a task acknowledges  *)
(* the row it has added; nothing is assumed about replies or crashes.       *)

LEMMA RowHashesGrow ==
  ASSUME NEW s \in Seq(Row), NEW r \in Row, rows = s, rows' = Append(s, r)
  PROVE  RowHashes \cup {r.hash} \subseteq RowHashes'
<1>1. /\ Len(rows') = Len(s) + 1
      /\ \A i \in 1 .. Len(s) : rows'[i] = s[i]
      /\ rows'[Len(s) + 1] = r
  OBVIOUS
<1>. QED
  BY <1>1 DEF RowHashes

LEMMA NextAckInv == AckInv /\ TypeOK' /\ [Next]_vars => AckInv'
<1> SUFFICES ASSUME AckInv, TypeOK', [Next]_vars PROVE AckInv'
  OBVIOUS
<1>T. /\ TypeOK /\ acked \subseteq RowHashes
      /\ \A t \in Task : pc[t] \in {"inserted"} \cup Flushing => row[t].hash \in RowHashes
  BY DEF AckInv, AckedIsDurable
<1>1. ASSUME NEW t \in Task, NEW e \in Event, Call(t, e) PROVE AckInv'
  <2>1. /\ UNCHANGED << rows, acked >>
        /\ pc' = [pc EXCEPT ![t] = "lock"]
        /\ \A u \in Task : u # t => row'[u] = row[u]
    BY <1>1, <1>T DEF Call, Goto, storeVars, TypeOK
  <2>. QED
    BY <2>1, <1>T DEF AckInv, AckedIsDurable, RowHashes, TypeOK, Flushing
<1>2. ASSUME NEW t \in Task, Lock(t) PROVE AckInv'
  <2>1. /\ UNCHANGED << rows, acked >>
        /\ pc' = [pc EXCEPT ![t] = "insert"]
        /\ \A u \in Task : u # t => row'[u] = row[u]
    BY <1>2, <1>T DEF Lock, Goto, storeVars, TypeOK
  <2>. QED
    BY <2>1, <1>T DEF AckInv, AckedIsDurable, RowHashes, TypeOK, Flushing
<1>3. ASSUME NEW t \in Task, InsertCommits(t) PROVE AckInv'
  <2>1. /\ rows' = Append(rows, row[t])
        /\ pc' = [pc EXCEPT ![t] = "inserted"]
        /\ UNCHANGED << row, acked >>
    BY <1>3 DEF InsertCommits, Goto
  <2>2. RowHashes \cup {row[t].hash} \subseteq RowHashes'
    BY <2>1, <1>T, RowHashesGrow DEF TypeOK
  <2>3. \A u \in Task : u # t => pc'[u] = pc[u]
    BY <2>1, <1>T DEF TypeOK
  <2>. QED
    BY <2>1, <2>2, <2>3, <1>T DEF AckInv, AckedIsDurable
<1>4. ASSUME NEW t \in Task,
             \/ InsertFails(t) \/ ReplyLost(t) \/ FlushFails(t) \/ LeaveQueue(t)
             \/ ReplyDue(t) \/ PutManifest(t) \/ PutLatest(t) \/ PutDated(t)
      PROVE  AckInv'
  <2>1. /\ UNCHANGED << rows, row, acked >>
        /\ \/ pc' = [pc EXCEPT ![t] = "idle"]
           \/ /\ pc[t] \in {"inserted"} \cup Flushing
              /\ \E l \in Flushing : pc' = [pc EXCEPT ![t] = l]
    BY <1>4 DEF InsertFails, ReplyLost, FlushFails, LeaveQueue, ReplyDue, Remember, PutManifest,
                PutLatest, PutDated, Return, Goto, Flushing, storeVars
  <2>2. \A u \in Task : pc'[u] \in {"inserted"} \cup Flushing => pc[u] \in {"inserted"} \cup Flushing
    BY <2>1, <1>T DEF TypeOK, Flushing
  <2>. QED
    BY <2>1, <2>2, <1>T DEF AckInv, AckedIsDurable, RowHashes
<1>5. ASSUME NEW t \in Task, ReplyNotDue(t) \/ Clear(t) PROVE AckInv'
  <2>1. /\ UNCHANGED << rows, row >>
        /\ acked' = acked \cup {row[t].hash}
        /\ pc[t] \in {"inserted"} \cup Flushing
        /\ pc' = [pc EXCEPT ![t] = "idle"]
    BY <1>5 DEF ReplyNotDue, Clear, Remember, Return, Goto, Flushing, storeVars
  <2>2. \A u \in Task : pc'[u] \in {"inserted"} \cup Flushing => pc[u] \in {"inserted"} \cup Flushing
    BY <2>1, <1>T DEF TypeOK, Flushing
  <2>. QED
    BY <2>1, <2>2, <1>T DEF AckInv, AckedIsDurable, RowHashes
<1>6. ASSUME CrashRestart PROVE AckInv'
  BY <1>6, <1>T DEF CrashRestart, storeVars, AckInv, AckedIsDurable, RowHashes, Flushing
<1>7. ASSUME UNCHANGED vars PROVE AckInv'
  BY <1>7, <1>T DEF vars, AckInv, AckedIsDurable, RowHashes
<1>. QED
  BY <1>1, <1>2, <1>3, <1>4, <1>5, <1>6, <1>7 DEF Next, Advance

\* A hash write_event returned as Ok stays in Postgres, even when replies are
\* lost, flushes fail and the process is restarted.
THEOREM AcknowledgedIsDurable == Spec => []AckedIsDurable
<1>1. Init => AckInv
  BY InitFlushInv DEF Init, FlushInv, AckInv, AckedIsDurable, Flushing
<1>2. AckInv => AckedIsDurable
  BY DEF AckInv
<1>. QED
  BY <1>1, <1>2, NextAckInv, TypeCorrect, PTL DEF Spec

-----------------------------------------------------------------------------
(* Roots.  Whatever is lost, the hash in memory is GENESIS or that of a row *)
(* of the table, and rows are only added: neither needs the mutex.          *)

\* A row chained to a row of the table, or to none, leaves no gap.
LEMMA RootedRow ==
  ASSUME NEW s \in Seq(Row), NEW r \in Row, rows = s, rows' = Append(s, r), RowsAreRooted,
         r.prev \in {GENESIS} \cup RowHashes, r.hash = Hash(r.event, r.prev)
  PROVE  RowsAreRooted'
<1>1. /\ Len(s) \in Nat /\ Len(rows') = Len(s) + 1
      /\ \A i \in 1 .. Len(s) : rows'[i] = s[i]
      /\ rows'[Len(s) + 1] = r
  OBVIOUS
<1> SUFFICES ASSUME NEW i \in 1 .. Len(rows')
             PROVE  /\ rows'[i].hash = Hash(rows'[i].event, rows'[i].prev)
                    /\ rows'[i].prev \in {GENESIS} \cup {rows'[j].hash : j \in 1 .. i - 1}
  BY DEF RowsAreRooted
<1>2. CASE i \in 1 .. Len(s)
  <2>1. /\ rows[i].hash = Hash(rows[i].event, rows[i].prev)
        /\ rows[i].prev \in {GENESIS} \cup {rows[j].hash : j \in 1 .. i - 1}
    BY <1>2 DEF RowsAreRooted
  <2>2. \A j \in 1 .. i - 1 : rows'[j] = rows[j]
    BY <1>1, <1>2
  <2> QED BY <1>1, <1>2, <2>1, <2>2
<1>3. CASE i = Len(s) + 1
  <2>1. i - 1 = Len(s) /\ \A j \in 1 .. i - 1 : rows'[j] = rows[j]
    BY <1>1, <1>3
  <2>2. RowHashes = {rows'[j].hash : j \in 1 .. i - 1}
    BY <2>1 DEF RowHashes
  <2> QED BY <1>1, <1>3, <2>2
<1> QED BY <1>1, <1>2, <1>3

LEMMA NextRootInv == RootInv /\ TypeOK' /\ [Next]_vars => RootInv'
<1> SUFFICES ASSUME RootInv, TypeOK', [Next]_vars PROVE RootInv'
  OBVIOUS
<1>T. /\ TypeOK /\ RowsAreRooted
      /\ lastHash \in {GENESIS} \cup RowHashes
      /\ \A t \in Task :
           /\ pc[t] = "insert" =>
                /\ row[t].prev \in {GENESIS} \cup RowHashes
                /\ row[t].hash = Hash(row[t].event, row[t].prev)
           /\ pc[t] = "inserted" => row[t].hash \in RowHashes
  BY DEF RootInv
<1>S. rows' = rows => RowHashes' = RowHashes /\ (RowsAreRooted => RowsAreRooted')
  BY DEF RowHashes, RowsAreRooted
<1>1. ASSUME NEW t \in Task, NEW e \in Event, Call(t, e) PROVE RootInv'
  <2>1. /\ UNCHANGED << rows, lastHash >>
        /\ pc' = [pc EXCEPT ![t] = "lock"]
        /\ \A u \in Task : u # t => row'[u] = row[u]
    BY <1>1, <1>T DEF Call, Goto, storeVars, TypeOK
  <2>. QED
    BY <2>1, <1>T, <1>S DEF RootInv, TypeOK
<1>2. ASSUME NEW t \in Task, Lock(t) PROVE RootInv'
  <2>1. /\ UNCHANGED << rows, lastHash >>
        /\ pc' = [pc EXCEPT ![t] = "insert"]
        /\ \A u \in Task : u # t => row'[u] = row[u]
        /\ row'[t] = Chained(row[t].event, lastHash)
    BY <1>2, <1>T DEF Lock, Goto, storeVars, TypeOK
  <2>. QED
    BY <2>1, <1>T, <1>S DEF RootInv, TypeOK, Chained
<1>3. ASSUME NEW t \in Task, InsertCommits(t) PROVE RootInv'
  <2>1. /\ pc[t] = "insert" /\ pc' = [pc EXCEPT ![t] = "inserted"]
        /\ rows' = Append(rows, row[t])
        /\ UNCHANGED << row, lastHash >>
    BY <1>3 DEF InsertCommits, Goto
  <2>2. row[t] \in Row /\ rows \in Seq(Row)
    BY <1>T DEF TypeOK
  <2>3. RowsAreRooted'
    BY <2>1, <2>2, <1>T, RootedRow
  <2>4. RowHashes \cup {row[t].hash} \subseteq RowHashes'
    BY <2>1, <2>2, RowHashesGrow
  <2>5. \A u \in Task : u # t => pc'[u] = pc[u]
    BY <2>1, <1>T DEF TypeOK
  <2>. QED
    BY <2>1, <2>3, <2>4, <2>5, <1>T DEF RootInv, TypeOK
<1>4. ASSUME NEW t \in Task, ReplyNotDue(t) \/ ReplyDue(t) PROVE RootInv'
  <2>1. /\ pc[t] = "inserted" /\ lastHash' = row[t].hash
        /\ UNCHANGED << rows, row >>
        /\ \E l \in {"idle", "manifest"} : pc' = [pc EXCEPT ![t] = l]
    BY <1>4 DEF ReplyNotDue, ReplyDue, Remember, Return, Goto, storeVars
  <2>. QED
    BY <2>1, <1>T, <1>S DEF RootInv, TypeOK
<1>5. ASSUME NEW t \in Task,
             \/ InsertFails(t) \/ ReplyLost(t) \/ FlushFails(t) \/ LeaveQueue(t)
             \/ PutManifest(t) \/ PutLatest(t) \/ PutDated(t) \/ Clear(t)
      PROVE  RootInv'
  <2>1. /\ UNCHANGED << rows, row, lastHash >>
        /\ \E l \in {"idle", "latest", "dated", "clear"} : pc' = [pc EXCEPT ![t] = l]
    BY <1>5 DEF InsertFails, ReplyLost, FlushFails, LeaveQueue, PutManifest, PutLatest,
                PutDated, Clear, Return, Goto, storeVars
  <2>. QED
    BY <2>1, <1>T, <1>S DEF RootInv, TypeOK
<1>6. ASSUME CrashRestart PROVE RootInv'
  <2>1. /\ UNCHANGED << rows, row >> /\ lastHash' = HeadHash(rows)
        /\ \A u \in Task : pc'[u] = "idle"
    BY <1>6 DEF CrashRestart, storeVars
  <2>2. HeadHash(rows) \in {GENESIS} \cup RowHashes
    <3>1. rows # << >> => Len(rows) \in 1 .. Len(rows)
      BY <1>T DEF TypeOK
    <3> QED BY <3>1 DEF HeadHash, RowHashes
  <2>. QED
    BY <2>1, <2>2, <1>T, <1>S DEF RootInv
<1>7. ASSUME UNCHANGED vars PROVE RootInv'
  BY <1>7, <1>T, <1>S DEF vars, RootInv
<1>. QED
  BY <1>1, <1>2, <1>3, <1>4, <1>5, <1>6, <1>7 DEF Next, Advance

\* Lost replies fork the chain and nothing makes a gap in it: every row was
\* hashed over GENESIS or an earlier row, through crashes and failures.
THEOREM RowsAlwaysRooted == Spec => []RowsAreRooted
<1>1. Init => RootInv
  BY InitFlushInv DEF Init, FlushInv, RootInv, RowsAreRooted
<1>2. RootInv => RowsAreRooted
  BY DEF RootInv
<1>. QED
  BY <1>1, <1>2, NextRootInv, TypeCorrect, PTL DEF Spec

-----------------------------------------------------------------------------
(* Checkpoints.  The buffer does not change during a flush, so the manifest *)
(* put first is the one both checkpoint objects refer to.                   *)

LEMMA NextBackedInv == BackedInv /\ FlushInv' /\ [Next]_vars => BackedInv'
<1> SUFFICES ASSUME BackedInv, FlushInv', [Next]_vars PROVE BackedInv'
  OBVIOUS
<1> DEFINE Publishing == {"latest", "dated", "clear"}
           Backed(h) == \E m \in manifests : m.end = h
           InBucket == \A u \in Task : pc[u] \in Publishing => BufferedManifest \in manifests
<1>T. TypeOK /\ MutexHeld /\ CheckpointsAreBacked /\ InBucket
  BY DEF BackedInv
<1>S. SUFFICES CheckpointsAreBacked' /\ InBucket'
  BY DEF FlushInv, BackedInv
<1>1. ASSUME NEW t \in Task,
             \/ (\E e \in Event : Call(t, e)) \/ Lock(t) \/ InsertCommits(t)
             \/ InsertFails(t) \/ ReplyLost(t) \/ FlushFails(t) \/ LeaveQueue(t)
      PROVE  CheckpointsAreBacked' /\ InBucket'
  <2>1. /\ UNCHANGED << manifests, latest, dated, buffered >>
        /\ \E l \in {"lock", "insert", "inserted", "idle"} : pc' = [pc EXCEPT ![t] = l]
    BY <1>1 DEF Call, Lock, InsertCommits, InsertFails, ReplyLost, FlushFails, LeaveQueue,
                Return, Goto, storeVars
  <2>2. \A u \in Task : pc'[u] \in Publishing => pc[u] \in Publishing
    BY <2>1, <1>T DEF TypeOK
  <2>. QED
    BY <2>1, <2>2, <1>T DEF CheckpointsAreBacked, BufferedManifest
<1>2. ASSUME NEW t \in Task, ReplyNotDue(t) \/ ReplyDue(t) \/ Clear(t)
      PROVE  CheckpointsAreBacked' /\ InBucket'
  <2>1. /\ UNCHANGED << manifests, latest, dated >>
        /\ pc[t] \in Locked
        /\ \E l \in {"manifest", "idle"} : pc' = [pc EXCEPT ![t] = l]
    BY <1>2 DEF ReplyNotDue, ReplyDue, Clear, Remember, Return, Goto, storeVars,
                Locked, Flushing
  <2>2. \A u \in Task : pc'[u] \notin Publishing
    BY <2>1, <1>T DEF TypeOK, MutexHeld, Locked, Flushing
  <2>. QED
    BY <2>1, <2>2, <1>T DEF CheckpointsAreBacked
<1>3. ASSUME NEW t \in Task, PutManifest(t)
      PROVE  CheckpointsAreBacked' /\ InBucket'
  <2>1. /\ manifests' = manifests \cup {BufferedManifest}
        /\ UNCHANGED << latest, dated, buffered >>
    BY <1>3 DEF PutManifest
  <2>2. BufferedManifest' = BufferedManifest
    BY <2>1 DEF BufferedManifest
  <2>. QED
    BY <2>1, <2>2, <1>T DEF CheckpointsAreBacked
<1>4. ASSUME NEW t \in Task, PutLatest(t) \/ PutDated(t)
      PROVE  CheckpointsAreBacked' /\ InBucket'
  <2>1. /\ UNCHANGED << manifests, buffered >>
        /\ latest' \in {latest, BufferedManifest.end}
        /\ dated' \subseteq dated \cup {BufferedManifest.end}
        /\ pc[t] \in Publishing
    BY <1>4 DEF PutLatest, PutDated
  <2>2. BufferedManifest \in manifests /\ BufferedManifest' = BufferedManifest
    BY <2>1, <1>T DEF BufferedManifest
  <2>3. \A h \in dated \cup (IF latest = GENESIS THEN {} ELSE {latest}) : Backed(h)
    BY <1>T DEF CheckpointsAreBacked
  <2>4. Backed(BufferedManifest.end)
    BY <2>2
  <2>5. CheckpointsAreBacked'
    BY <2>1, <2>3, <2>4 DEF CheckpointsAreBacked
  <2>. QED
    BY <2>1, <2>2, <2>5
<1>5. ASSUME CrashRestart PROVE CheckpointsAreBacked' /\ InBucket'
  BY <1>5, <1>T DEF CrashRestart, storeVars, CheckpointsAreBacked
<1>6. ASSUME UNCHANGED vars PROVE CheckpointsAreBacked' /\ InBucket'
  BY <1>6, <1>T DEF vars, CheckpointsAreBacked, BufferedManifest
<1>. QED
  BY <1>1, <1>2, <1>3, <1>4, <1>5, <1>6 DEF Next, Advance

\* Every checkpoint object names the end of a manifest that is in the bucket,
\* wherever a flush stopped.
THEOREM CheckpointsAlwaysBacked == Spec => []CheckpointsAreBacked
<1>1. Init => BackedInv
  BY InitFlushInv DEF Init, FlushInv, BackedInv, CheckpointsAreBacked
<1>2. BackedInv => CheckpointsAreBacked
  BY DEF BackedInv
<1>. QED
  BY <1>1, <1>2, NextBackedInv, FlushInvHolds, PTL DEF Spec

-----------------------------------------------------------------------------
(* Manifests.  With every reply seen, the buffer is a run of the table that *)
(* ends at its last row, or just before it while a reply is on the way.     *)

\* A run of a table is one of the table with one row more.
LEMMA RunOfAppend ==
  ASSUME NEW s \in Seq(Row), NEW r \in Row, NEW i \in Nat, NEW j \in 0 .. Len(s), i > 0
  PROVE  SubSeq(Append(s, r), i, j) = SubSeq(s, i, j)
  OBVIOUS

\* A run that ends before the last row is extended by that row.
LEMMA RunExtended ==
  ASSUME NEW s \in Seq(Row), NEW i \in 1 .. Len(s)
  PROVE  Append(SubSeq(s, i, Len(s) - 1), s[Len(s)]) = SubSeq(s, i, Len(s))
  OBVIOUS

\* The ends of a run.
LEMMA RunEnds ==
  ASSUME NEW s \in Seq(Row), NEW i \in 1 .. Len(s), NEW j \in i .. Len(s)
  PROVE  /\ Len(SubSeq(s, i, j)) = j - i + 1
         /\ SubSeq(s, i, j)[1] = s[i]
         /\ SubSeq(s, i, j)[Len(SubSeq(s, i, j))] = s[j]
  OBVIOUS

LEMMA EmptyRun ==
  ASSUME NEW s \in Seq(Row)
  PROVE  SubSeq(s, Len(s) + 1, Len(s)) = << >>
  OBVIOUS

LEMMA InitRunInv == Init => RunInv
<1> SUFFICES ASSUME Init PROVE RunInv
  OBVIOUS
<1>1. rows = << >> /\ buffered = << >> /\ manifests = {} /\ Heard = 0
  BY DEF Init, Heard
<1>2. << >> \in Seq(Row) /\ Len(<< >>) = 0
  OBVIOUS
<1>3. SubSeq(<< >>, 1, 0) = << >>
  BY <1>2, EmptyRun
<1>. QED
  BY <1>1, <1>3 DEF RunInv, ManifestsAreRuns

LEMMA NextRunInv ==
  RunInv /\ ChainInv /\ ChainInv' /\ FlushInv /\ [Next]_vars => RunInv' \/ replyLost'
<1> SUFFICES ASSUME RunInv, ChainInv, ChainInv', FlushInv, [Next]_vars, ~ replyLost'
             PROVE  RunInv'
  OBVIOUS
<1>T. TypeOK /\ MutexHeld /\ EventChained
  BY DEF ChainInv
<1>F. rows \in Seq(Row) /\ Len(rows) \in Nat
  BY <1>T DEF TypeOK
<1>H. ~ replyLost
  BY LostForGood
<1>R. \A m \in manifests : IsRun(m)
  BY <1>H DEF RunInv, ManifestsAreRuns
<1>B. PICK first \in 1 .. Heard + 1 : buffered = SubSeq(rows, first, Heard)
  BY DEF RunInv
<1>M. ASSUME \A m \in manifests' : IsRun(m)',
             \E i \in 1 .. Heard' + 1 : buffered' = SubSeq(rows', i, Heard')
      PROVE  RunInv'
  BY <1>M DEF RunInv, ManifestsAreRuns
<1>K. ASSUME rows' = rows, manifests' = manifests PROVE \A m \in manifests' : IsRun(m)'
  BY <1>K, <1>R DEF IsRun
<1>S. ASSUME UNCHANGED << rows, manifests, buffered >>, Heard' = Heard PROVE RunInv'
  BY <1>B, <1>K, <1>M, <1>S
<1>E. ASSUME UNCHANGED << rows, manifests >>, buffered' = << >>,
             \A u \in Task : pc'[u] # "inserted"
      PROVE  RunInv'
  <2>1. Heard' = Len(rows)
    BY <1>E DEF Heard
  <2>2. buffered' = SubSeq(rows', Heard' + 1, Heard')
    BY <1>E, <1>F, <2>1, EmptyRun
  <2>3. Heard' + 1 \in 1 .. Heard' + 1
    BY <2>1, <1>F
  <2>. QED
    BY <1>E, <1>K, <1>M, <2>2, <2>3
<1>1. ASSUME NEW t \in Task,
             \/ (\E e \in Event : Call(t, e)) \/ Lock(t) \/ LeaveQueue(t)
             \/ InsertFails(t) \/ FlushFails(t) \/ PutLatest(t) \/ PutDated(t)
      PROVE  RunInv'
  <2>1. /\ UNCHANGED << rows, manifests, buffered >>
        /\ pc[t] # "inserted"
        /\ \E l \in {"lock", "insert", "idle", "dated", "clear"} : pc' = [pc EXCEPT ![t] = l]
    BY <1>1 DEF Call, Lock, LeaveQueue, InsertFails, FlushFails, PutLatest, PutDated,
                Return, Goto, Flushing, storeVars
  <2>2. \A u \in Task : pc'[u] = "inserted" <=> pc[u] = "inserted"
    BY <2>1, <1>T DEF TypeOK
  <2>3. Heard' = Heard
    BY <2>1, <2>2 DEF Heard
  <2>. QED
    BY <1>S, <2>1, <2>3
<1>2. ASSUME NEW t \in Task, InsertCommits(t) PROVE RunInv'
  <2>1. /\ pc[t] = "insert" /\ pc' = [pc EXCEPT ![t] = "inserted"]
        /\ rows' = Append(rows, row[t]) /\ row[t] \in Row
        /\ UNCHANGED << manifests, buffered >>
    BY <1>2, <1>T DEF InsertCommits, Goto, TypeOK
  <2>2. Heard = Len(rows)
    BY <2>1, <1>T DEF MutexHeld, Locked, Heard
  <2>3. Len(rows') = Len(rows) + 1 /\ \A i \in 1 .. Len(rows) : rows'[i] = rows[i]
    BY <2>1, <1>F
  <2>4. Heard' = Len(rows)
    <3>1. pc'[t] = "inserted"
      BY <2>1, <1>T DEF TypeOK
    <3>. QED BY <1>F, <2>3, <3>1 DEF Heard
  <2>5. buffered' = SubSeq(rows', first, Heard')
    BY <1>B, <1>F, <2>1, <2>2, <2>4, RunOfAppend
  <2>6. ASSUME NEW m \in manifests' PROVE IsRun(m)'
    <3>1. PICK i \in 1 .. Len(rows) : \E j \in i .. Len(rows) :
                 /\ m.events = SubSeq(rows, i, j)
                 /\ m.start = rows[i].prev
                 /\ m.end = rows[j].hash
      BY <1>R, <2>1, <2>6 DEF IsRun
    <3>2. PICK j \in i .. Len(rows) : /\ m.events = SubSeq(rows, i, j)
                                      /\ m.start = rows[i].prev
                                      /\ m.end = rows[j].hash
      BY <3>1
    <3>3. SubSeq(rows', i, j) = SubSeq(rows, i, j)
      BY <1>F, <2>1, RunOfAppend
    <3>4. i \in 1 .. Len(rows') /\ j \in i .. Len(rows') /\ rows'[i] = rows[i] /\ rows'[j] = rows[j]
      BY <1>F, <2>3
    <3>. QED BY <3>2, <3>3, <3>4 DEF IsRun
  <2>. QED
    BY <1>M, <2>2, <2>4, <2>5, <2>6
<1>3. ASSUME NEW t \in Task, ReplyNotDue(t) \/ ReplyDue(t) PROVE RunInv'
  <2>1. /\ pc[t] = "inserted"
        /\ buffered' = Append(buffered, row[t])
        /\ \E l \in {"idle", "manifest"} : pc' = [pc EXCEPT ![t] = l]
        /\ UNCHANGED << rows, manifests >>
    BY <1>3 DEF ReplyNotDue, ReplyDue, Remember, Return, Goto, storeVars
  <2>2. Len(rows) > 0 /\ rows[Len(rows)] = row[t]
    BY <2>1, <1>T DEF EventChained
  <2>3. Heard = Len(rows) - 1
    BY <2>1 DEF Heard
  <2>4. Heard' = Len(rows)
    <3>1. \A u \in Task : u # t => pc[u] # "inserted"
      BY <2>1, <1>T DEF MutexHeld, Locked
    <3>2. \A u \in Task : pc'[u] # "inserted"
      BY <2>1, <3>1, <1>T DEF TypeOK
    <3>. QED BY <2>1, <3>2 DEF Heard
  <2>5. first \in 1 .. Len(rows)
    BY <2>2, <2>3, <1>B, <1>F
  <2>6. buffered' = SubSeq(rows', first, Heard')
    BY <1>B, <1>F, <2>1, <2>2, <2>3, <2>4, <2>5, RunExtended
  <2>7. first \in 1 .. Heard' + 1
    BY <1>F, <2>4, <2>5
  <2>. QED
    BY <1>K, <1>M, <2>1, <2>6, <2>7
<1>4. ASSUME NEW t \in Task, PutManifest(t) PROVE RunInv'
  <2>1. /\ pc[t] = "manifest" /\ pc' = [pc EXCEPT ![t] = "latest"]
        /\ manifests' = manifests \cup {BufferedManifest}
        /\ UNCHANGED << rows, buffered >>
    BY <1>4 DEF PutManifest, Goto
  <2>2. \A u \in Task : pc[u] # "inserted" /\ pc'[u] # "inserted"
    BY <2>1, <1>T DEF TypeOK, MutexHeld, Locked, Flushing
  <2>3. Heard = Len(rows) /\ Heard' = Heard
    BY <2>1, <2>2 DEF Heard
  <2>4. Len(buffered) > 0
    BY <2>1 DEF FlushInv, Flushing
  <2>5. first # Len(rows) + 1
    BY <1>B, <1>F, <2>3, <2>4, EmptyRun
  <2>6. first \in 1 .. Len(rows) /\ Len(rows) \in first .. Len(rows)
    BY <1>B, <1>F, <2>3, <2>5
  <2>7. buffered[1] = rows[first] /\ buffered[Len(buffered)] = rows[Len(rows)]
    BY <1>B, <1>F, <2>3, <2>6, RunEnds
  <2>8. IsRun(BufferedManifest)
    BY <1>B, <2>3, <2>6, <2>7 DEF IsRun, BufferedManifest
  <2>9. \A m \in manifests' : IsRun(m)'
    BY <1>R, <2>1, <2>8 DEF IsRun
  <2>. QED
    BY <1>B, <1>M, <2>1, <2>3, <2>9
<1>5. ASSUME NEW t \in Task, Clear(t) PROVE RunInv'
  <2>1. /\ pc[t] = "clear" /\ pc' = [pc EXCEPT ![t] = "idle"]
        /\ UNCHANGED << rows, manifests >> /\ buffered' = << >>
    BY <1>5 DEF Clear, Return, Goto, storeVars
  <2>2. \A u \in Task : pc'[u] # "inserted"
    BY <2>1, <1>T DEF TypeOK, MutexHeld, Locked, Flushing
  <2>. QED
    BY <1>E, <2>1, <2>2
<1>6. ASSUME CrashRestart PROVE RunInv'
  BY <1>6, <1>E DEF CrashRestart, storeVars
<1>7. ASSUME UNCHANGED vars PROVE RunInv'
  BY <1>7, <1>S DEF vars, Heard
<1>8. \A t \in Task : ~ ReplyLost(t)
  BY DEF ReplyLost
<1>. QED
  BY <1>1, <1>2, <1>3, <1>4, <1>5, <1>6, <1>7, <1>8 DEF Next, Advance

\* Until a reply is lost, every manifest flush_buffer_locked has put is a run of
\* consecutive rows with the hashes of its ends, however often the same events
\* were archived again after a failed flush.
THEOREM ManifestsAlwaysRuns == Spec => []ManifestsAreRuns
<1>1. replyLost \/ (ChainInv /\ RunInv) => ManifestsAreRuns
  BY DEF RunInv, ManifestsAreRuns
<1>2. (replyLost \/ (ChainInv /\ RunInv)) /\ FlushInv /\ FlushInv' /\ [Next]_vars
        => (replyLost \/ (ChainInv /\ RunInv))'
  BY NextChainInv, NextRunInv, LostForGood
<1>. QED
  BY <1>1, <1>2, InitChainInv, InitRunInv, FlushInvHolds, PTL DEF Spec

-----------------------------------------------------------------------------
(* Nothing committed is dropped.  A row leaves the reply window for the     *)
(* buffer, and the buffer for a manifest that is already in the bucket.     *)

\* The rows whose reply is on the way.
UnderWay == {row[t].hash : t \in {u \in Task : pc[u] = "inserted"}}

LEMMA WaitingAfterAppend ==
  ASSUME NEW s \in Seq(Row), NEW r \in Row, buffered = s, buffered' = Append(s, r)
  PROVE  Waiting \cup {r.hash} \subseteq Waiting'
<1>1. /\ Len(buffered') = Len(s) + 1
      /\ \A i \in 1 .. Len(s) : buffered'[i] = s[i]
      /\ buffered'[Len(s) + 1] = r
  OBVIOUS
<1>. QED
  BY <1>1 DEF Waiting

\* The table has no hash after an INSERT that it did not have before, but one.
LEMMA RowHashesAfterAppend ==
  ASSUME NEW s \in Seq(Row), NEW r \in Row, rows = s, rows' = Append(s, r)
  PROVE  RowHashes' \subseteq RowHashes \cup {r.hash}
<1>1. /\ Len(rows') = Len(s) + 1
      /\ \A i \in 1 .. Len(s) : rows'[i] = s[i]
      /\ rows'[Len(s) + 1] = r
  OBVIOUS
<1>. QED
  BY <1>1 DEF RowHashes

\* What the manifest of the buffer archives.
LEMMA BufferedIsArchived ==
  ASSUME BufferedManifest \in manifests
  PROVE  Waiting \subseteq Archived
<1>1. BufferedManifest.events = buffered
  BY DEF BufferedManifest
<1>. QED
  BY <1>1 DEF Waiting, Archived

LEMMA NextDropsNone ==
  BackedInv /\ BackedInv' /\ [Next]_vars
    => \/ CrashRestart
       \/ \E t \in Task : ReplyLost(t)
       \/ Unarchived' \subseteq Unarchived
<1> SUFFICES ASSUME BackedInv, BackedInv', [Next]_vars, ~ CrashRestart,
                    \A t \in Task : ~ ReplyLost(t)
             PROVE  Unarchived' \subseteq Unarchived
  OBVIOUS
<1>T. /\ TypeOK /\ MutexHeld
      /\ \A u \in Task : pc[u] \in {"latest", "dated", "clear"} => BufferedManifest \in manifests
  BY DEF BackedInv
<1>D. Unarchived = RowHashes \ (Archived \cup Waiting \cup UnderWay)
  BY DEF Unarchived, UnderWay
<1>D1. Unarchived' = RowHashes' \ (Archived' \cup Waiting' \cup UnderWay')
  BY DEF Unarchived, UnderWay
<1>S. ASSUME RowHashes' \subseteq RowHashes \cup Archived' \cup Waiting' \cup UnderWay',
             Archived \cup Waiting \cup UnderWay \subseteq Archived' \cup Waiting' \cup UnderWay'
      PROVE  Unarchived' \subseteq Unarchived
  BY <1>S, <1>D, <1>D1
<1>1. ASSUME NEW t \in Task,
             \/ (\E e \in Event : Call(t, e)) \/ Lock(t) \/ LeaveQueue(t)
             \/ InsertFails(t) \/ FlushFails(t) \/ PutLatest(t) \/ PutDated(t)
      PROVE  Unarchived' \subseteq Unarchived
  <2>1. /\ UNCHANGED << rows, manifests, buffered >>
        /\ pc[t] # "inserted"
        /\ \E l \in {"lock", "insert", "idle", "dated", "clear"} : pc' = [pc EXCEPT ![t] = l]
        /\ \A u \in Task : u # t => row'[u] = row[u]
    BY <1>1, <1>T DEF Call, Lock, LeaveQueue, InsertFails, FlushFails, PutLatest, PutDated,
                Return, Goto, Flushing, storeVars, TypeOK
  <2>2. \A u \in Task : pc[u] = "inserted" => pc'[u] = "inserted" /\ row'[u] = row[u]
    BY <2>1, <1>T DEF TypeOK
  <2>3. UnderWay \subseteq UnderWay'
    BY <2>2 DEF UnderWay
  <2>4. RowHashes' = RowHashes /\ Archived' = Archived /\ Waiting' = Waiting
    BY <2>1 DEF RowHashes, Archived, Waiting
  <2>. QED
    BY <1>S, <2>3, <2>4
<1>2. ASSUME NEW t \in Task, InsertCommits(t) PROVE Unarchived' \subseteq Unarchived
  <2>1. /\ pc' = [pc EXCEPT ![t] = "inserted"]
        /\ rows' = Append(rows, row[t]) /\ rows \in Seq(Row) /\ row[t] \in Row
        /\ UNCHANGED << manifests, buffered, row >>
    BY <1>2, <1>T DEF InsertCommits, Goto, TypeOK
  <2>2. RowHashes' \subseteq RowHashes \cup {row[t].hash}
    BY <2>1, RowHashesAfterAppend
  <2>3. pc'[t] = "inserted" /\ \A u \in Task : pc[u] = "inserted" => pc'[u] = "inserted"
    BY <2>1, <1>T DEF TypeOK
  <2>4. UnderWay \cup {row[t].hash} \subseteq UnderWay'
    BY <2>1, <2>3 DEF UnderWay
  <2>5. Archived' = Archived /\ Waiting' = Waiting
    BY <2>1 DEF Archived, Waiting
  <2>. QED
    BY <1>S, <2>2, <2>4, <2>5
<1>3. ASSUME NEW t \in Task, ReplyNotDue(t) \/ ReplyDue(t) PROVE Unarchived' \subseteq Unarchived
  <2>1. /\ pc[t] = "inserted"
        /\ buffered' = Append(buffered, row[t]) /\ buffered \in Seq(Row) /\ row[t] \in Row
        /\ \E l \in {"idle", "manifest"} : pc' = [pc EXCEPT ![t] = l]
        /\ UNCHANGED << rows, manifests, row >>
    BY <1>3, <1>T DEF ReplyNotDue, ReplyDue, Remember, Return, Goto, storeVars, TypeOK
  <2>2. \A u \in Task : u # t /\ pc[u] = "inserted" => pc'[u] = "inserted"
    BY <2>1, <1>T DEF TypeOK
  <2>3. UnderWay \subseteq UnderWay' \cup {row[t].hash}
    BY <2>1, <2>2 DEF UnderWay
  <2>4. Waiting \cup {row[t].hash} \subseteq Waiting'
    BY <2>1, WaitingAfterAppend
  <2>5. RowHashes' = RowHashes /\ Archived' = Archived
    BY <2>1 DEF RowHashes, Archived
  <2>. QED
    BY <1>S, <2>3, <2>4, <2>5
<1>4. ASSUME NEW t \in Task, PutManifest(t) PROVE Unarchived' \subseteq Unarchived
  <2>1. /\ pc[t] = "manifest" /\ pc' = [pc EXCEPT ![t] = "latest"]
        /\ manifests \subseteq manifests'
        /\ UNCHANGED << rows, buffered, row >>
    BY <1>4 DEF PutManifest, Goto
  <2>2. UnderWay \subseteq UnderWay'
    BY <2>1, <1>T DEF UnderWay, TypeOK
  <2>3. RowHashes' = RowHashes /\ Waiting' = Waiting /\ Archived \subseteq Archived'
    BY <2>1 DEF RowHashes, Waiting, Archived
  <2>. QED
    BY <1>S, <2>2, <2>3
<1>5. ASSUME NEW t \in Task, Clear(t) PROVE Unarchived' \subseteq Unarchived
  <2>1. /\ pc[t] = "clear" /\ pc' = [pc EXCEPT ![t] = "idle"]
        /\ UNCHANGED << rows, manifests, row >>
    BY <1>5 DEF Clear, Return, Goto, storeVars
  <2>2. Waiting \subseteq Archived
    BY <2>1, <1>T, BufferedIsArchived
  <2>3. UnderWay \subseteq UnderWay'
    BY <2>1, <1>T DEF UnderWay, TypeOK
  <2>4. RowHashes' = RowHashes /\ Archived' = Archived
    BY <2>1 DEF RowHashes, Archived
  <2>. QED
    BY <1>S, <2>2, <2>3, <2>4
<1>6. ASSUME UNCHANGED vars PROVE Unarchived' \subseteq Unarchived
  BY <1>6 DEF vars, Unarchived, RowHashes, Archived, Waiting
<1>. QED
  BY <1>1, <1>2, <1>3, <1>4, <1>5, <1>6 DEF Next, Advance

LEMMA BackedInvHolds == Spec => []BackedInv
<1>1. Init => BackedInv
  BY InitFlushInv DEF Init, FlushInv, BackedInv, CheckpointsAreBacked
<1>. QED
  BY <1>1, NextBackedInv, FlushInvHolds, PTL DEF Spec

\* No step but the death of the process or a lost reply takes a committed row
\* out of reach of the archive; a flush that fails at any of its three puts
\* leaves its events to the next one (write_event, flush_buffer_locked).
THEOREM NoRowEverDropped == Spec => NoRowDropped
<1>1. BackedInv /\ BackedInv' /\ [Next]_vars
        => [CrashRestart \/ (\E t \in Task : ReplyLost(t)) \/ Unarchived' \subseteq Unarchived]_vars
  BY NextDropsNone
<1>. QED
  BY <1>1, BackedInvHolds, PTL DEF Spec, NoRowDropped

-----------------------------------------------------------------------------
(* Refinement.  A hash is the sequence of contents it commits to, so a seal *)
(* is a prefix of the log as soon as the head commits to the whole table.   *)

LEMMA InitSealInv == Init => SealInv
<1> SUFFICES ASSUME Init PROVE SealInv
  OBVIOUS
<1>1. Contents(<< >>) = << >>
  BY DEF Contents
<1>. QED
  BY <1>1, InitChainInv DEF Init, SealInv, HeadHash, GENESIS

\* latest.json is put while the buffer ends at the head of the chain.
LEMMA SealIsWholeLog ==
  ASSUME SealInv, FlushInv, NEW t \in Task, PutLatest(t)
  PROVE  latest' = Contents(rows)
<1>1. pc[t] = "latest" /\ latest' = BufferedManifest.end
  BY DEF PutLatest
<1>2. Len(buffered) > 0
  BY <1>1 DEF FlushInv, Flushing
<1>3. lastHash = HeadHash(rows)
  BY <1>1 DEF SealInv, ChainInv, HeadInMemory, MutexHeld, Locked, Flushing
<1>. QED
  BY <1>1, <1>2, <1>3 DEF SealInv, BufferedManifest

LEMMA NextSealInv == SealInv /\ ChainInv' /\ FlushInv /\ [Next]_vars => SealInv'
<1> SUFFICES ASSUME SealInv, ChainInv', FlushInv, [Next]_vars PROVE SealInv'
  OBVIOUS
<1>T. /\ ChainInv /\ TypeOK /\ MutexHeld /\ HeadInMemory /\ EventChained /\ FlushInv
      /\ HeadHash(rows) = Contents(rows)
      /\ Len(buffered) > 0 => buffered[Len(buffered)].hash = lastHash
      /\ Len(latest) <= Len(rows)
  BY DEF SealInv, ChainInv
<1> DEFINE Goal == /\ HeadHash(rows)' = Contents(rows)'
                   /\ Len(buffered') > 0 => buffered'[Len(buffered')].hash = lastHash'
                   /\ Len(latest') <= Len(rows')
<1>S. SUFFICES Goal
  BY DEF SealInv
<1>1. ASSUME UNCHANGED << rows, latest, lastHash, buffered >> PROVE Goal
  BY <1>1, <1>T DEF HeadHash, Contents
<1>2. ASSUME NEW t \in Task, InsertCommits(t) PROVE Goal
  <2>1. /\ pc[t] = "insert"
        /\ rows' = Append(rows, row[t])
        /\ UNCHANGED << latest, lastHash, buffered >>
    BY <1>2 DEF InsertCommits
  <2>2. rows \in Seq(Row) /\ row[t] \in Row
    BY <1>T DEF TypeOK
  <2>3. lastHash = HeadHash(rows)
    BY <2>1, <1>T DEF HeadInMemory, MutexHeld, Locked
  <2>4. row[t].hash = Append(Contents(rows), row[t].event)
    BY <2>1, <2>3, <1>T DEF EventChained, Hash
  <2>5. HeadHash(rows)' = row[t].hash
    BY <2>1, <2>2, HeadOfAppend DEF HeadHash
  <2>6. Contents(rows)' = Append(Contents(rows), row[t].event)
    BY <2>1, <2>2, ContentsOfAppend DEF Contents
  <2>7. Len(latest) <= Len(rows')
    BY <2>1, <2>2, <1>T DEF TypeOK, HashValue
  <2>. QED
    BY <2>1, <2>4, <2>5, <2>6, <2>7, <1>T
<1>3. ASSUME NEW t \in Task, Remember(t), UNCHANGED << rows, latest >> PROVE Goal
  <2>1. buffered' = Append(buffered, row[t]) /\ lastHash' = row[t].hash
    BY <1>3 DEF Remember
  <2>2. buffered \in Seq(Row) /\ row[t] \in Row
    BY <1>T DEF TypeOK
  <2>3. buffered'[Len(buffered')] = row[t]
    BY <2>1, <2>2
  <2>. QED
    BY <1>3, <2>1, <2>3, <1>T DEF HeadHash, Contents
<1>4. ASSUME NEW t \in Task, PutLatest(t) PROVE Goal
  <2>1. /\ latest' = BufferedManifest.end
        /\ UNCHANGED << rows, lastHash, buffered >>
    BY <1>4 DEF PutLatest
  <2>2. latest' = Contents(rows)
    BY <1>4, <1>T, SealIsWholeLog
  <2>3. Len(Contents(rows)) = Len(rows)
    BY <1>T, ContentsType DEF TypeOK
  <2>4. rows' = rows
    BY <2>1
  <2>. QED
    BY <2>1, <2>2, <2>3, <1>T DEF HeadHash, Contents, TypeOK
<1>5. ASSUME UNCHANGED << rows, latest >>, buffered' = << >> PROVE Goal
  BY <1>5, <1>T DEF HeadHash, Contents
<1>6. CASE Next
  <2>1. ASSUME NEW t \in Task,
               \/ (\E e \in Event : Call(t, e)) \/ Lock(t) \/ LeaveQueue(t)
               \/ InsertFails(t) \/ ReplyLost(t) \/ FlushFails(t)
               \/ PutManifest(t) \/ PutDated(t)
        PROVE  Goal
    BY <2>1, <1>1 DEF Call, Lock, LeaveQueue, InsertFails, ReplyLost, FlushFails,
                      PutManifest, PutDated, storeVars
  <2>2. ASSUME NEW t \in Task, ReplyNotDue(t) \/ ReplyDue(t) PROVE Goal
    BY <2>2, <1>3 DEF ReplyNotDue, ReplyDue, storeVars
  <2>3. ASSUME NEW t \in Task, Clear(t) PROVE Goal
    BY <2>3, <1>5 DEF Clear, storeVars
  <2>4. ASSUME CrashRestart PROVE Goal
    BY <2>4, <1>5 DEF CrashRestart, storeVars
  <2>. QED
    BY <1>6, <1>2, <1>4, <2>1, <2>2, <2>3, <2>4 DEF Next, Advance
<1>7. CASE UNCHANGED vars
  BY <1>7, <1>1 DEF vars
<1>. QED
  BY <1>6, <1>7

\* Until the reply of a committed INSERT is lost, the writer implements AuditLog:
\* every step appends one event, moves the seal forward, or changes neither.
THEOREM WriterImplementsLog == Spec => ImplementsAuditLog
<1>1. Init => Log!Init
  BY DEF Init, Log!Init, Contents, GENESIS
<1>2. SealInv /\ FlushInv /\ [Next]_vars => [Log!Next]_Log!vars
  <2> SUFFICES ASSUME SealInv, FlushInv, [Next]_vars PROVE [Log!Next]_Log!vars
    OBVIOUS
  <2>T. TypeOK /\ ChainInv /\ Len(latest) <= Len(rows)
    BY DEF SealInv, ChainInv
  <2>1. ASSUME NEW t \in Task, InsertCommits(t) PROVE Log!AppendEvent
    <3>1. rows' = Append(rows, row[t]) /\ latest' = latest
      BY <2>1 DEF InsertCommits
    <3>2. rows \in Seq(Row) /\ row[t] \in Row /\ row[t].event \in Event
      BY <2>T DEF TypeOK, Row
    <3>3. Contents(rows)' = Append(Contents(rows), row[t].event)
      BY <3>1, <3>2, ContentsOfAppend DEF Contents
    <3>. QED
      BY <3>1, <3>2, <3>3 DEF Log!AppendEvent
  <2>2. ASSUME NEW t \in Task, PutLatest(t) PROVE Log!Seal
    <3>1. rows' = rows /\ latest' = Contents(rows)
      BY <2>2, SealIsWholeLog DEF PutLatest
    <3>2. Contents(rows) \in Seq(Event) /\ Len(Contents(rows)) = Len(rows)
      BY <2>T, ContentsType DEF TypeOK, HashValue
    <3>3. Len(latest) \in Nat
      BY <2>T DEF TypeOK, HashValue
    <3>4. Len(latest) <= Len(rows) /\ Len(rows) \in 0 .. Len(Contents(rows))
      BY <2>T, <3>2, <3>3 DEF TypeOK
    <3>5. SubSeq(Contents(rows), 1, Len(rows)) = Contents(rows)
      BY <3>2
    <3>6. Contents(rows)' = Contents(rows)
      BY <3>1 DEF Contents
    <3>. QED
      BY <3>1, <3>4, <3>5, <3>6 DEF Log!Seal
  <2>3. CASE UNCHANGED << rows, latest >>
    BY <2>3 DEF Log!vars, Contents
  <2>. QED
    BY <2>1, <2>2, <2>3 DEF Next, Advance, vars, storeVars, Log!Next, Call, Lock,
       LeaveQueue, InsertFails, ReplyLost, FlushFails, ReplyNotDue, ReplyDue,
       PutManifest, PutDated, Clear, CrashRestart
<1>3. (replyLost \/ SealInv) /\ FlushInv /\ FlushInv' /\ [Next]_vars => (replyLost \/ SealInv)'
  <2>1. SealInv /\ FlushInv' /\ [Next]_vars => ChainInv' \/ replyLost'
    BY NextChainInv DEF SealInv
  <2>. QED
    BY <2>1, NextSealInv, LostForGood
<1>4. Spec => [](replyLost \/ SealInv)
  BY <1>3, InitSealInv, FlushInvHolds, PTL DEF Spec
<1>5. /\ replyLost \/ SealInv
      /\ FlushInv /\ [Next]_vars
      => [replyLost' \/ Log!Next]_Log!vars
  BY <1>2, LostForGood
<1>. QED
  BY <1>1, <1>4, <1>5, FlushInvHolds, PTL DEF Spec, ImplementsAuditLog
=============================================================================
