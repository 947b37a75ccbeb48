-------------------------- MODULE AuditStoreProofs --------------------------
(***************************************************************************)
(* Proofs about the Python audit store, for any number of request threads, *)
(* any set of event contents and any bound on the table, with failing      *)
(* commits and crashes.                                                    *)
(***************************************************************************)
EXTENDS AuditStore, HashChainProofs, WellFoundedInduction

-----------------------------------------------------------------------------
(* Concatenating a sequence of sequences, by induction on how many there   *)
(* are: FlattenSeq turns the manifests of the NDJSON file into its lines.  *)

\* The order of the natural numbers, as a set of pairs.
Less == {p \in Nat \X Nat : p[1] < p[2]}

LEMMA LessWF == IsWellFoundedOn(Less, Nat)
  BY NatLessThanWellFounded DEF OpToRel, Less

\* Induction: a set that holds zero and the successors of its elements.
LEMMA SetInduction ==
  ASSUME NEW T, 0 \in T, \A n \in Nat : n \in T => n + 1 \in T
  PROVE  Nat \subseteq T
<1>1. SUFFICES ASSUME Nat \ T # {} PROVE FALSE
  OBVIOUS
<1>2. PICK x \in Nat \ T : \A y \in Nat \ T : << y, x >> \notin Less
  BY <1>1, LessWF, WFMin
<1>3. x # 0 /\ x - 1 \in Nat
  BY <1>2
<1>4. << x - 1, x >> \in Less
  BY <1>3 DEF Less
<1>5. x - 1 \in T
  BY <1>2, <1>3, <1>4
<1> QED BY <1>2, <1>3, <1>5

\* The sequence of the concatenations of the first sequences of s.
Flattens(f, s) == f = [i \in 1 .. Len(s) |-> IF i = 1 THEN s[i] ELSE f[i - 1] \o s[i]]
Flat(seqs) == CHOOSE f : f = [i \in 1 .. Len(seqs) |-> IF i = 1 THEN seqs[i] ELSE f[i - 1] \o seqs[i]]

LEMMA FlattensAt ==
  ASSUME NEW s, NEW f, Flattens(f, s), NEW i \in 1 .. Len(s)
  PROVE  f[i] = IF i = 1 THEN s[i] ELSE f[i - 1] \o s[i]
<1>1. PICK h : h = [j \in 1 .. Len(s) |-> IF j = 1 THEN s[j] ELSE f[j - 1] \o s[j]]
  OBVIOUS
<1>2. f = h
  BY <1>1, Zenon DEF Flattens
<1>3. h[i] = IF i = 1 THEN s[i] ELSE f[i - 1] \o s[i]
  BY <1>1
<1> QED BY <1>2, <1>3

\* FlattenSeq returns the last of them.
LEMMA FlattenIsFlat ==
  ASSUME NEW s
  PROVE  FlattenSeq(s) = IF Len(s) = 0 THEN s ELSE Flat(s)[Len(s)]
  BY DEF FlattenSeq, Flat

LEMMA FlatFlattens ==
  ASSUME NEW s, NEW g, Flattens(g, s)
  PROVE  Flattens(Flat(s), s)
<1>1. \E f : f = [i \in 1 .. Len(s) |-> IF i = 1 THEN s[i] ELSE f[i - 1] \o s[i]]
  BY DEF Flattens
<1> QED BY <1>1 DEF Flat, Flattens

\* There are such concatenations ...
LEMMA FlattensBuilt ==
  ASSUME NEW S, NEW s \in Seq(Seq(S))
  PROVE  \E f \in [1 .. Len(s) -> Seq(S)] : Flattens(f, s)
<1> DEFINE Upto(n, f) == \A i \in 1 .. n : f[i] = IF i = 1 THEN s[i] ELSE f[i - 1] \o s[i]
           T == {n \in Nat : n <= Len(s) => \E f \in [1 .. n -> Seq(S)] : Upto(n, f)}
<1>1. 0 \in T
  <2>1. [i \in 1 .. 0 |-> << >>] \in [1 .. 0 -> Seq(S)]
    OBVIOUS
  <2>2. \A f : Upto(0, f)
    OBVIOUS
  <2> QED BY <2>1, <2>2
<1>2. ASSUME NEW n \in Nat, n \in T PROVE n + 1 \in T
  <2> SUFFICES n + 1 <= Len(s) => \E f \in [1 .. n + 1 -> Seq(S)] : Upto(n + 1, f)
    <3> HIDE DEF Upto
    <3>1. n + 1 \in Nat
      OBVIOUS
    <3> QED BY <3>1
  <2> SUFFICES ASSUME n + 1 <= Len(s) PROVE \E f \in [1 .. n + 1 -> Seq(S)] : Upto(n + 1, f)
    OBVIOUS
  <2>0. \E f \in [1 .. n -> Seq(S)] : Upto(n, f)
    <3>1. n <= Len(s)
      OBVIOUS
    <3> HIDE DEF Upto
    <3> QED BY <1>2, <3>1
  <2>1. PICK f \in [1 .. n -> Seq(S)] : Upto(n, f)
    BY <2>0
  <2>2. s[n + 1] \in Seq(S)
    OBVIOUS
  <2> DEFINE last == IF n = 0 THEN s[1] ELSE f[n] \o s[n + 1]
             g == [i \in 1 .. n + 1 |-> IF i = n + 1 THEN last ELSE f[i]]
  <2>3. last \in Seq(S)
    <3>1. CASE n = 0
      BY <2>2, <3>1
    <3>2. CASE n # 0
      <4>1. f[n] \in Seq(S)
        BY <3>2
      <4> QED BY <2>2, <3>2, <4>1
    <3> QED BY <3>1, <3>2
  <2>4. g \in [1 .. n + 1 -> Seq(S)]
    <3> HIDE DEF last
    <3>1. \A i \in 1 .. n + 1 : (IF i = n + 1 THEN last ELSE f[i]) \in Seq(S)
      <4> TAKE i \in 1 .. n + 1
      <4>1. i # n + 1 => i \in 1 .. n
        OBVIOUS
      <4> QED BY <2>3, <4>1
    <3> QED BY <3>1
  <2>5. ASSUME NEW i \in 1 .. n + 1 PROVE g[i] = IF i = 1 THEN s[i] ELSE g[i - 1] \o s[i]
    <3>1. CASE i = n + 1
      <4>1. CASE n = 0
        BY <3>1, <4>1
      <4>2. CASE n # 0
        <5>1. i # 1 /\ i - 1 = n /\ i - 1 \in 1 .. n + 1 /\ i - 1 # n + 1
          BY <3>1, <4>2
        <5>2. g[i - 1] = f[n]
          BY <5>1
        <5>3. g[i] = f[n] \o s[n + 1]
          BY <3>1, <4>2
        <5> HIDE DEF g
        <5> QED BY <3>1, <5>1, <5>2, <5>3
      <4> QED BY <4>1, <4>2
    <3>2. CASE i # n + 1
      <4>1. i \in 1 .. n
        BY <3>2
      <4>2. g[i] = f[i]
        BY <3>2
      <4>3. i # 1 => g[i - 1] = f[i - 1]
        BY <4>1
      <4>4. f[i] = IF i = 1 THEN s[i] ELSE f[i - 1] \o s[i]
        BY <2>1, <4>1
      <4> HIDE DEF g
      <4> QED BY <4>2, <4>3, <4>4
    <3> QED BY <3>1, <3>2
  <2> HIDE DEF g
  <2> QED BY <2>4, <2>5
<1>3. Len(s) \in T
  <2> HIDE DEF T
  <2> QED BY <1>1, <1>2, SetInduction
<1>4. PICK f \in [1 .. Len(s) -> Seq(S)] : Upto(Len(s), f)
  BY <1>3
<1>5. f = [i \in 1 .. Len(s) |-> f[i]]
  OBVIOUS
<1>6. Flattens(f, s)
  BY <1>4, <1>5 DEF Flattens
<1> QED BY <1>6

\* s is the beginning of t.
Begins(s, t) ==
  /\ Len(s) \in Nat /\ Len(t) \in Nat /\ Len(s) <= Len(t)
  /\ \A i \in 1 .. Len(s) : s[i] = t[i]

\* ... and they are determined by the sequences they concatenate.
LEMMA FlattensAgree ==
  ASSUME NEW s, NEW t, Begins(s, t), NEW f, NEW g, Flattens(f, s), Flattens(g, t)
  PROVE  \A i \in 1 .. Len(s) : f[i] = g[i]
<1> USE DEF Begins
<1> DEFINE T == {n \in Nat : n \in 1 .. Len(s) => f[n] = g[n]}
<1>1. 0 \in T
  OBVIOUS
<1>2. ASSUME NEW n \in Nat, n \in T PROVE n + 1 \in T
  <2> SUFFICES ASSUME n + 1 \in 1 .. Len(s) PROVE f[n + 1] = g[n + 1]
    OBVIOUS
  <2>1. f[n + 1] = IF n + 1 = 1 THEN s[n + 1] ELSE f[n + 1 - 1] \o s[n + 1]
    BY FlattensAt
  <2>2. g[n + 1] = IF n + 1 = 1 THEN t[n + 1] ELSE g[n + 1 - 1] \o t[n + 1]
    <3>1. n + 1 \in 1 .. Len(t)
      OBVIOUS
    <3> QED BY <3>1, FlattensAt
  <2>3. n + 1 # 1 => f[n + 1 - 1] = g[n + 1 - 1]
    <3>1. n + 1 # 1 => n \in 1 .. Len(s)
      OBVIOUS
    <3>2. n + 1 # 1 => f[n] = g[n]
      BY <1>2, <3>1
    <3>3. n + 1 - 1 = n
      OBVIOUS
    <3> QED BY <3>2, <3>3
  <2>4. s[n + 1] = t[n + 1]
    OBVIOUS
  <2> QED BY <2>1, <2>2, <2>3, <2>4
<1> HIDE DEF T
<1>3. Nat \subseteq T
  BY <1>1, <1>2, SetInduction
<1> QED BY <1>3 DEF T

LEMMA FlatType ==
  ASSUME NEW S, NEW s \in Seq(Seq(S))
  PROVE  Flattens(Flat(s), s) /\ \A i \in 1 .. Len(s) : Flat(s)[i] \in Seq(S)
<1>1. PICK f \in [1 .. Len(s) -> Seq(S)] : Flattens(f, s)
  BY FlattensBuilt
<1>2. Flattens(Flat(s), s)
  BY <1>1, FlatFlattens
<1>3. \A i \in 1 .. Len(s) : Flat(s)[i] = f[i]
  <2>1. Begins(s, s)
    BY DEF Begins
  <2> QED BY <1>1, <1>2, <2>1, FlattensAgree
<1> QED BY <1>1, <1>2, <1>3

\* What FlattenSeq returns ...
LEMMA FlattenType ==
  ASSUME NEW S, NEW s \in Seq(Seq(S))
  PROVE  FlattenSeq(s) \in Seq(S)
<1>1. CASE Len(s) = 0
  <2>1. s = << >> /\ << >> \in Seq(S)
    BY <1>1
  <2> QED BY <1>1, <2>1, FlattenIsFlat
<1>2. CASE Len(s) # 0
  <2>1. Len(s) \in 1 .. Len(s)
    BY <1>2
  <2> QED BY <1>2, <2>1, FlatType, FlattenIsFlat
<1> QED BY <1>1, <1>2

\* ... and how it grows with its argument.
LEMMA FlattenAppend ==
  ASSUME NEW S, NEW s \in Seq(Seq(S)), NEW x \in Seq(S)
  PROVE  FlattenSeq(Append(s, x)) = FlattenSeq(s) \o x
<1> DEFINE t == Append(s, x)
           n == Len(s)
<1>1. /\ t \in Seq(Seq(S)) /\ Len(t) = n + 1 /\ n \in Nat
      /\ t[n + 1] = x /\ \A i \in 1 .. n : t[i] = s[i]
  OBVIOUS
<1> HIDE DEF t
<1>2. Flattens(Flat(s), s) /\ Flattens(Flat(t), t)
  BY <1>1, FlatType
<1>3. FlattenSeq(t) = Flat(t)[n + 1]
  BY <1>1, FlattenIsFlat
<1>4. Flat(t)[n + 1] = IF n + 1 = 1 THEN t[n + 1] ELSE Flat(t)[n + 1 - 1] \o t[n + 1]
  <2>1. n + 1 \in 1 .. Len(t)
    BY <1>1
  <2> QED BY <1>2, <2>1, FlattensAt
<1>5. CASE n = 0
  <2>1. FlattenSeq(s) = s /\ s = << >>
    BY <1>5, FlattenIsFlat
  <2>2. << >> \o x = x
    OBVIOUS
  <2> QED BY <1>1, <1>3, <1>4, <1>5, <2>1, <2>2 DEF t
<1>6. CASE n # 0
  <2>1. FlattenSeq(s) = Flat(s)[n] /\ n \in 1 .. n
    BY <1>1, <1>6, FlattenIsFlat
  <2>2. Begins(s, t)
    BY <1>1 DEF Begins
  <2>b. \A i \in 1 .. Len(s) : Flat(s)[i] = Flat(t)[i]
    <3> HIDE DEF n
    <3> QED BY <1>2, <2>2, FlattensAgree
  <2>3. Flat(t)[n] = Flat(s)[n]
    BY <2>1, <2>b
  <2>4. n + 1 # 1 /\ n + 1 - 1 = n
    BY <1>1, <1>6
  <2> HIDE DEF n
  <2> QED BY <1>1, <1>3, <1>4, <2>1, <2>3, <2>4 DEF t
<1> QED BY <1>5, <1>6

LEMMA FlattenNone == FlattenSeq(<< >>) = << >>
<1>1. Len(<< >>) = 0
  OBVIOUS
<1> QED BY <1>1, FlattenIsFlat
-----------------------------------------------------------------------------
\* The event of a thread without one has its type.
LEMMA NoEventType == NoEvent \in Row
<1>1. (CHOOSE e \in Event : TRUE) \in Event /\ GENESIS \in HashValue
  BY ConstantsAssumption DEF GENESIS, HashValue
<1> QED BY <1>1, ChainedType DEF NoEvent

-----------------------------------------------------------------------------
(* Types *)

\* A thread goes from one place to another.
LEMMA StepType ==
  ASSUME TypeOK, NEW t \in Thread, NEW from, NEW to \in PC, Step(t, from, to)
  PROVE  pc' \in [Thread -> PC]
  BY DEF Step, TypeOK

\* The locals of a thread whose call is over.
LEMMA LeaveType ==
  ASSUME TypeOK, NEW t \in Thread, NEW from, Leave(t, from)
  PROVE  /\ pc' \in [Thread -> PC]
         /\ job' \in [Thread -> {"append", "checkpoint", "opsAudit"}]
         /\ event' \in [Thread -> Row]
         /\ lines' \in [Thread -> Seq(Row)]
         /\ seen' \in [Thread -> HashValue]
<1>1. GENESIS \in HashValue /\ << >> \in Seq(Row)
  BY DEF GENESIS, HashValue
<1>2. "idle" \in PC
  BY DEF PC
<1> QED
  BY <1>1, <1>2, NoEventType, StepType DEF Leave, TypeOK

\* A call that begins.
LEMMA CallType ==
  ASSUME TypeOK, NEW t \in Thread, NEW to \in PC,
         NEW what \in {"append", "checkpoint", "opsAudit"}, Call(t, to, what)
  PROVE  /\ pc' \in [Thread -> PC]
         /\ job' \in [Thread -> {"append", "checkpoint", "opsAudit"}]
         /\ disturbed' \in BOOLEAN
         /\ UNCHANGED << acked, lost, undone >>
<1>1. disturbed' \in BOOLEAN
  BY DEF Call, TypeOK
<1> QED
  BY <1>1, StepType DEF Call, TypeOK

\* A call that ends after a flush, or goes on to the checkpoint.
LEMMA AfterFlushType ==
  ASSUME TypeOK, NEW t \in Thread, NEW from, AfterFlush(t, from)
  PROVE  /\ pc' \in [Thread -> PC]
         /\ job' \in [Thread -> {"append", "checkpoint", "opsAudit"}]
         /\ event' \in [Thread -> Row]
         /\ lines' \in [Thread -> Seq(Row)]
         /\ seen' \in [Thread -> HashValue]
         /\ acked' \subseteq HashValue
         /\ UNCHANGED << lost, undone, disturbed >>
<1> USE DEF history
<1>1. CASE job[t] = "opsAudit"
  <2>1. "readHead" \in PC
    BY DEF PC
  <2> QED
    BY <1>1, <2>1, StepType DEF AfterFlush, TypeOK, locals, results
<1>2. CASE job[t] # "opsAudit"
  <2>1. event[t].hash \in HashValue
    BY DEF TypeOK, Row
  <2> QED
    BY <1>2, <2>1, LeaveType DEF AfterFlush, TypeOK
<1> QED BY <1>1, <1>2

LEMMA InitType == Init => TypeOK
<1> SUFFICES ASSUME Init PROVE TypeOK
  OBVIOUS
<1>1. GENESIS \in HashValue /\ << >> \in Seq(Row) /\ << >> \in Seq(Seq(Row)) /\ Len(<< >>) = 0
  BY DEF GENESIS, HashValue
<1>2. /\ rows \in Seq(Row) /\ committed \in 0 .. Len(rows)
      /\ objectStore \in Seq(Seq(Row)) /\ buffer \in Seq(Row)
  BY <1>1 DEF Init
<1>3. /\ event \in [Thread -> Row] /\ lines \in [Thread -> Seq(Row)]
      /\ seen \in [Thread -> HashValue]
  BY <1>1, NoEventType DEF Init
<1>4. /\ pc \in [Thread -> PC] /\ job \in [Thread -> {"append", "checkpoint", "opsAudit"}]
      /\ checkpoint \in HashValue /\ lastHash \in HashValue
      /\ acked \subseteq HashValue /\ lost \subseteq HashValue /\ undone \subseteq HashValue
      /\ disturbed \in BOOLEAN
  BY <1>1 DEF Init, PC
<1> QED
  BY <1>2, <1>3, <1>4 DEF TypeOK

\* What a rollback leaves.
LEMMA DurableType ==
  ASSUME TypeOK
  PROVE  Durable \in Seq(Row) /\ Len(Durable) = committed
  BY DEF TypeOK, Durable

\* The hashes of rows are hash values.
LEMMA HashesType ==
  ASSUME NEW s \in Seq(Row)
  PROVE  Hashes(s) \subseteq HashValue
<1>1. \A i \in 1 .. Len(s) : s[i] \in Row
  OBVIOUS
<1> QED
  BY <1>1 DEF Hashes, Row

\* A rollback leaves the durable rows, and only hashes are undone.
LEMMA RollBackType ==
  ASSUME TypeOK, NEW t \in Thread, RollBack(t)
  PROVE  /\ rows' \in Seq(Row) /\ committed' \in 0 .. Len(rows') /\ undone' \subseteq HashValue
         /\ UNCHANGED << objectStore, checkpoint, lastHash, buffer, acked, lost, disturbed >>
<1>1. rows' = Durable /\ committed' = committed
  BY DEF RollBack
<1>2. rows' \in Seq(Row) /\ committed' \in 0 .. Len(rows')
  BY <1>1, DurableType DEF TypeOK
<1>3. Undone(t) \subseteq HashValue
  BY DEF Undone, TypeOK, Row
<1> QED
  BY <1>2, <1>3 DEF RollBack, memory, TypeOK

LEMMA NextType == TypeOK /\ [Next]_vars => TypeOK'
<1> SUFFICES ASSUME TypeOK, [Next]_vars PROVE TypeOK'
  OBVIOUS
<1> USE DEF disk, memory, locals, results, history
<1>P. {"idle", "hash", "prev", "insert", "commit", "buffer", "last", "flush",
       "build", "write", "clear", "readHead", "openCheckpoint", "fillCheckpoint"} \subseteq PC
  BY DEF PC
<1>G. GENESIS \in HashValue /\ << >> \in Seq(Row)
  BY DEF GENESIS, HashValue
<1>1. ASSUME NEW t \in Thread, NEW e \in Event, CallAppend(t, e) PROVE TypeOK'
  <2>1. Chained(e, GENESIS) \in Row
    BY <1>G, ChainedType
  <2> QED
    BY <1>1, <1>P, <2>1, CallType DEF CallAppend, TypeOK
<1>2. ASSUME NEW t \in Thread, ComputeHash(t) PROVE TypeOK'
  <2>1. Hash(event[t].event, lastHash) \in HashValue
    BY DEF TypeOK, Row, Hash, HashValue
  <2>2. event' \in [Thread -> Row]
    BY <1>2, <2>1 DEF ComputeHash, TypeOK, Row
  <2> QED
    BY <1>2, <1>P, <2>2, StepType DEF ComputeHash, TypeOK
<1>3. ASSUME NEW t \in Thread, ReadPrev(t) PROVE TypeOK'
  <2>1. event' \in [Thread -> Row]
    BY <1>3 DEF ReadPrev, TypeOK, Row
  <2> QED
    BY <1>3, <1>P, <2>1, StepType DEF ReadPrev, TypeOK
<1>4. ASSUME NEW t \in Thread, Insert(t) PROVE TypeOK'
  <2>1. rows' \in Seq(Row) /\ committed' \in 0 .. Len(rows')
    BY <1>4 DEF Insert, TypeOK
  <2> QED
    BY <1>4, <1>P, <2>1, StepType DEF Insert, TypeOK
<1>5. ASSUME NEW t \in Thread, \E from : Raise(t, from) PROVE TypeOK'
  BY <1>5, LeaveType DEF Raise, TypeOK
<1>a. ASSUME NEW t \in Thread, NEW from, Leave(t, from), RollBack(t) PROVE TypeOK'
  BY <1>a, LeaveType, RollBackType DEF TypeOK
<1>6. ASSUME NEW t \in Thread, Commit(t) PROVE TypeOK'
  <2>1. committed' \in 0 .. Len(rows')
    BY <1>6 DEF Commit, TypeOK
  <2> QED
    BY <1>6, <1>P, <2>1, StepType DEF Commit, TypeOK
<1>7. ASSUME NEW t \in Thread, CommitRaises(t) PROVE TypeOK'
  <2>1. CASE disturbed' = TRUE /\ UNCHANGED << disk, memory, acked, lost, undone >>
    BY <1>7, <2>1, LeaveType DEF CommitRaises, TypeOK
  <2> QED BY <1>7, <1>a, <2>1 DEF CommitRaises
<1>8. ASSUME NEW t \in Thread, BufferEvent(t) PROVE TypeOK'
  <2>1. buffer' \in Seq(Row)
    BY <1>8 DEF BufferEvent, TypeOK
  <2> QED
    BY <1>8, <1>P, <2>1, StepType DEF BufferEvent, TypeOK
<1>9. ASSUME NEW t \in Thread, SetLastHash(t) PROVE TypeOK'
  <2>1. event[t].hash \in HashValue
    BY DEF TypeOK, Row
  <2>2. CASE Leave(t, "last") /\ acked' = acked \cup {event[t].hash} /\ UNCHANGED history
    BY <1>9, <2>1, <2>2, LeaveType DEF SetLastHash, TypeOK
  <2>3. CASE Step(t, "last", "flush") /\ UNCHANGED << locals, results >>
    BY <1>9, <1>P, <2>1, <2>3, StepType DEF SetLastHash, TypeOK
  <2> QED BY <1>9, <2>2, <2>3 DEF SetLastHash
<1>10. ASSUME NEW t \in Thread, CallOpsAudit(t) \/ CallCheckpoint(t) PROVE TypeOK'
  BY <1>10, <1>P, CallType DEF CallOpsAudit, CallCheckpoint, TypeOK
<1>11. ASSUME NEW t \in Thread, FlushEmpty(t) PROVE TypeOK'
  BY <1>11, AfterFlushType DEF FlushEmpty, TypeOK
<1>12. ASSUME NEW t \in Thread, FlushDue(t) \/ FlushBuild(t) PROVE TypeOK'
  BY <1>12, <1>P, StepType DEF FlushDue, FlushBuild, TypeOK
<1>13. ASSUME NEW t \in Thread, FlushWrite(t) PROVE TypeOK'
  <2>1. objectStore' \in Seq(Seq(Row))
    BY <1>13 DEF FlushWrite, TypeOK
  <2> QED
    BY <1>13, <1>P, <2>1, StepType DEF FlushWrite, TypeOK
<1>14. ASSUME NEW t \in Thread, FlushClear(t) PROVE TypeOK'
  BY <1>14, <1>G, AfterFlushType DEF FlushClear, TypeOK
<1>15. ASSUME NEW t \in Thread, ReadHead(t) PROVE TypeOK'
  <2>1. HeadHash(rows) \in HashValue
    BY HeadType DEF TypeOK
  <2> QED
    BY <1>15, <1>P, <2>1, StepType DEF ReadHead, TypeOK
<1>16. ASSUME NEW t \in Thread, OpenCheckpoint(t) PROVE TypeOK'
  BY <1>16, <1>P, StepType DEF OpenCheckpoint, TypeOK
<1>b. ASSUME NEW t \in Thread, FillCheckpoint(t) \/ FillRaises(t) PROVE TypeOK'
  <2>1. checkpoint' \in HashValue \cup {Empty, Garbled}
    BY <1>b DEF FillCheckpoint, FillRaises, Filled, TypeOK
  <2> QED
    BY <1>b, <2>1, LeaveType DEF FillCheckpoint, FillRaises, TypeOK
<1>17. ASSUME CrashRestart PROVE TypeOK'
  <2>1. /\ rows' = Durable /\ Durable \in Seq(Row) /\ Len(Durable) = committed
        /\ lastHash' = HeadHash(Durable)
    BY <1>17, DurableType DEF CrashRestart, Durable
  <2>2. lastHash' \in HashValue
    BY <2>1, HeadType
  <2>3. rows' \in Seq(Row) /\ committed' \in 0 .. Len(rows')
    BY <1>17, <2>1 DEF CrashRestart, TypeOK
  <2>4. lost' \subseteq HashValue
    BY <1>17, <2>1, HashesType DEF CrashRestart, LostByCrash, TypeOK
  <2>5. /\ pc' \in [Thread -> PC] /\ job' \in [Thread -> {"append", "checkpoint", "opsAudit"}]
        /\ event' \in [Thread -> Row] /\ lines' \in [Thread -> Seq(Row)]
        /\ seen' \in [Thread -> HashValue] /\ buffer' \in Seq(Row)
    BY <1>17, <1>P, <1>G, NoEventType DEF CrashRestart
  <2> QED
    BY <1>17, <2>2, <2>3, <2>4, <2>5 DEF CrashRestart, TypeOK
<1>18. CASE UNCHANGED vars
  BY <1>18 DEF vars, TypeOK
<1> QED
  BY <1>1, <1>2, <1>3, <1>4, <1>5, <1>a, <1>6, <1>7, <1>8, <1>9, <1>10, <1>11, <1>12, <1>13, <1>14,
     <1>15, <1>16, <1>b, <1>17, <1>18
  DEF Next, ThreadStep, InsertRaises, WriteRaises, BuildRaises, OpenRaises

\* Every variable keeps its type, and no more rows are committed than there
\* are (audit.py, AuditStore).
THEOREM TypeCorrect == Spec => []TypeOK
  BY InitType, NextType, PTL DEF Spec

-----------------------------------------------------------------------------
(* What is durable stays durable: a COMMIT of any thread adds to it, and a  *)
(* crash takes nothing from it.  Each fact about durability below is only   *)
(* ever established by a COMMIT and can therefore not be lost.              *)

LEMMA HashesOfPrefix ==
  ASSUME NEW s \in Seq(Row), NEW n \in 0 .. Len(s)
  PROVE  Hashes(SubSeq(s, 1, n)) = {s[i].hash : i \in 1 .. n}
<1>1. Len(SubSeq(s, 1, n)) = n /\ \A i \in 1 .. n : SubSeq(s, 1, n)[i] = s[i]
  OBVIOUS
<1> QED BY <1>1 DEF Hashes

LEMMA HashesOfAppend ==
  ASSUME NEW s \in Seq(Row), NEW r \in Row
  PROVE  Hashes(Append(s, r)) = Hashes(s) \cup {r.hash}
<1>1. /\ Len(Append(s, r)) = Len(s) + 1 /\ Append(s, r)[Len(s) + 1] = r
      /\ \A i \in 1 .. Len(s) : Append(s, r)[i] = s[i]
  OBVIOUS
<1> QED BY <1>1 DEF Hashes

LEMMA NoHashes == Hashes(<< >>) = {}
  BY DEF Hashes

LEMMA DurableGrows == TypeOK /\ TypeOK' /\ [Next]_vars => Hashes(Durable) \subseteq Hashes(Durable')
<1> SUFFICES ASSUME TypeOK, TypeOK', [Next]_vars PROVE Hashes(Durable) \subseteq Hashes(Durable')
  OBVIOUS
<1> USE DEF disk, memory, locals, results, history
<1>1. Hashes(Durable) = {rows[i].hash : i \in 1 .. committed}
  BY HashesOfPrefix DEF TypeOK, Durable
<1>2. Hashes(Durable') = {rows'[i].hash : i \in 1 .. committed'}
  <2>1. Durable' = SubSeq(rows', 1, committed')
    BY DEF Durable
  <2> QED BY <2>1, HashesOfPrefix DEF TypeOK
<1>3. ASSUME committed' \in Nat, committed <= committed', \A i \in 1 .. committed : rows'[i] = rows[i]
      PROVE  Hashes(Durable) \subseteq Hashes(Durable')
  <2>1. committed \in Nat
    BY DEF TypeOK
  <2>2. \A i \in 1 .. committed : i \in 1 .. committed' /\ rows'[i].hash = rows[i].hash
    BY <1>3, <2>1
  <2> QED BY <1>1, <1>2, <2>2
<1>4. ASSUME UNCHANGED << rows, committed >> PROVE Hashes(Durable) \subseteq Hashes(Durable')
  BY <1>1, <1>2, <1>4
<1>5. ASSUME NEW t \in Thread, Insert(t) PROVE Hashes(Durable) \subseteq Hashes(Durable')
  <2>1. rows' = Append(rows, event[t]) /\ committed' = committed
    BY <1>5 DEF Insert
  <2>2. \A i \in 1 .. committed : rows'[i] = rows[i]
    BY <2>1 DEF TypeOK
  <2> QED BY <1>3, <2>1, <2>2 DEF TypeOK
<1>6. ASSUME NEW t \in Thread, Commit(t) PROVE Hashes(Durable) \subseteq Hashes(Durable')
  BY <1>3, <1>6 DEF Commit, TypeOK
<1>7. ASSUME CrashRestart \/ \E t \in Thread : RollBack(t)
      PROVE  Hashes(Durable) \subseteq Hashes(Durable')
  <2>1. rows' = SubSeq(rows, 1, committed) /\ committed' = committed
    BY <1>7 DEF CrashRestart, RollBack, Durable
  <2>2. \A i \in 1 .. committed : rows'[i] = rows[i]
    BY <2>1 DEF TypeOK
  <2> QED BY <1>3, <2>1, <2>2 DEF TypeOK
<1> QED
  BY <1>4, <1>5, <1>6, <1>7
  DEF Next, ThreadStep, vars, CallAppend, Call, ComputeHash, ReadPrev, InsertRaises, WriteRaises, Raise,
      CommitRaises, BufferEvent, SetLastHash, CallOpsAudit, CallCheckpoint, FlushEmpty, FlushDue,
      FlushBuild, BuildRaises, FlushWrite, FlushClear, ReadHead, OpenCheckpoint, OpenRaises,
      FillCheckpoint, FillRaises

\* The rows of calls under way stay in the table, or are undone.
LEMMA TableGrows ==
  ASSUME TypeOK, NEW t \in Thread, ThreadStep(t), NEW u \in Thread \ {t}, pc[u] = "commit",
         event[u].hash \in Hashes(rows) \cup undone
  PROVE  event[u].hash \in Hashes(rows') \cup undone'
<1> USE DEF disk, memory, locals, results, history
<1>1. CASE Insert(t)
  <2>1. rows' = Append(rows, event[t]) /\ undone' = undone
    BY <1>1 DEF Insert
  <2> QED BY <2>1, HashesOfAppend DEF TypeOK
<1>2. CASE RollBack(t)
  <2>1. rows' = Durable /\ undone' = undone \cup Undone(t)
    BY <1>2 DEF RollBack
  <2>2. event[u].hash \in Hashes(Durable) \cup Undone(t)
    BY DEF Undone
  <2> QED BY <2>1, <2>2
<1>3. CASE UNCHANGED << rows, undone >>
  BY <1>3
<1> QED
  BY <1>1, <1>2, <1>3
  DEF ThreadStep, CallAppend, Call, ComputeHash, ReadPrev, InsertRaises, WriteRaises, Raise,
      Commit, CommitRaises, BufferEvent, SetLastHash, CallOpsAudit, CallCheckpoint, FlushEmpty,
      FlushDue, FlushBuild, BuildRaises, FlushWrite, FlushClear, AfterFlush, ReadHead,
      OpenCheckpoint, OpenRaises, FillCheckpoint, FillRaises

\* What is undone stays so.
LEMMA UndoneGrows == [Next]_vars => undone \subseteq undone'
  BY DEF Next, ThreadStep, vars, disk, memory, locals, results, history, CallAppend, CallOpsAudit,
         CallCheckpoint, Call, ComputeHash, ReadPrev, Insert, InsertRaises, WriteRaises, Raise,
         RollBack, Commit, CommitRaises, BufferEvent, SetLastHash, FlushEmpty, FlushDue, FlushBuild,
         BuildRaises, FlushWrite, FlushClear, ReadHead, OpenCheckpoint, OpenRaises, FillCheckpoint,
         FillRaises, AfterFlush, CrashRestart

\* A step of one thread does not touch the locals of another.
LEMMA OwnLocals ==
  ASSUME TypeOK, NEW t \in Thread, ThreadStep(t), NEW u \in Thread \ {t}
  PROVE  /\ pc'[u] = pc[u] /\ job'[u] = job[u] /\ event'[u] = event[u]
         /\ lines'[u] = lines[u] /\ seen'[u] = seen[u]
<1> USE DEF disk, memory, locals, results, history, TypeOK
<1>1. ASSUME NEW from, NEW to, Step(t, from, to) PROVE pc'[u] = pc[u]
  BY <1>1 DEF Step
<1>2. ASSUME NEW from, Leave(t, from)
      PROVE  /\ pc'[u] = pc[u] /\ job'[u] = job[u] /\ event'[u] = event[u]
             /\ lines'[u] = lines[u] /\ seen'[u] = seen[u]
  BY <1>1, <1>2 DEF Leave
<1>4. CASE (\E e \in Event : CallAppend(t, e)) \/ CallOpsAudit(t) \/ CallCheckpoint(t)
  BY <1>1, <1>4 DEF CallAppend, CallOpsAudit, CallCheckpoint, Call
<1>5. CASE ComputeHash(t) \/ ReadPrev(t) \/ FlushDue(t) \/ FlushBuild(t) \/ ReadHead(t)
  BY <1>1, <1>5 DEF ComputeHash, ReadPrev, FlushDue, FlushBuild, ReadHead
<1>7. CASE FlushEmpty(t) \/ FlushClear(t)
  BY <1>2, <1>1, <1>7 DEF FlushEmpty, FlushClear, AfterFlush
<1>8. CASE SetLastHash(t)
  BY <1>2, <1>1, <1>8 DEF SetLastHash
<1>9. CASE Insert(t) \/ Commit(t) \/ BufferEvent(t) \/ FlushWrite(t) \/ OpenCheckpoint(t)
  BY <1>1, <1>9 DEF Insert, Commit, BufferEvent, FlushWrite, OpenCheckpoint
<1>10. CASE \/ InsertRaises(t) \/ CommitRaises(t) \/ BuildRaises(t) \/ WriteRaises(t) \/ OpenRaises(t)
           \/ FillCheckpoint(t) \/ FillRaises(t)
  BY <1>2, <1>10 DEF InsertRaises, CommitRaises, BuildRaises, WriteRaises, OpenRaises, Raise,
                     FillCheckpoint, FillRaises
<1> QED
  BY <1>4, <1>5, <1>7, <1>8, <1>9, <1>10 DEF ThreadStep

\* append will return this event if nothing else fails.
Returning(t) ==
  \/ pc[t] \in {"buffer", "last"}
  \/ pc[t] \in {"flush", "build", "write", "clear"} /\ job[t] # "opsAudit"

\* What no step takes away: durable rows, and the record of the undone ones.
Kept == Hashes(Durable) \cup undone

\* Whatever a thread holds, wherever it is, is in the table, durable or undone.
Safe(t) ==
  /\ pc[t] = "commit" => event[t].hash \in Hashes(rows) \cup undone
  /\ Returning(t) => event[t].hash \in Kept
  /\ Hashes(lines[t]) \subseteq Kept

\* The strengthening: an event is in the table until its COMMIT, or undone by
\* then, and durable or undone from then on wherever it goes: into the buffer, a
\* thread's copy of it, the NDJSON file, and the answer.
DurableInv ==
  /\ AckedIsDurable
  /\ ArchiveAfterCommit
  /\ \A t \in Thread : Safe(t)

LEMMA InitDurable == Init => DurableInv
<1> SUFFICES ASSUME Init PROVE DurableInv
  OBVIOUS
<1>1. /\ acked = {} /\ Hashes(buffer) = {} /\ Stored = {}
      /\ \A t \in Thread : pc[t] = "idle" /\ Hashes(lines[t]) = {}
  BY NoHashes DEF Init, Stored
<1> QED BY <1>1 DEF DurableInv, AckedIsDurable, ArchiveAfterCommit, Safe, Returning

\* A thread that is idle, or goes to a place where it holds nothing, is safe.
LEMMA SafeHereafter ==
  ASSUME DurableInv, TypeOK, TypeOK', [Next]_vars, NEW t \in Thread, NEW from,
         Leave(t, from)
  PROVE  Safe(t)'
<1>1. pc'[t] = "idle" /\ lines'[t] = << >>
  BY DEF Leave, Step, TypeOK
<1>2. Hashes(lines'[t]) = {}
  BY <1>1, NoHashes
<1> QED BY <1>1, <1>2 DEF Safe, Returning

\* A write adds the hashes of its lines to those stored.
LEMMA StoredAfterWrite ==
  ASSUME TypeOK, NEW x \in Seq(Row), objectStore' = Append(objectStore, x)
  PROVE  Stored' = Stored \cup Hashes(x)
<1> DEFINE n == Len(objectStore)
<1>1. /\ Len(objectStore') = n + 1 /\ n \in Nat /\ objectStore'[n + 1] = x
      /\ \A i \in 1 .. n : objectStore'[i] = objectStore[i]
  BY DEF TypeOK
<1>2. Stored = UNION {Hashes(objectStore[i]) : i \in 1 .. n}
  BY DEF Stored
<1>3. Stored' = UNION {Hashes(objectStore'[i]) : i \in 1 .. n + 1}
  BY <1>1 DEF Stored
<1> HIDE DEF n
<1>4. ASSUME NEW i \in 1 .. n + 1 PROVE Hashes(objectStore'[i]) \subseteq Stored \cup Hashes(x)
  <2>1. i \in 1 .. n \/ i = n + 1
    BY <1>1
  <2> QED BY <1>1, <1>2, <2>1
<1>5. ASSUME NEW i \in 1 .. n PROVE Hashes(objectStore[i]) \subseteq Stored'
  <2>1. i \in 1 .. n + 1 /\ objectStore'[i] = objectStore[i]
    BY <1>1
  <2> QED BY <1>3, <2>1
<1>6. Hashes(x) \subseteq Stored'
  <2>1. n + 1 \in 1 .. n + 1
    BY <1>1
  <2> QED BY <1>1, <1>3, <2>1
<1> QED BY <1>2, <1>3, <1>4, <1>5, <1>6

LEMMA KeptGrows == TypeOK /\ TypeOK' /\ [Next]_vars => Kept \subseteq Kept'
  BY DurableGrows, UndoneGrows DEF Kept

\* One thread's step: the other threads keep what they hold.
LEMMA OthersSafe ==
  ASSUME DurableInv, TypeOK, TypeOK', NEW t \in Thread, ThreadStep(t), NEW u \in Thread \ {t}
  PROVE  Safe(u)'
<1>1. Kept \subseteq Kept'
  BY KeptGrows DEF Next
<1>3. /\ pc'[u] = pc[u] /\ job'[u] = job[u] /\ event'[u] = event[u] /\ lines'[u] = lines[u]
  BY OwnLocals
<1>4. Safe(u)
  BY DEF DurableInv
<1>5. pc'[u] = "commit" => event'[u].hash \in Hashes(rows') \cup undone'
  BY <1>3, <1>4, TableGrows DEF Safe
<1> QED BY <1>1, <1>3, <1>4, <1>5 DEF Safe, Returning

LEMMA ThreadKeepsDurable ==
  ASSUME DurableInv, TypeOK, TypeOK', NEW t \in Thread, ThreadStep(t)
  PROVE  DurableInv'
<1> USE DEF disk, memory, locals, results, history
<1>D. Kept \subseteq Kept'
  BY KeptGrows DEF Next
<1>O. \A u \in Thread \ {t} : Safe(u)'
  BY OthersSafe
<1>T. /\ AckedIsDurable /\ ArchiveAfterCommit /\ Safe(t)
  BY DEF DurableInv
<1> DEFINE Same == UNCHANGED << acked, buffer, objectStore >>
<1>K. ASSUME Same PROVE AckedIsDurable' /\ ArchiveAfterCommit'
  BY <1>D, <1>T, <1>K DEF AckedIsDurable, ArchiveAfterCommit, Kept, Stored
<1>S. ASSUME Same, Safe(t)' PROVE DurableInv'
  BY <1>K, <1>O, <1>S DEF DurableInv
<1>L. ASSUME NEW from, Leave(t, from) PROVE Safe(t)'
  BY <1>L, SafeHereafter DEF Next
<1>1. CASE (\E e \in Event : CallAppend(t, e)) \/ CallOpsAudit(t) \/ CallCheckpoint(t)
  <2>1. Same /\ lines'[t] = lines[t]
        /\ pc'[t] \in {"hash", "flush", "readHead"} /\ (pc'[t] = "flush" => job'[t] = "opsAudit")
    BY <1>1 DEF CallAppend, CallOpsAudit, CallCheckpoint, Call, Step, TypeOK
  <2> QED BY <1>D, <1>T, <1>S, <2>1 DEF Safe, Returning
<1>2. CASE ComputeHash(t) \/ ReadPrev(t)
  <2>1. Same /\ lines'[t] = lines[t] /\ pc'[t] \in {"prev", "insert"}
    BY <1>2 DEF ComputeHash, ReadPrev, Step, TypeOK
  <2> QED BY <1>D, <1>T, <1>S, <2>1 DEF Safe, Returning
<1>3. CASE Insert(t)
  <2>1. /\ Same /\ lines'[t] = lines[t] /\ event'[t] = event[t] /\ pc'[t] = "commit"
        /\ rows' = Append(rows, event[t])
    BY <1>3 DEF Insert, Step, TypeOK
  <2>2. event[t].hash \in Hashes(rows') \cup undone'
    BY <2>1, HashesOfAppend DEF TypeOK
  <2> QED BY <1>D, <1>T, <1>S, <2>1, <2>2 DEF Safe, Returning
<1>4. CASE \/ InsertRaises(t) \/ CommitRaises(t) \/ BuildRaises(t) \/ WriteRaises(t) \/ OpenRaises(t)
          \/ FillCheckpoint(t) \/ FillRaises(t)
  <2>1. Same /\ \E from : Leave(t, from)
    BY <1>4 DEF InsertRaises, CommitRaises, BuildRaises, WriteRaises, OpenRaises, Raise, RollBack,
                FillCheckpoint, FillRaises
  <2> QED BY <1>S, <1>L, <2>1
<1>5. CASE Commit(t)
  <2>1. /\ Same /\ lines'[t] = lines[t] /\ event'[t] = event[t]
        /\ pc[t] = "commit" /\ pc'[t] = "buffer"
        /\ rows' = rows /\ committed' = Len(rows)
    BY <1>5 DEF Commit, Step, TypeOK
  <2>2. Durable' = rows
    BY <2>1 DEF Durable, TypeOK
  <2>3. event'[t].hash \in Kept'
    BY <1>D, <1>T, <2>1, <2>2 DEF Safe, Kept
  <2> QED BY <1>D, <1>T, <1>S, <2>1, <2>3 DEF Safe, Returning
<1>6. CASE BufferEvent(t)
  <2>1. /\ UNCHANGED << acked, objectStore >> /\ lines'[t] = lines[t] /\ event'[t] = event[t]
        /\ pc[t] = "buffer" /\ pc'[t] = "last"
        /\ buffer' = Append(buffer, event[t])
    BY <1>6 DEF BufferEvent, Step, TypeOK
  <2>2. event[t].hash \in Kept
    BY <1>T, <2>1 DEF Safe, Returning
  <2>3. Hashes(buffer') = Hashes(buffer) \cup {event[t].hash}
    BY <2>1, HashesOfAppend DEF TypeOK
  <2>4. AckedIsDurable' /\ ArchiveAfterCommit'
    BY <1>D, <1>T, <2>1, <2>2, <2>3 DEF AckedIsDurable, ArchiveAfterCommit, Kept, Stored
  <2>5. Safe(t)'
    BY <1>D, <1>T, <2>1, <2>2 DEF Safe, Returning
  <2> QED BY <1>O, <2>4, <2>5 DEF DurableInv
<1>7. CASE SetLastHash(t)
  <2>1. UNCHANGED << buffer, objectStore >> /\ pc[t] = "last"
    BY <1>7 DEF SetLastHash, Leave, Step
  <2>2. event[t].hash \in Kept
    BY <1>T, <2>1 DEF Safe, Returning
  <2>3. CASE Leave(t, "last") /\ acked' = acked \cup {event[t].hash}
    <3>1. AckedIsDurable' /\ ArchiveAfterCommit'
      BY <1>D, <1>T, <2>1, <2>2, <2>3 DEF AckedIsDurable, ArchiveAfterCommit, Kept, Stored
    <3> QED BY <1>O, <1>L, <2>3, <3>1 DEF DurableInv
  <2>4. CASE Step(t, "last", "flush") /\ UNCHANGED << locals, results >>
    <3>1. Same /\ lines'[t] = lines[t] /\ event'[t] = event[t] /\ pc'[t] = "flush"
      BY <2>1, <2>4 DEF Step, TypeOK
    <3> QED BY <1>D, <1>T, <1>S, <2>2, <3>1 DEF Safe, Returning
  <2> QED BY <1>7, <2>3, <2>4 DEF SetLastHash
<1>8. ASSUME NEW from \in {"flush", "clear"}, AfterFlush(t, from), objectStore' = objectStore,
             Hashes(buffer') \subseteq Hashes(buffer)
      PROVE  DurableInv'
  <2>1. CASE job[t] = "opsAudit"
    <3>1. acked' = acked /\ lines'[t] = lines[t] /\ pc'[t] = "readHead"
      BY <1>8, <2>1 DEF AfterFlush, Step, TypeOK
    <3>2. AckedIsDurable' /\ ArchiveAfterCommit'
      BY <1>8, <1>D, <1>T, <3>1 DEF AckedIsDurable, ArchiveAfterCommit, Kept, Stored
    <3>3. Safe(t)'
      BY <1>D, <1>T, <3>1 DEF Safe, Returning
    <3> QED BY <1>O, <3>2, <3>3 DEF DurableInv
  <2>2. CASE job[t] # "opsAudit"
    <3>1. Leave(t, from) /\ acked' = acked \cup {event[t].hash} /\ pc[t] = from
      BY <1>8, <2>2 DEF AfterFlush, Leave, Step
    <3>2. event[t].hash \in Kept
      BY <1>T, <2>2, <3>1 DEF Safe, Returning
    <3>3. AckedIsDurable' /\ ArchiveAfterCommit'
      BY <1>8, <1>D, <1>T, <3>1, <3>2 DEF AckedIsDurable, ArchiveAfterCommit, Kept, Stored
    <3> QED BY <1>O, <1>L, <3>1, <3>3 DEF DurableInv
  <2> QED BY <2>1, <2>2
<1>9. CASE FlushEmpty(t) \/ FlushClear(t)
  BY <1>8, <1>9, NoHashes DEF FlushEmpty, FlushClear
<1>13. CASE FlushDue(t)
  <2>1. /\ Same /\ lines'[t] = lines[t] /\ event'[t] = event[t] /\ job'[t] = job[t]
        /\ pc[t] = "flush" /\ pc'[t] = "build"
    BY <1>13 DEF FlushDue, Step, TypeOK
  <2> QED BY <1>D, <1>T, <1>S, <2>1 DEF Safe, Returning
<1>10. CASE FlushBuild(t)
  <2>1. /\ Same /\ lines'[t] = buffer /\ event'[t] = event[t] /\ job'[t] = job[t]
        /\ pc[t] = "build" /\ pc'[t] = "write"
    BY <1>10 DEF FlushBuild, Step, TypeOK
  <2> QED BY <1>D, <1>T, <1>S, <2>1 DEF Safe, Returning, ArchiveAfterCommit, Kept
<1>11. CASE FlushWrite(t)
  <2>1. /\ UNCHANGED << acked, buffer >>
        /\ lines'[t] = lines[t] /\ event'[t] = event[t] /\ job'[t] = job[t]
        /\ pc[t] = "write" /\ pc'[t] = "clear"
        /\ objectStore' = Append(objectStore, lines[t])
    BY <1>11 DEF FlushWrite, Step, TypeOK
  <2>2. Stored' = Stored \cup Hashes(lines[t])
    BY <2>1, StoredAfterWrite DEF TypeOK
  <2>3. AckedIsDurable' /\ ArchiveAfterCommit'
    BY <1>D, <1>T, <2>1, <2>2 DEF AckedIsDurable, ArchiveAfterCommit, Kept, Safe
  <2>4. Safe(t)'
    BY <1>D, <1>T, <2>1 DEF Safe, Returning
  <2> QED BY <1>O, <2>3, <2>4 DEF DurableInv
<1>12. CASE ReadHead(t) \/ OpenCheckpoint(t)
  <2>1. Same /\ lines'[t] = lines[t] /\ pc'[t] \in {"openCheckpoint", "fillCheckpoint"}
    BY <1>12 DEF ReadHead, OpenCheckpoint, Step, TypeOK
  <2> QED BY <1>D, <1>T, <1>S, <2>1 DEF Safe, Returning
<1> QED
  BY <1>1, <1>2, <1>3, <1>4, <1>5, <1>6, <1>7, <1>9, <1>10, <1>11, <1>12, <1>13 DEF ThreadStep

LEMMA NextDurable == DurableInv /\ TypeOK /\ TypeOK' /\ [Next]_vars => DurableInv'
<1> SUFFICES ASSUME DurableInv, TypeOK, TypeOK', [Next]_vars PROVE DurableInv'
  OBVIOUS
<1>1. ASSUME NEW t \in Thread, ThreadStep(t) PROVE DurableInv'
  BY <1>1, ThreadKeepsDurable
<1>2. CASE CrashRestart
  <2>1. /\ acked' = acked /\ objectStore' = objectStore /\ buffer' = << >>
        /\ \A t \in Thread : pc'[t] = "idle" /\ lines'[t] = << >>
    BY <1>2 DEF CrashRestart
  <2>2. Hashes(buffer') = {} /\ \A t \in Thread : Hashes(lines'[t]) = {}
    BY <2>1, NoHashes
  <2>3. Kept \subseteq Kept'
    BY KeptGrows
  <2> QED
    BY <2>1, <2>2, <2>3 DEF DurableInv, AckedIsDurable, ArchiveAfterCommit, Kept, Stored, Safe, Returning
<1>3. CASE UNCHANGED vars
  BY <1>3 DEF vars, disk, memory, locals, results, history, DurableInv, AckedIsDurable, ArchiveAfterCommit,
              Stored, Kept, Safe, Returning, Durable
<1> QED BY <1>1, <1>2, <1>3 DEF Next

LEMMA DurableHolds == Spec => []DurableInv
  BY InitDurable, NextDurable, TypeCorrect, PTL DEF Spec

\* An event append returned is committed, and stays so, over all interleavings
\* of any number of threads, failing statements and crashes, unless another
\* call's failure rolled its row back before its COMMIT (append, _persist_db).
THEOREM AcknowledgedIsDurable == Spec => []AckedIsDurable
<1>1. DurableInv => AckedIsDurable
  BY DEF DurableInv
<1> QED BY <1>1, DurableHolds, PTL

\* Nothing is archived, or waits to be, whose row is not committed, but for what
\* a rollback undid under its call (_persist_db before _buffer.append,
\* flush_object_store).
THEOREM ArchivedAfterCommit == Spec => []ArchiveAfterCommit
<1>1. DurableInv => ArchiveAfterCommit
  BY DEF DurableInv
<1> QED BY <1>1, DurableHolds, PTL

-----------------------------------------------------------------------------
(* Roots.  The head of the chain in memory is always the hash of a durable  *)
(* row, or of an undone one: append publishes it after its COMMIT, and      *)
(* __init__ reads it from the table.  So both reads of it see a row that no *)
(* crash takes away, and that precedes whatever is inserted later.          *)

DurableRoots == {GENESIS} \cup Kept

Rooted(t) ==
  /\ pc[t] \in {"prev", "insert"} =>
        \E h \in DurableRoots : event[t].hash = Hash(event[t].event, h)
  /\ pc[t] = "insert" => event[t].prev \in DurableRoots

RootInv ==
  /\ RowsAreRooted
  /\ lastHash \in DurableRoots
  /\ \A t \in Thread : Rooted(t)

\* A table that agrees on its first n rows has the same roots there.
LEMMA SameRoots ==
  ASSUME NEW n \in Nat, \A i \in 1 .. n : rows'[i] = rows[i], undone \subseteq undone',
         NEW i \in 1 .. n + 1
  PROVE  Roots(i) \subseteq Roots(i)'
<1>1. \A j \in 1 .. i - 1 : rows'[j] = rows[j]
  OBVIOUS
<1> QED BY <1>1 DEF Roots

LEMMA RootedAppend ==
  ASSUME TypeOK, RowsAreRooted, NEW r \in Row, rows' = Append(rows, r), undone' = undone,
         r.prev \in DurableRoots, \E h \in DurableRoots : r.hash = Hash(r.event, h)
  PROVE  RowsAreRooted'
<1> DEFINE n == Len(rows)
<1>1. /\ n \in Nat /\ Len(rows') = n + 1 /\ rows'[n + 1] = r
      /\ \A i \in 1 .. n : rows'[i] = rows[i]
  BY DEF TypeOK
<1>2. DurableRoots \subseteq Roots(n + 1)
  <2>1. Hashes(Durable) = {rows[i].hash : i \in 1 .. committed} /\ committed \in 0 .. n
    BY HashesOfPrefix DEF TypeOK, Durable
  <2>2. 1 .. committed \subseteq 1 .. (n + 1) - 1
    BY <1>1, <2>1
  <2> QED BY <2>1, <2>2 DEF DurableRoots, Kept, Roots
<1> HIDE DEF n
<1>3. \A i \in 1 .. n + 1 : Roots(i) \subseteq Roots(i)'
  BY <1>1, SameRoots
<1> SUFFICES ASSUME NEW i \in 1 .. n + 1
             PROVE  /\ rows'[i].prev \in Roots(i)'
                    /\ \E h \in Roots(i)' : rows'[i].hash = Hash(rows'[i].event, h)
  BY <1>1 DEF RowsAreRooted
<1>4. CASE i \in 1 .. n
  BY <1>1, <1>3, <1>4 DEF RowsAreRooted, n
<1>5. CASE i = n + 1
  BY <1>1, <1>2, <1>3, <1>5
<1> QED BY <1>1, <1>4, <1>5

\* What the open transaction held is rolled back; the rows that stay keep the
\* rows before them.
LEMMA RootedPrefix ==
  ASSUME TypeOK, RowsAreRooted, rows' = SubSeq(rows, 1, committed), undone \subseteq undone'
  PROVE  RowsAreRooted'
<1>0. committed \in Nat /\ committed <= Len(rows) /\ rows \in Seq(Row)
  BY DEF TypeOK
<1>1. Len(rows') = committed /\ \A i \in 1 .. committed : rows'[i] = rows[i]
  BY <1>0
<1>2. ASSUME NEW i \in 1 .. committed PROVE Roots(i) \subseteq Roots(i)'
  <2>1. i \in 1 .. committed + 1
    BY <1>0
  <2> QED BY <1>0, <1>1, <2>1, SameRoots
<1>3. \A i \in 1 .. committed : i \in 1 .. Len(rows)
  BY <1>0
<1> QED BY <1>1, <1>2, <1>3 DEF RowsAreRooted

LEMMA ThreadKeepsRoots ==
  ASSUME RootInv, DurableInv, TypeOK, TypeOK', NEW t \in Thread, ThreadStep(t)
  PROVE  RootInv'
<1> USE DEF disk, memory, locals, results, history
<1>D. DurableRoots \subseteq DurableRoots' /\ undone \subseteq undone'
  BY KeptGrows, UndoneGrows DEF Next, DurableRoots
<1>O. \A u \in Thread \ {t} : Rooted(u)'
  <2> TAKE u \in Thread \ {t}
  <2>1. pc'[u] = pc[u] /\ event'[u] = event[u]
    BY OwnLocals
  <2>2. Rooted(u)
    BY DEF RootInv
  <2> QED BY <1>D, <2>1, <2>2 DEF Rooted
<1>1. ASSUME RowsAreRooted', lastHash' \in DurableRoots, Rooted(t)' PROVE RootInv'
  BY <1>1, <1>D, <1>O DEF RootInv
<1>2. ASSUME UNCHANGED rows PROVE RowsAreRooted'
  BY <1>D, <1>2 DEF RootInv, RowsAreRooted, Roots
<1>3. ASSUME UNCHANGED << rows, lastHash >>, pc'[t] \notin {"prev", "insert"} PROVE RootInv'
  BY <1>1, <1>2, <1>3, <1>D DEF RootInv, Rooted
<1>a. ASSUME RollBack(t), pc'[t] = "idle" PROVE RootInv'
  <2>1. rows' = SubSeq(rows, 1, committed) /\ lastHash' = lastHash
    BY <1>a DEF RollBack, Durable
  <2>2. RowsAreRooted'
    BY <1>D, <2>1, RootedPrefix DEF RootInv
  <2> QED BY <1>1, <1>a, <1>D, <2>1, <2>2 DEF RootInv, Rooted
<1>4. CASE ComputeHash(t)
  <2>1. /\ UNCHANGED << rows, lastHash >> /\ pc'[t] = "prev"
        /\ event'[t].hash = Hash(event[t].event, lastHash) /\ event'[t].event = event[t].event
    BY <1>4 DEF ComputeHash, Step, TypeOK, Row
  <2>2. lastHash \in DurableRoots'
    BY <1>D DEF RootInv
  <2> QED BY <1>1, <1>2, <2>1, <2>2 DEF RootInv, Rooted
<1>5. CASE ReadPrev(t)
  <2>1. /\ UNCHANGED << rows, lastHash >> /\ pc[t] = "prev" /\ pc'[t] = "insert"
        /\ event'[t].prev = lastHash
        /\ event'[t].hash = event[t].hash /\ event'[t].event = event[t].event
    BY <1>5 DEF ReadPrev, Step, TypeOK, Row
  <2>2. \E h \in DurableRoots' : event[t].hash = Hash(event[t].event, h)
    BY <2>1, <1>D DEF RootInv, Rooted
  <2>3. lastHash \in DurableRoots'
    BY <1>D DEF RootInv
  <2> QED BY <1>1, <1>2, <2>1, <2>2, <2>3 DEF RootInv, Rooted
<1>6. CASE Insert(t)
  <2>1. /\ UNCHANGED << lastHash, event, undone >> /\ pc[t] = "insert" /\ pc'[t] = "commit"
        /\ rows' = Append(rows, event[t])
    BY <1>6 DEF Insert, Step, TypeOK
  <2>2. RowsAreRooted'
    BY <2>1, RootedAppend DEF RootInv, Rooted, TypeOK
  <2> QED BY <1>1, <1>D, <2>1, <2>2 DEF RootInv, Rooted
<1>7. CASE SetLastHash(t)
  <2>1. /\ UNCHANGED rows /\ lastHash' = event[t].hash
        /\ pc[t] = "last" /\ pc'[t] \in {"idle", "flush"}
    BY <1>7 DEF SetLastHash, Leave, Step, TypeOK
  <2>2. event[t].hash \in DurableRoots
    BY <2>1 DEF DurableInv, Safe, Returning, DurableRoots
  <2> QED BY <1>1, <1>2, <1>D, <2>1, <2>2 DEF Rooted
<1>8. CASE (\E e \in Event : CallAppend(t, e)) \/ CallOpsAudit(t) \/ CallCheckpoint(t)
  <2>1. UNCHANGED << rows, lastHash >> /\ pc'[t] \in {"hash", "flush", "readHead"}
    BY <1>8 DEF CallAppend, CallOpsAudit, CallCheckpoint, Call, Step, TypeOK
  <2> QED BY <1>3, <2>1
<1>9. CASE \/ InsertRaises(t) \/ CommitRaises(t) \/ BuildRaises(t) \/ WriteRaises(t) \/ OpenRaises(t)
          \/ FillCheckpoint(t) \/ FillRaises(t)
  <2>1. (UNCHANGED << rows, lastHash >> \/ RollBack(t)) /\ pc'[t] = "idle"
    BY <1>9 DEF InsertRaises, CommitRaises, BuildRaises, WriteRaises, OpenRaises, Raise,
                FillCheckpoint, FillRaises, Leave, Step, TypeOK
  <2> QED BY <1>3, <1>a, <2>1
<1>10. CASE FlushEmpty(t) \/ FlushClear(t)
  <2>1. UNCHANGED << rows, lastHash >> /\ pc'[t] \in {"idle", "readHead"}
    BY <1>10 DEF FlushEmpty, FlushClear, AfterFlush, Leave, Step, TypeOK
  <2> QED BY <1>3, <2>1
<1>11. CASE Commit(t) \/ BufferEvent(t) \/ FlushDue(t) \/ FlushBuild(t) \/ FlushWrite(t)
  <2>1. /\ UNCHANGED << rows, lastHash >>
        /\ pc'[t] \in {"buffer", "last", "build", "write", "clear"}
    BY <1>11 DEF Commit, BufferEvent, FlushDue, FlushBuild, FlushWrite, Step, TypeOK
  <2> QED BY <1>3, <2>1
<1>12. CASE ReadHead(t) \/ OpenCheckpoint(t)
  <2>1. UNCHANGED << rows, lastHash >> /\ pc'[t] \in {"openCheckpoint", "fillCheckpoint"}
    BY <1>12 DEF ReadHead, OpenCheckpoint, Step, TypeOK
  <2> QED BY <1>3, <2>1
<1> QED
  BY <1>4, <1>5, <1>6, <1>7, <1>8, <1>9, <1>10, <1>11, <1>12 DEF ThreadStep

LEMMA NextRoots == RootInv /\ DurableInv /\ TypeOK /\ TypeOK' /\ [Next]_vars => RootInv'
<1> SUFFICES ASSUME RootInv, DurableInv, TypeOK, TypeOK', [Next]_vars PROVE RootInv'
  OBVIOUS
<1>1. ASSUME NEW t \in Thread, ThreadStep(t) PROVE RootInv'
  BY <1>1, ThreadKeepsRoots
<1>2. CASE CrashRestart
  <2>1. /\ rows' = SubSeq(rows, 1, committed) /\ lastHash' = HeadHash(Durable)
        /\ undone' = undone
        /\ \A t \in Thread : pc'[t] = "idle"
    BY <1>2 DEF CrashRestart, Durable
  <2>2. HeadHash(Durable) \in DurableRoots
    <3>1. Durable \in Seq(Row)
      BY DurableType
    <3>2. Durable # << >> => Len(Durable) \in 1 .. Len(Durable)
      BY <3>1
    <3> QED BY <3>2 DEF HeadHash, Hashes, DurableRoots, Kept
  <2>3. DurableRoots \subseteq DurableRoots'
    BY KeptGrows DEF DurableRoots
  <2>4. RowsAreRooted'
    BY <2>1, RootedPrefix DEF RootInv
  <2> QED BY <2>1, <2>2, <2>3, <2>4 DEF RootInv, Rooted
<1>3. CASE UNCHANGED vars
  <2>1. UNCHANGED << rows, committed, lastHash, pc, event, undone >>
    BY <1>3 DEF vars, disk, memory, locals, results, history
  <2> QED
    BY <2>1 DEF RootInv, RowsAreRooted, Roots, DurableRoots, Kept, Durable, Rooted
<1> QED BY <1>1, <1>2, <1>3 DEF Next

\* Overlapping calls, failing statements and crashes fork the chain but make no
\* gap in it: what a row was hashed over, and what it names as its previous hash,
\* are rows before it, or a row a rollback undid (append, _persist_db, __init__).
THEOREM RowsAlwaysRooted == Spec => []RowsAreRooted
<1>1. Init => RootInv
  BY DEF Init, RootInv, RowsAreRooted, DurableRoots, Rooted
<1>2. RootInv => RowsAreRooted
  BY DEF RootInv
<1> QED BY <1>1, <1>2, NextRoots, DurableHolds, TypeCorrect, PTL DEF Spec

-----------------------------------------------------------------------------
(* Calls in turn.  As long as no two calls overlap and no COMMIT leaves its *)
(* row in the open transaction, at most one thread is busy, the head of the *)
(* chain in memory is the one of the table except between INSERT and the    *)
(* end of append, and the transaction holds at most the row of that thread. *)

Published == {"commit", "buffer", "last"}

\* What the busy thread knows.
At(t) ==
  /\ pc[t] = "prev" => event[t].hash = Hash(event[t].event, lastHash)
  /\ pc[t] = "insert" => event[t].prev = lastHash
                         /\ event[t].hash = Hash(event[t].event, event[t].prev)
  /\ pc[t] \in Published => event[t].hash = HeadHash(rows)
  /\ pc[t] = "commit" => committed + 1 = Len(rows) /\ lastHash = HeadHash(Durable)
  /\ pc[t] \in {"openCheckpoint", "fillCheckpoint"} => seen[t] = Contents(rows)
  /\ pc[t] = "fillCheckpoint" => checkpoint = Empty

\* The tables, with any busy thread or none.
Tables ==
  /\ ChainValid(rows)
  /\ HeadHash(rows) = Contents(rows)
  /\ HeadHash(Durable) = Contents(Durable)

TurnInv ==
  /\ Tables
  /\ \A t, u \in Thread : pc[t] # "idle" /\ pc[u] # "idle" => t = u
  /\ (\A t \in Thread : pc[t] \notin Published) => lastHash = HeadHash(rows)
  /\ (\A t \in Thread : pc[t] # "commit") => committed = Len(rows)
  /\ \A t \in Thread : At(t)

LEMMA InitTurn == Init => TurnInv
<1> SUFFICES ASSUME Init PROVE TurnInv
  OBVIOUS
<1>1. Durable = << >> /\ rows = << >> /\ Contents(<< >>) = << >> /\ HeadHash(<< >>) = << >>
  BY DEF Init, Durable, Contents, HeadHash, GENESIS
<1>2. Tables
  BY <1>1 DEF Init, Tables, ChainValid, GENESIS
<1> QED
  BY <1>1, <1>2 DEF Init, TurnInv, At, Published, GENESIS

\* A table and the part of it that is committed.
LEMMA DurableIsTable ==
  ASSUME NEW s \in Seq(Row)
  PROVE  SubSeq(s, 1, Len(s)) = s
  OBVIOUS

LEMMA PrefixOfAppend ==
  ASSUME NEW s \in Seq(Row), NEW r \in Row, NEW n \in 0 .. Len(s)
  PROVE  SubSeq(Append(s, r), 1, n) = SubSeq(s, 1, n)
  OBVIOUS

LEMMA PrefixOfPrefix ==
  ASSUME NEW s \in Seq(Row), NEW n \in 0 .. Len(s)
  PROVE  SubSeq(SubSeq(s, 1, n), 1, n) = SubSeq(s, 1, n)
  OBVIOUS

\* In turn, whoever takes a step is alone.
LEMMA OthersIdle ==
  ASSUME TypeOK, TurnInv, NEW t \in Thread, ThreadStep(t), ~ disturbed'
  PROVE  \A u \in Thread \ {t} : pc[u] = "idle" /\ pc'[u] = "idle"
<1> TAKE u \in Thread \ {t}
<1>1. CASE pc[t] # "idle"
  BY <1>1, OwnLocals DEF TurnInv
<1>2. CASE pc[t] = "idle"
  <2>1. \A v \in Thread : pc[v] = "idle"
    BY <1>2
    DEF ThreadStep, CallAppend, CallOpsAudit, CallCheckpoint, Call, ComputeHash, ReadPrev,
        Insert, InsertRaises, WriteRaises, Raise, Commit, CommitRaises, BufferEvent,
        SetLastHash, FlushEmpty, FlushDue, FlushBuild, BuildRaises, FlushWrite, FlushClear,
        ReadHead, OpenCheckpoint, OpenRaises, FillCheckpoint, FillRaises, AfterFlush, Leave, Step
  <2> QED BY <2>1, OwnLocals
<1> QED BY <1>1, <1>2

LEMMA ThreadKeepsTurn ==
  ASSUME TypeOK, TypeOK', TurnInv, NEW t \in Thread, ThreadStep(t), ~ disturbed'
  PROVE  TurnInv'
<1> USE DEF disk, memory, locals, results, history
<1>1. \A u \in Thread \ {t} : pc[u] = "idle" /\ pc'[u] = "idle"
  BY OthersIdle
<1>T. /\ Tables /\ At(t)
      /\ pc[t] \notin Published => lastHash = HeadHash(rows)
      /\ pc[t] # "commit" => committed = Len(rows)
  <2>1. \A u \in Thread \ {t} : pc[u] \notin Published /\ pc[u] # "commit"
    BY <1>1 DEF Published
  <2> QED BY <2>1 DEF TurnInv
<1> DEFINE Own == /\ At(t)
                  /\ pc[t] \notin Published => lastHash = HeadHash(rows)
                  /\ pc[t] # "commit" => committed = Len(rows)
<1>2. ASSUME Tables', Own' PROVE TurnInv'
  <2>1. \A u \in Thread \ {t} : At(u)'
    BY <1>1 DEF At, Published
  <2> QED BY <1>1, <1>2, <2>1 DEF TurnInv
<1>3. ASSUME UNCHANGED << rows, committed >> PROVE Tables'
  BY <1>3, <1>T DEF Tables, Durable
<1> DEFINE Aside == {"idle", "hash", "flush", "build", "write", "clear", "readHead"}
<1>4. ASSUME UNCHANGED << rows, committed, lastHash >>,
             pc[t] \notin Published, pc'[t] \in Aside
      PROVE  TurnInv'
  BY <1>2, <1>3, <1>4, <1>T DEF At, Published
<1>L. ASSUME NEW from, Leave(t, from) PROVE pc[t] = from /\ pc'[t] = "idle"
  BY <1>L DEF Leave, Step, TypeOK
<1>5. CASE (\E e \in Event : CallAppend(t, e)) \/ CallOpsAudit(t) \/ CallCheckpoint(t)
  <2>1. /\ UNCHANGED << rows, committed, lastHash >>
        /\ pc[t] = "idle" /\ pc'[t] \in Aside
    BY <1>5 DEF CallAppend, CallOpsAudit, CallCheckpoint, Call, Step, TypeOK
  <2> QED BY <1>4, <2>1 DEF Published
<1>6. CASE ComputeHash(t)
  <2>1. /\ UNCHANGED << rows, committed, lastHash >>
        /\ pc[t] = "hash" /\ pc'[t] = "prev"
        /\ event'[t].hash = Hash(event[t].event, lastHash) /\ event'[t].event = event[t].event
    BY <1>6 DEF ComputeHash, Step, TypeOK, Row
  <2> QED BY <1>2, <1>3, <1>T, <2>1 DEF At, Published
<1>7. CASE ReadPrev(t)
  <2>1. /\ UNCHANGED << rows, committed, lastHash >>
        /\ pc[t] = "prev" /\ pc'[t] = "insert"
        /\ event'[t].prev = lastHash
        /\ event'[t].hash = event[t].hash /\ event'[t].event = event[t].event
    BY <1>7 DEF ReadPrev, Step, TypeOK, Row
  <2> QED BY <1>2, <1>3, <1>T, <2>1 DEF At, Published
<1>8. CASE Insert(t)
  <2>1. /\ UNCHANGED << committed, lastHash >>
        /\ pc[t] = "insert" /\ pc'[t] = "commit"
        /\ rows' = Append(rows, event[t]) /\ event' = event
    BY <1>8 DEF Insert, Step, TypeOK
  <2>2. rows \in Seq(Row) /\ event[t] \in Row
    BY DEF TypeOK
  <2>3. /\ event[t].prev = HeadHash(rows) /\ event[t].hash = Hash(event[t].event, event[t].prev)
        /\ committed = Len(rows)
    BY <1>T, <2>1 DEF At, Published
  <2>4. ChainValid(rows')
    BY <1>T, <2>1, <2>2, <2>3, AppendedRowExtendsChain DEF Tables
  <2>5. HeadHash(rows') = event[t].hash
    BY <2>1, <2>2, HeadOfAppend
  <2>6. Contents(rows') = event[t].hash
    BY <1>T, <2>1, <2>2, <2>3, ContentsOfAppend DEF Tables, Hash
  <2>7. Durable' = Durable
    BY <2>1, <2>2, <2>3, PrefixOfAppend DEF Durable
  <2>8. Tables'
    BY <1>T, <2>1, <2>4, <2>5, <2>6, <2>7 DEF Tables
  <2>9. committed' + 1 = Len(rows') /\ lastHash' = HeadHash(Durable')
    <3>1. Durable = rows
      BY <2>2, <2>3, DurableIsTable DEF Durable
    <3>2. lastHash = HeadHash(rows)
      BY <1>T, <2>1 DEF Published
    <3> QED BY <2>1, <2>2, <2>3, <2>7, <3>1, <3>2
  <2> QED BY <1>2, <2>1, <2>5, <2>8, <2>9 DEF At, Published
<1>9. CASE InsertRaises(t) \/ BuildRaises(t) \/ WriteRaises(t) \/ OpenRaises(t)
  <2>1. /\ UNCHANGED << rows, committed, lastHash >> \/ (pc[t] = "insert" /\ RollBack(t))
        /\ pc[t] \in {"insert", "build", "write", "openCheckpoint"} /\ pc'[t] = "idle"
    BY <1>9, <1>L DEF InsertRaises, BuildRaises, WriteRaises, OpenRaises, Raise
  <2>2. CASE pc[t] = "insert" /\ RollBack(t)
    <3>1. committed = Len(rows)
      BY <1>T, <2>2
    <3>2. Durable = rows
      BY <3>1, DurableIsTable DEF Durable, TypeOK
    <3>3. UNCHANGED << rows, committed, lastHash >>
      BY <2>2, <3>2 DEF RollBack
    <3> QED BY <1>4, <2>1, <2>2, <3>3 DEF Published
  <2>3. CASE UNCHANGED << rows, committed, lastHash >>
    BY <1>4, <2>1, <2>3 DEF Published
  <2> QED BY <2>1, <2>2, <2>3
<1>10. CASE Commit(t)
  <2>1. /\ UNCHANGED << rows, lastHash >> /\ committed' = Len(rows)
        /\ pc[t] = "commit" /\ pc'[t] = "buffer" /\ event' = event
    BY <1>10 DEF Commit, Step, TypeOK
  <2>2. Durable' = rows
    BY <2>1, DurableIsTable DEF Durable, TypeOK
  <2>3. Tables'
    BY <1>T, <2>1, <2>2 DEF Tables, At, TypeOK, HashValue
  <2> QED BY <1>2, <1>T, <2>1, <2>3 DEF At, Published
\* A rollback leaves the durable rows, whose head is still the one in memory.
<1>11. CASE CommitRaises(t)
  <2>1. /\ RollBack(t) /\ pc[t] = "commit" /\ pc'[t] = "idle"
    BY <1>11, <1>L DEF CommitRaises
  <2>2. rows' = Durable /\ committed' = committed /\ lastHash' = lastHash /\ Len(Durable) = committed
    BY <2>1, DurableType DEF RollBack
  <2>3. Durable' = Durable
    BY <2>2, PrefixOfPrefix DEF Durable, TypeOK
  <2>4. ChainValid(Durable)
    BY <1>T, PrefixValid DEF Durable, TypeOK, Tables
  <2>5. Tables'
    BY <1>T, <2>2, <2>3, <2>4 DEF Tables
  <2>6. lastHash' = HeadHash(rows') /\ committed' = Len(rows')
    BY <1>T, <2>1, <2>2 DEF At
  <2> QED BY <1>2, <2>1, <2>5, <2>6 DEF At, Published
<1>12. CASE BufferEvent(t)
  <2>1. /\ UNCHANGED << rows, committed, lastHash >>
        /\ pc[t] = "buffer" /\ pc'[t] = "last" /\ event' = event
    BY <1>12 DEF BufferEvent, Step, TypeOK
  <2> QED BY <1>2, <1>3, <1>T, <2>1 DEF At, Published
<1>13. CASE SetLastHash(t)
  <2>1. /\ UNCHANGED << rows, committed >> /\ lastHash' = event[t].hash
        /\ pc[t] = "last" /\ pc'[t] \in {"idle", "flush"}
    BY <1>13, <1>L DEF SetLastHash, Step, TypeOK
  <2> QED BY <1>2, <1>3, <1>T, <2>1 DEF At, Published
<1>14. CASE FlushEmpty(t) \/ FlushClear(t)
  <2>1. /\ UNCHANGED << rows, committed, lastHash >>
        /\ pc[t] \in {"flush", "clear"} /\ pc'[t] \in {"idle", "readHead"}
    BY <1>14, <1>L DEF FlushEmpty, FlushClear, AfterFlush, Step, TypeOK
  <2> QED BY <1>4, <2>1 DEF Published
<1>15. CASE FlushDue(t) \/ FlushBuild(t) \/ FlushWrite(t)
  <2>1. /\ UNCHANGED << rows, committed, lastHash >>
        /\ pc[t] \in {"flush", "build", "write"} /\ pc'[t] \in {"build", "write", "clear"}
    BY <1>15 DEF FlushDue, FlushBuild, FlushWrite, Step, TypeOK
  <2> QED BY <1>4, <2>1 DEF Published
<1>16. CASE ReadHead(t)
  <2>1. /\ UNCHANGED << rows, committed, lastHash >>
        /\ pc[t] = "readHead" /\ pc'[t] = "openCheckpoint" /\ seen'[t] = HeadHash(rows)
    BY <1>16 DEF ReadHead, Step, TypeOK
  <2> QED BY <1>2, <1>3, <1>T, <2>1 DEF At, Published, Tables
<1>17. CASE OpenCheckpoint(t)
  <2>1. /\ UNCHANGED << rows, committed, lastHash, seen >> /\ checkpoint' = Empty
        /\ pc[t] = "openCheckpoint" /\ pc'[t] = "fillCheckpoint"
    BY <1>17 DEF OpenCheckpoint, Step, TypeOK
  <2> QED BY <1>2, <1>3, <1>T, <2>1 DEF At, Published
<1>18. CASE FillCheckpoint(t) \/ FillRaises(t)
  <2>1. /\ UNCHANGED << rows, committed, lastHash >>
        /\ pc[t] = "fillCheckpoint" /\ pc'[t] = "idle"
    BY <1>18, <1>L DEF FillCheckpoint, FillRaises
  <2> QED BY <1>2, <1>3, <1>T, <2>1 DEF At, Published
<1> QED
  BY <1>5, <1>6, <1>7, <1>8, <1>9, <1>10, <1>11, <1>12, <1>13, <1>14, <1>15, <1>16, <1>17, <1>18
  DEF ThreadStep

\* A crash leaves the committed rows, and nobody busy.
LEMMA CrashKeepsTurn ==
  ASSUME TypeOK, TypeOK', TurnInv, CrashRestart
  PROVE  TurnInv'
<1>1. /\ rows' = Durable /\ lastHash' = HeadHash(Durable)
      /\ committed' = committed
      /\ \A t \in Thread : pc'[t] = "idle"
  BY DEF CrashRestart, Durable
<1>2. Durable' = Durable /\ Len(Durable) = committed
  BY <1>1, PrefixOfPrefix DEF Durable, TypeOK
<1>3. ChainValid(Durable)
  BY PrefixValid DEF Durable, TypeOK, TurnInv, Tables
<1>4. Tables'
  BY <1>1, <1>2, <1>3 DEF TurnInv, Tables
<1> QED
  BY <1>1, <1>2, <1>4 DEF TurnInv, At, Published

\* That calls have overlapped, or a COMMIT left its row behind, is remembered.
LEMMA StaysDisturbed == [Next]_vars /\ disturbed => disturbed'
  BY DEF Next, ThreadStep, vars, disk, memory, locals, results, history, CallAppend, CallOpsAudit,
         CallCheckpoint, Call, ComputeHash, ReadPrev, Insert, InsertRaises, WriteRaises, Raise,
         RollBack, Commit, CommitRaises, BufferEvent, SetLastHash, FlushEmpty, FlushDue, FlushBuild,
         BuildRaises, FlushWrite, FlushClear, ReadHead, OpenCheckpoint, OpenRaises, FillCheckpoint,
         FillRaises, AfterFlush, CrashRestart

LEMMA NextTurn ==
  TypeOK /\ TypeOK' /\ (disturbed \/ TurnInv) /\ [Next]_vars => (disturbed \/ TurnInv)'
<1> SUFFICES ASSUME TypeOK, TypeOK', disturbed \/ TurnInv, [Next]_vars, ~ disturbed'
             PROVE  TurnInv'
  OBVIOUS
<1>1. TurnInv
  BY StaysDisturbed
<1>2. CASE UNCHANGED vars
  BY <1>1, <1>2 DEF vars, disk, memory, locals, results, history, TurnInv, Tables, At, Durable
<1> QED BY <1>1, <1>2, ThreadKeepsTurn, CrashKeepsTurn DEF Next

LEMMA TurnHolds == Spec => [](disturbed \/ TurnInv)
  BY InitTurn, NextTurn, TypeCorrect, PTL DEF Spec

\* The chain verify_chain walks is valid, through failing inserts, commits rolled
\* back, failing flushes and restarts, as long as no two calls overlap and no
\* COMMIT leaves its row in the open transaction.
THEOREM ChainVerifiesForTurns == Spec => []ChainVerifiesInTurn
<1>1. disturbed \/ TurnInv => ChainVerifiesInTurn
  BY DEF TurnInv, Tables, ChainVerifiesInTurn, ChainVerifies
<1> QED BY <1>1, TurnHolds, PTL

-----------------------------------------------------------------------------
(* The archive, for calls in turn.  Between the INSERT of a row and its     *)
(* BufferEvent the stream is one row behind the table.                      *)

\* The elements of s stand in r, among its first k rows, in the same order.
Ordered(s, r, k) ==
  /\ \A i \in 1 .. Len(s) : \E m \in 1 .. k : r[m] = s[i]
  /\ \A i, j \in 1 .. Len(s) : i < j =>
        \E m, n \in 1 .. k : m < n /\ r[m] = s[i] /\ r[n] = s[j]

\* The table may grow, or lose rows behind the first k.
LEMMA OrderedElsewhere ==
  ASSUME NEW s, NEW r, NEW q, NEW k \in Nat, NEW l \in Nat, k <= l,
         Ordered(s, r, k), \A m \in 1 .. k : q[m] = r[m]
  PROVE  Ordered(s, q, l)
<1>1. ASSUME NEW i \in 1 .. Len(s) PROVE \E m \in 1 .. l : q[m] = s[i]
  <2>1. PICK m \in 1 .. k : r[m] = s[i]
    BY DEF Ordered
  <2> QED BY <2>1
<1>2. ASSUME NEW i \in 1 .. Len(s), NEW j \in 1 .. Len(s), i < j
      PROVE  \E m, n \in 1 .. l : m < n /\ q[m] = s[i] /\ q[n] = s[j]
  <2>1. PICK m \in 1 .. k, n \in 1 .. k : m < n /\ r[m] = s[i] /\ r[n] = s[j]
    BY <1>2 DEF Ordered
  <2> QED BY <2>1
<1> QED BY <1>1, <1>2 DEF Ordered

\* The row behind them may be put at the end.
LEMMA OrderedAppend ==
  ASSUME NEW s \in Seq(Row), NEW r \in Seq(Row), NEW k \in Nat, k + 1 <= Len(r),
         Ordered(s, r, k)
  PROVE  Ordered(Append(s, r[k + 1]), r, k + 1)
<1> DEFINE x == Append(s, r[k + 1])
<1>1. /\ Len(x) = Len(s) + 1 /\ Len(s) \in Nat /\ x[Len(s) + 1] = r[k + 1]
      /\ \A i \in 1 .. Len(s) : x[i] = s[i]
  OBVIOUS
<1> HIDE DEF x
<1>2. ASSUME NEW i \in 1 .. Len(s) PROVE \E m \in 1 .. k : r[m] = x[i]
  <2>1. PICK m \in 1 .. k : r[m] = s[i]
    BY DEF Ordered
  <2> QED BY <1>1, <2>1
<1>3. ASSUME NEW i \in 1 .. Len(x) PROVE \E m \in 1 .. k + 1 : r[m] = x[i]
  <2>1. CASE i = Len(s) + 1
    BY <1>1, <2>1
  <2>2. CASE i # Len(s) + 1
    <3>1. i \in 1 .. Len(s)
      BY <1>1, <2>2
    <3> QED BY <1>2, <3>1
  <2> QED BY <2>1, <2>2
<1>4. ASSUME NEW i \in 1 .. Len(x), NEW j \in 1 .. Len(x), i < j
      PROVE  \E m, n \in 1 .. k + 1 : m < n /\ r[m] = x[i] /\ r[n] = x[j]
  <2>1. i \in 1 .. Len(s)
    BY <1>1, <1>4
  <2>2. CASE j = Len(s) + 1
    <3>1. PICK m \in 1 .. k : r[m] = x[i]
      BY <1>2, <2>1
    <3>2. m \in 1 .. k + 1 /\ k + 1 \in 1 .. k + 1 /\ m < k + 1
      OBVIOUS
    <3> QED BY <1>1, <2>2, <3>1, <3>2
  <2>3. CASE j # Len(s) + 1
    <3>1. j \in 1 .. Len(s)
      BY <1>1, <2>3
    <3>2. PICK m \in 1 .. k, n \in 1 .. k : m < n /\ r[m] = s[i] /\ r[n] = s[j]
      BY <1>4, <2>1, <3>1 DEF Ordered
    <3> QED BY <1>1, <2>1, <3>1, <3>2
  <2> QED BY <2>2, <2>3
<1> QED BY <1>3, <1>4 DEF Ordered, x

\* What stands at the end may go.
LEMMA OrderedPrefix ==
  ASSUME NEW s \in Seq(Row), NEW b \in Seq(Row), NEW r, NEW k, Ordered(s \o b, r, k)
  PROVE  Ordered(s, r, k)
<1>1. /\ Len(s) \in Nat /\ Len(b) \in Nat /\ Len(s \o b) = Len(s) + Len(b)
      /\ \A i \in 1 .. Len(s) : (s \o b)[i] = s[i] /\ i \in 1 .. Len(s \o b)
  OBVIOUS
<1> QED BY <1>1 DEF Ordered

\* A row put in the buffer is a row put at the end of the stream.
LEMMA AppendBehind ==
  ASSUME NEW s \in Seq(Row), NEW b \in Seq(Row), NEW r \in Row
  PROVE  s \o Append(b, r) = Append(s \o b, r)
  OBVIOUS

Archiving == {"commit", "buffer"}

Written == FlattenSeq(objectStore)

\* The stream, and how many rows have reached it, when t is the busy thread.
StreamOf(t) == IF pc[t] = "clear" THEN Written ELSE Written \o buffer

SettledOf(t) == IF pc[t] \in Archiving THEN Len(rows) - 1 ELSE Len(rows)

\* Where the durable rows are, when t is the busy thread.
Reached(t) ==
  Stored \cup Hashes(buffer) \cup lost
    \cup (IF pc[t] = "buffer" THEN {event[t].hash} ELSE {})

\* The strengthening of DualWrite and ArchiveInOrder, when t is the busy thread.
Archive(t) ==
  /\ Hashes(Durable) \subseteq Reached(t)
  /\ pc[t] = "write" => lines[t] = buffer
  /\ pc[t] = "clear" => Hashes(buffer) \subseteq Stored
  /\ pc[t] \in Archiving => Len(rows) > 0 /\ event[t] = rows[Len(rows)]
  /\ Ordered(StreamOf(t), rows, SettledOf(t))

\* ... and when none is.
ArchiveAtRest ==
  /\ Hashes(Durable) \subseteq Stored \cup Hashes(buffer) \cup lost
  /\ Ordered(Written \o buffer, rows, Len(rows))

Alone(t) == \A u \in Thread \ {t} : pc[u] = "idle"

ArchiveInv ==
  /\ \A t \in Thread : Alone(t) => Archive(t)
  /\ (\A t \in Thread : pc[t] = "idle") => ArchiveAtRest

LEMMA WrittenType == TypeOK => Written \in Seq(Row)
  BY FlattenType DEF TypeOK, Written

LEMMA InitArchive == Init => ArchiveInv
<1> SUFFICES ASSUME Init PROVE ArchiveInv
  OBVIOUS
<1>1. /\ Durable = << >> /\ Hashes(<< >>) = {} /\ Len(rows) = 0
      /\ \A t \in Thread : pc[t] = "idle"
  BY NoHashes DEF Init, Durable
<1>2. Written \o buffer = << >>
  BY FlattenNone DEF Init, Written
<1>3. Ordered(<< >>, rows, Len(rows))
  BY DEF Ordered
<1> QED
  BY <1>1, <1>2, <1>3 DEF ArchiveInv, Archive, ArchiveAtRest, Alone, Reached, StreamOf, SettledOf, Archiving

LEMMA ThreadKeepsArchive ==
  ASSUME TypeOK, TypeOK', TurnInv, ArchiveInv, NEW t \in Thread, ThreadStep(t), ~ disturbed'
  PROVE  ArchiveInv'
<1> USE DEF disk, memory, locals, results, history
<1>O. \A u \in Thread \ {t} : pc[u] = "idle" /\ pc'[u] = "idle"
  BY OthersIdle
<1>A. Archive(t) /\ At(t)
  BY <1>O DEF ArchiveInv, Alone, TurnInv
<1>R. ASSUME Archive(t)' PROVE ArchiveInv'
  <2>1. ASSUME pc'[t] = "idle" PROVE ArchiveAtRest'
    BY <1>R, <2>1 DEF Archive, ArchiveAtRest, Reached, StreamOf, SettledOf, Archiving
  <2>2. ASSUME NEW u \in Thread, Alone(u)' PROVE Archive(u)'
    <3>1. CASE u = t
      BY <1>R, <3>1
    <3>2. CASE u # t
      <4>1. pc'[t] = "idle" /\ pc'[u] = "idle"
        BY <1>O, <2>2, <3>2 DEF Alone
      <4> QED BY <2>1, <4>1 DEF Archive, ArchiveAtRest, Reached, StreamOf, SettledOf, Archiving
    <3> QED BY <3>1, <3>2
  <2> QED BY <2>1, <2>2 DEF ArchiveInv
<1>W. /\ Written \in Seq(Row) /\ buffer \in Seq(Row) /\ rows \in Seq(Row) /\ Len(rows) \in Nat
      /\ event[t] \in Row /\ lines[t] \in Seq(Row)
  BY WrittenType DEF TypeOK
<1> DEFINE Same == UNCHANGED << rows, committed, objectStore, buffer, lost >>
           Aside == {"idle", "hash", "prev", "insert", "last", "flush", "build", "readHead",
                     "openCheckpoint", "fillCheckpoint"}
\* Steps that touch neither the table nor the archive.
<1>K. ASSUME Same, pc[t] \in Aside, pc'[t] \in Aside PROVE ArchiveInv'
  <2>1. Archive(t)'
    BY <1>A, <1>K DEF Archive, Reached, StreamOf, SettledOf, Archiving, Durable, Stored, Written
  <2> QED BY <1>R, <2>1
<1>L. ASSUME NEW from, Leave(t, from) PROVE pc[t] = from /\ pc'[t] = "idle"
  BY <1>L DEF Leave, Step, TypeOK
<1>1. CASE (\E e \in Event : CallAppend(t, e)) \/ CallOpsAudit(t) \/ CallCheckpoint(t)
  <2>1. Same /\ pc[t] = "idle" /\ pc'[t] \in {"hash", "flush", "readHead"}
    BY <1>1 DEF CallAppend, CallOpsAudit, CallCheckpoint, Call, Step, TypeOK
  <2> QED BY <1>K, <2>1
<1>2. CASE ComputeHash(t) \/ ReadPrev(t) \/ FlushDue(t) \/ ReadHead(t) \/ OpenCheckpoint(t)
  <2>1. Same /\ pc[t] \in Aside /\ pc'[t] \in Aside
    BY <1>2 DEF ComputeHash, ReadPrev, FlushDue, ReadHead, OpenCheckpoint, Step, TypeOK
  <2> QED BY <1>K, <2>1
<1>3. CASE Insert(t)
  <2>1. /\ UNCHANGED << committed, objectStore, buffer, lost >> /\ event' = event
        /\ pc[t] = "insert" /\ pc'[t] = "commit"
        /\ rows' = Append(rows, event[t])
    BY <1>3 DEF Insert, Step, TypeOK
  <2>2. /\ Len(rows') = Len(rows) + 1 /\ rows'[Len(rows)+1] = event[t]
        /\ \A m \in 1 .. Len(rows) : rows'[m] = rows[m]
    BY <1>W, <2>1
  <2>3. Durable' = Durable
    BY <2>1, PrefixOfAppend DEF Durable, TypeOK
  <2>4. Ordered(Written \o buffer, rows', Len(rows))
    <3>1. Ordered(Written \o buffer, rows, Len(rows))
      BY <1>A, <2>1 DEF Archive, StreamOf, SettledOf, Archiving
    <3>2. Len(rows) \in Nat /\ Len(rows) <= Len(rows)
      BY <1>W
    <3>3. \A m \in 1 .. Len(rows) : rows'[m] = rows[m]
      BY <2>2
    <3> QED BY <3>1, <3>2, <3>3, OrderedElsewhere
  <2>5. StreamOf(t)' = Written \o buffer /\ SettledOf(t)' = Len(rows)
    BY <1>W, <2>1, <2>2 DEF StreamOf, SettledOf, Archiving, Written
  <2>6. Ordered(StreamOf(t), rows, SettledOf(t))'
    <3>1. Ordered(StreamOf(t)', rows', SettledOf(t)')
      BY <2>4, <2>5
    <3> QED BY <3>1
  <2>7. (Hashes(Durable) \subseteq Reached(t))'
    BY <1>A, <2>1, <2>3 DEF Archive, Reached, Archiving, Stored
  <2>8. Archive(t)'
    BY <1>W, <2>1, <2>2, <2>6, <2>7 DEF Archive
  <2> QED BY <1>R, <2>8
<1>4. CASE \/ InsertRaises(t) \/ BuildRaises(t) \/ OpenRaises(t) \/ FillCheckpoint(t) \/ FillRaises(t)
  <2>1. /\ Same \/ (pc[t] = "insert" /\ RollBack(t))
        /\ pc[t] \in {"insert", "build", "openCheckpoint", "fillCheckpoint"} /\ pc'[t] = "idle"
    BY <1>4, <1>L DEF InsertRaises, BuildRaises, OpenRaises, FillCheckpoint, FillRaises, Raise
  <2>2. CASE pc[t] = "insert" /\ RollBack(t)
    <3>1. committed = Len(rows)
      BY <1>O, <2>2 DEF TurnInv
    <3>2. Durable = rows
      BY <1>W, <3>1, DurableIsTable DEF Durable
    <3>3. Same
      BY <2>2, <3>2 DEF RollBack
    <3> QED BY <1>K, <2>1, <3>3
  <2> QED BY <1>K, <2>1, <2>2
<1>5. CASE Commit(t)
  <2>1. /\ UNCHANGED << rows, objectStore, buffer, lost >> /\ event' = event
        /\ pc[t] = "commit" /\ pc'[t] = "buffer" /\ committed' = Len(rows)
    BY <1>5 DEF Commit, Step, TypeOK
  <2>2. Durable' = rows /\ committed + 1 = Len(rows) /\ event[t] = rows[Len(rows)]
    BY <1>A, <1>W, <2>1 DEF Durable, At, Archive, Archiving
  <2>3. Hashes(rows) = Hashes(Durable) \cup {event[t].hash}
    <3>1. rows = Append(Durable, event[t]) /\ Durable \in Seq(Row)
      <4>1. \A s \in Seq(Row), n \in Nat : n + 1 = Len(s) =>
               SubSeq(s, 1, n) \in Seq(Row) /\ s = Append(SubSeq(s, 1, n), s[Len(s)])
        OBVIOUS
      <4>2. committed \in Nat
        BY <1>W DEF TypeOK
      <4> QED BY <1>W, <2>2, <4>1, <4>2 DEF Durable
    <3> QED BY <1>W, <3>1, HashesOfAppend
  <2>4. Hashes(Durable)' = Hashes(rows)
    BY <2>2 DEF Hashes
  <2>5. (Hashes(Durable) \subseteq Reached(t))'
    BY <1>A, <2>1, <2>3, <2>4 DEF Archive, Reached, Archiving, Stored
  <2>6. Archive(t)'
    BY <1>A, <2>1, <2>5 DEF Archive, StreamOf, SettledOf, Archiving, Written
  <2> QED BY <1>R, <2>6
<1>6. CASE CommitRaises(t)
  <2>1. /\ rows' = Durable /\ UNCHANGED << committed, objectStore, buffer, lost >>
        /\ pc[t] = "commit" /\ pc'[t] = "idle"
    BY <1>6, <1>L DEF CommitRaises, RollBack
  <2>2. /\ committed + 1 = Len(rows) /\ committed \in 0 .. Len(rows) /\ Len(Durable) = committed
        /\ \A m \in 1 .. committed : Durable[m] = rows[m]
    BY <1>A, <1>W, <2>1, DurableType DEF At, Durable, TypeOK
  <2>3. Durable' = Durable
    BY <1>W, <2>1, <2>2, PrefixOfPrefix DEF Durable
  <2>4. (Hashes(Durable) \subseteq Reached(t))'
    BY <1>A, <2>1, <2>3 DEF Archive, Reached, Stored
  <2>5. Ordered(Written \o buffer, Durable, committed)
    <3>1. Ordered(Written \o buffer, rows, committed)
      <4>1. SettledOf(t) = committed /\ StreamOf(t) = Written \o buffer
        BY <1>W, <2>1, <2>2 DEF SettledOf, StreamOf, Archiving
      <4> QED BY <1>A, <4>1 DEF Archive
    <3> QED BY <2>2, <3>1, OrderedElsewhere
  <2>6. StreamOf(t)' = Written \o buffer /\ SettledOf(t)' = committed
    BY <2>1, <2>2 DEF StreamOf, SettledOf, Archiving, Written
  <2>7. Ordered(StreamOf(t), rows, SettledOf(t))'
    <3>1. Ordered(StreamOf(t)', rows', SettledOf(t)')
      BY <2>1, <2>5, <2>6
    <3> QED BY <3>1
  <2>8. Archive(t)'
    BY <2>1, <2>4, <2>7 DEF Archive, Archiving
  <2> QED BY <1>R, <2>8
<1>7. CASE BufferEvent(t)
  <2>1. /\ UNCHANGED << rows, committed, objectStore, lost >> /\ event' = event
        /\ pc[t] = "buffer" /\ pc'[t] = "last" /\ buffer' = Append(buffer, event[t])
    BY <1>7 DEF BufferEvent, Step, TypeOK
  <2>2. Hashes(buffer') = Hashes(buffer) \cup {event[t].hash}
    BY <1>W, <2>1, HashesOfAppend
  <2>3. (Hashes(Durable) \subseteq Reached(t))'
    BY <1>A, <2>1, <2>2 DEF Archive, Reached, Archiving, Stored, Durable
  <2>4. Written \o buffer' = Append(Written \o buffer, event[t]) /\ Written \o buffer \in Seq(Row)
    BY <1>W, <2>1, AppendBehind
  <2>5. Ordered(Written \o buffer, rows, Len(rows) - 1) /\ Len(rows) > 0 /\ event[t] = rows[Len(rows)]
    BY <1>A, <2>1 DEF Archive, StreamOf, SettledOf, Archiving
  <2>6. Ordered(Append(Written \o buffer, event[t]), rows, Len(rows))
    <3>1. PICK k \in Nat : k = Len(rows) - 1
      BY <1>W, <2>5
    <3>2. k + 1 = Len(rows) /\ k + 1 <= Len(rows)
      BY <1>W, <3>1
    <3>3. Ordered(Append(Written \o buffer, rows[k + 1]), rows, k + 1)
      <4>1. Ordered(Written \o buffer, rows, k)
        BY <2>5, <3>1
      <4> QED BY <1>W, <2>4, <3>2, <4>1, OrderedAppend
    <3> QED BY <2>5, <3>2, <3>3
  <2>7. StreamOf(t)' = Written \o buffer' /\ SettledOf(t)' = Len(rows)
    BY <2>1 DEF StreamOf, SettledOf, Archiving, Written
  <2>8. Ordered(StreamOf(t), rows, SettledOf(t))'
    <3>1. Ordered(StreamOf(t)', rows', SettledOf(t)')
      BY <2>1, <2>4, <2>6, <2>7
    <3> QED BY <3>1
  <2>9. Archive(t)'
    BY <2>1, <2>3, <2>8 DEF Archive, Archiving
  <2> QED BY <1>R, <2>9
<1>8. CASE SetLastHash(t)
  <2>1. Same /\ pc[t] = "last" /\ pc'[t] \in {"idle", "flush"}
    BY <1>8, <1>L DEF SetLastHash, Step, TypeOK
  <2> QED BY <1>K, <2>1
<1>9. CASE FlushEmpty(t)
  <2>1. Same /\ pc[t] = "flush" /\ pc'[t] \in {"idle", "readHead"}
    BY <1>9, <1>L DEF FlushEmpty, AfterFlush, Step, TypeOK
  <2> QED BY <1>K, <2>1
<1>10. CASE FlushBuild(t)
  <2>1. Same /\ pc[t] = "build" /\ pc'[t] = "write" /\ lines'[t] = buffer
    BY <1>10 DEF FlushBuild, Step, TypeOK
  <2>2. Archive(t)'
    BY <1>A, <2>1 DEF Archive, Reached, StreamOf, SettledOf, Archiving, Durable, Stored, Written
  <2> QED BY <1>R, <2>2
<1>11. CASE FlushWrite(t)
  <2>1. /\ UNCHANGED << rows, committed, buffer, lost >>
        /\ pc[t] = "write" /\ pc'[t] = "clear"
        /\ objectStore' = Append(objectStore, lines[t])
    BY <1>11 DEF FlushWrite, Step, TypeOK
  <2>2. lines[t] = buffer
    BY <1>A, <2>1 DEF Archive
  <2>3. Stored' = Stored \cup Hashes(buffer)
    BY <1>W, <2>1, <2>2, StoredAfterWrite
  <2>4. Written' = Written \o buffer
    <3>1. objectStore \in Seq(Seq(Row))
      BY DEF TypeOK
    <3>2. FlattenSeq(Append(objectStore, buffer)) = FlattenSeq(objectStore) \o buffer
      BY <1>W, <3>1, FlattenAppend
    <3> QED BY <2>1, <2>2, <3>2 DEF Written
  <2>5. (Hashes(Durable) \subseteq Reached(t))'
    BY <1>A, <2>1, <2>3 DEF Archive, Reached, Archiving, Durable
  <2>6. StreamOf(t)' = StreamOf(t) /\ SettledOf(t)' = SettledOf(t)
    BY <2>1, <2>4 DEF StreamOf, SettledOf, Archiving
  <2>7. Ordered(StreamOf(t), rows, SettledOf(t))'
    <3>1. Ordered(StreamOf(t), rows, SettledOf(t))
      BY <1>A DEF Archive
    <3>2. Ordered(StreamOf(t)', rows', SettledOf(t)')
      BY <2>1, <2>6, <3>1
    <3> QED BY <3>2
  <2>8. Archive(t)'
    BY <2>1, <2>3, <2>5, <2>7 DEF Archive, Archiving
  <2> QED BY <1>R, <2>8
<1>12. CASE WriteRaises(t)
  <2>1. Same /\ pc[t] = "write" /\ pc'[t] = "idle"
    BY <1>12, <1>L DEF WriteRaises, Raise
  <2>2. Archive(t)'
    BY <1>A, <2>1 DEF Archive, Reached, StreamOf, SettledOf, Archiving, Durable, Stored, Written
  <2> QED BY <1>R, <2>2
<1>13. CASE FlushClear(t)
  <2>1. /\ UNCHANGED << rows, committed, objectStore, lost >> /\ buffer' = << >>
        /\ pc[t] = "clear" /\ pc'[t] \in {"idle", "readHead"}
    BY <1>13, <1>L DEF FlushClear, AfterFlush, Step, TypeOK
  <2>2. Hashes(buffer') = {} /\ Hashes(buffer) \subseteq Stored
    BY <1>A, <2>1, NoHashes DEF Archive
  <2>3. (Hashes(Durable) \subseteq Reached(t))'
    BY <1>A, <2>1, <2>2 DEF Archive, Reached, Archiving, Durable, Stored
  <2>4. Written \o << >> = Written
    BY <1>W
  <2>5. StreamOf(t)' = StreamOf(t) /\ SettledOf(t)' = SettledOf(t)
    BY <2>1, <2>4 DEF StreamOf, SettledOf, Archiving, Written
  <2>6. Ordered(StreamOf(t), rows, SettledOf(t))'
    BY <1>A, <2>1, <2>5 DEF Archive, Ordered
  <2>7. Archive(t)'
    BY <2>1, <2>3, <2>6 DEF Archive, Archiving
  <2> QED BY <1>R, <2>7
<1> QED
  BY <1>1, <1>2, <1>3, <1>4, <1>5, <1>6, <1>7, <1>8, <1>9, <1>10, <1>11, <1>12, <1>13
  DEF ThreadStep

\* Whichever thread was busy, a crash leaves an archive at rest.
LEMMA CrashKeepsArchive ==
  ASSUME TypeOK, TypeOK', TurnInv, ArchiveInv, CrashRestart
  PROVE  ArchiveInv'
<1>1. /\ rows' = Durable /\ committed' = committed /\ objectStore' = objectStore
      /\ buffer' = << >> /\ lost' = lost \cup (Hashes(Durable) \ Stored)
      /\ \A t \in Thread : pc'[t] = "idle"
  BY DEF CrashRestart, Durable, LostByCrash
<1>2. /\ Written \in Seq(Row) /\ buffer \in Seq(Row) /\ rows \in Seq(Row)
      /\ committed \in 0 .. Len(rows) /\ Len(Durable) = committed
      /\ \A m \in 1 .. committed : Durable[m] = rows[m]
  BY WrittenType DEF TypeOK, Durable
<1>3. ASSUME NEW k \in Nat, k <= committed, Ordered(Written, rows, k)
      PROVE  Ordered(Written, Durable, committed)
  <2>1. \A m \in 1 .. k : Durable[m] = rows[m]
    BY <1>2, <1>3
  <2> QED BY <1>2, <1>3, <2>1, OrderedElsewhere
<1>4. Ordered(Written, Durable, committed)
  <2>1. CASE \A t \in Thread : pc[t] = "idle"
    <3>1. Ordered(Written \o buffer, rows, Len(rows)) /\ committed = Len(rows)
      BY <2>1 DEF ArchiveInv, ArchiveAtRest, TurnInv
    <3> QED BY <1>2, <1>3, <3>1, OrderedPrefix
  <2>2. ASSUME NEW t \in Thread, pc[t] # "idle" PROVE Ordered(Written, Durable, committed)
    <3>1. Archive(t) /\ \A u \in Thread : pc[u] = "commit" => u = t
      BY <2>2 DEF ArchiveInv, Alone, TurnInv
    <3>2. Ordered(Written, rows, SettledOf(t))
      BY <1>2, <3>1, OrderedPrefix DEF Archive, StreamOf
    <3>3. SettledOf(t) \in Nat /\ SettledOf(t) <= committed
      BY <1>2, <3>1 DEF TurnInv, At, Archive, SettledOf, Archiving
    <3> QED BY <1>3, <3>2, <3>3
  <2> QED BY <2>1, <2>2
<1>5. Durable' = Durable /\ Stored' = Stored /\ Hashes(buffer') = {}
  BY <1>1, PrefixOfPrefix, NoHashes DEF Durable, Stored, TypeOK
<1>6. (Written \o buffer)' = Written
  <2>1. Written \o << >> = Written
    BY <1>2
  <2> QED BY <1>1, <2>1 DEF Written
<1>7. ArchiveAtRest'
  <2>1. Ordered(Written \o buffer, rows, Len(rows))'
    <3>1. Ordered((Written \o buffer)', rows', Len(rows'))
      BY <1>1, <1>2, <1>4, <1>6
    <3> QED BY <3>1
  <2>2. (Hashes(Durable) \subseteq Stored \cup Hashes(buffer) \cup lost)'
    BY <1>1, <1>5
  <2> QED BY <2>1, <2>2 DEF ArchiveAtRest
<1> QED
  BY <1>1, <1>7 DEF ArchiveInv, Archive, ArchiveAtRest, Reached, StreamOf, SettledOf, Archiving

LEMMA NextArchive ==
  TypeOK /\ TypeOK' /\ (disturbed \/ TurnInv) /\ (disturbed \/ ArchiveInv) /\ [Next]_vars
    => (disturbed \/ ArchiveInv)'
<1> SUFFICES ASSUME TypeOK, TypeOK', disturbed \/ TurnInv, disturbed \/ ArchiveInv, [Next]_vars,
                    ~ disturbed'
             PROVE  ArchiveInv'
  OBVIOUS
<1>1. TurnInv /\ ArchiveInv
  BY StaysDisturbed
<1>2. CASE UNCHANGED vars
  BY <1>1, <1>2
  DEF vars, disk, memory, locals, results, history, ArchiveInv, Archive, ArchiveAtRest, Alone, Reached,
      StreamOf, SettledOf, Stored, Written, Durable
<1> QED BY <1>1, <1>2, ThreadKeepsArchive, CrashKeepsArchive DEF Next

LEMMA ArchiveHolds == Spec => [](disturbed \/ ArchiveInv)
  BY InitArchive, NextArchive, TurnHolds, TypeCorrect, PTL DEF Spec

\* In turn, at most one thread is busy.
LEMMA OneBusy ==
  ASSUME TurnInv
  PROVE  (\A t \in Thread : pc[t] = "idle") \/ \E t \in Thread : Alone(t) /\ pc[t] # "idle"
  BY DEF TurnInv, Alone

\* No durable event is kept out of the object store but by the death of the
\* process, through failing inserts and failing flushes (append,
\* flush_object_store).
THEOREM DualWriteForTurns == Spec => []DualWrite
<1>1. ASSUME ~ disturbed, TurnInv, ArchiveInv PROVE DualWrite
  <2>1. CASE \A t \in Thread : pc[t] = "idle"
    BY <1>1, <2>1 DEF ArchiveInv, ArchiveAtRest, DualWrite
  <2>2. ASSUME NEW t \in Thread, Alone(t), pc[t] # "idle" PROVE DualWrite
    <3>1. Hashes(Durable) \subseteq Reached(t)
      BY <1>1, <2>2 DEF ArchiveInv, Archive
    <3> QED BY <2>2, <3>1 DEF Reached, Archiving, DualWrite
  <2> QED BY <1>1, <2>1, <2>2, OneBusy
<1>2. (disturbed \/ TurnInv) /\ (disturbed \/ ArchiveInv) => DualWrite
  BY <1>1 DEF DualWrite
<1> QED BY <1>2, TurnHolds, ArchiveHolds, PTL

\* The NDJSON stream repeats the order of the table and no event twice: a
\* write that failed is repeated whole, and a crash between write and clear
\* empties the buffer too (flush_object_store, __init__).
THEOREM ArchivedInOrder == Spec => []ArchiveInOrder
<1>1. ASSUME NEW s, NEW k \in Nat, k <= Len(rows), Ordered(s, rows, k)
      PROVE  \A i, j \in 1 .. Len(s) : i < j =>
               \E m, n \in 1 .. Len(rows) : m < n /\ rows[m] = s[i] /\ rows[n] = s[j]
  <2> TAKE i, j \in 1 .. Len(s)
  <2> HAVE i < j
  <2>1. PICK m \in 1 .. k, n \in 1 .. k : m < n /\ rows[m] = s[i] /\ rows[n] = s[j]
    BY <1>1 DEF Ordered
  <2>2. m \in 1 .. Len(rows) /\ n \in 1 .. Len(rows)
    BY <1>1
  <2> QED BY <2>1, <2>2
<1>2. ASSUME TypeOK, ~ disturbed, TurnInv, ArchiveInv PROVE ArchiveInOrder
  <2> DEFINE stream == IF \E t \in Thread : pc[t] = "clear" THEN Written ELSE Written \o buffer
  <2>1. Len(rows) \in Nat
    BY <1>2 DEF TypeOK
  <2>2. \E k \in Nat : k <= Len(rows) /\ Ordered(stream, rows, k)
    <3>1. CASE \A t \in Thread : pc[t] = "idle"
      BY <1>2, <2>1, <3>1 DEF ArchiveInv, ArchiveAtRest
    <3>2. ASSUME NEW t \in Thread, Alone(t), pc[t] # "idle"
          PROVE  \E k \in Nat : k <= Len(rows) /\ Ordered(stream, rows, k)
      <4>1. stream = StreamOf(t)
        BY <3>2 DEF Alone, StreamOf
      <4>2. SettledOf(t) \in Nat /\ SettledOf(t) <= Len(rows)
        BY <1>2, <2>1, <3>2 DEF ArchiveInv, Archive, SettledOf
      <4>3. Ordered(StreamOf(t), rows, SettledOf(t))
        BY <1>2, <3>2 DEF ArchiveInv, Archive
      <4> QED BY <4>1, <4>2, <4>3
    <3> QED BY <1>2, <3>1, <3>2, OneBusy
  <2> HIDE DEF stream
  <2>3. \A i, j \in 1 .. Len(stream) : i < j =>
          \E m, n \in 1 .. Len(rows) : m < n /\ rows[m] = stream[i] /\ rows[n] = stream[j]
    BY <1>1, <2>2
  <2> QED BY <2>3 DEF ArchiveInOrder, stream, Written
<1>3. TypeOK /\ (disturbed \/ TurnInv) /\ (disturbed \/ ArchiveInv) => ArchiveInOrder
  <2>1. disturbed => ArchiveInOrder
    BY DEF ArchiveInOrder
  <2> QED BY <1>2, <2>1
<1> QED BY <1>3, TypeCorrect, TurnHolds, ArchiveHolds, PTL

-----------------------------------------------------------------------------
(* Refinement.  In turn, a COMMIT appends one event to the durable log, and *)
(* a checkpoint commits to all of it, or is torn.                           *)

LEMMA ContentsOfPrefix ==
  ASSUME NEW s \in Seq(Row), NEW n \in Nat, Len(s) = n + 1
  PROVE  Contents(s) = Append(Contents(SubSeq(s, 1, n)), s[n + 1].event)
<1>1. s = Append(SubSeq(s, 1, n), s[n + 1]) /\ SubSeq(s, 1, n) \in Seq(Row) /\ s[n + 1] \in Row
  OBVIOUS
<1> QED BY <1>1, ContentsOfAppend

\* Until calls overlap or a COMMIT leaves its row in the open transaction, the
\* store implements AuditLog: every step makes one event durable, seals all of
\* them, breaks the seal, or changes neither.
THEOREM StoreImplementsLog == Spec => ImplementsAuditLog
<1> USE DEF disk, memory, locals, results, history
<1>1. Init => Log!Init
  <2>1. GENESIS \in HashValue
    BY DEF GENESIS, HashValue
  <2> QED BY <2>1, ConstantsAssumption DEF Init, Log!Init, Contents, Durable, GENESIS
<1>2. TypeOK /\ TypeOK' /\ (disturbed \/ TurnInv) /\ [Next]_vars
        => [disturbed' \/ Log!Next]_(Log!vars)
  <2> SUFFICES ASSUME TypeOK, TypeOK', disturbed \/ TurnInv, [Next]_vars, ~ disturbed'
               PROVE  [Log!Next]_(Log!vars)
    OBVIOUS
  <2>1. TurnInv
    BY StaysDisturbed
  <2>2. ASSUME Durable' = Durable, checkpoint' = checkpoint PROVE UNCHANGED Log!vars
    BY <2>2 DEF Log!vars, Contents
  <2>3. ASSUME NEW t \in Thread, Insert(t) PROVE UNCHANGED Log!vars
    <3>1. /\ rows' = Append(rows, event[t]) /\ UNCHANGED << committed, checkpoint >>
          /\ rows \in Seq(Row) /\ event[t] \in Row /\ committed \in 0 .. Len(rows)
      BY <2>3 DEF Insert, TypeOK
    <3> QED BY <2>2, <3>1, PrefixOfAppend DEF Durable
  <2>4. ASSUME NEW t \in Thread, Commit(t) PROVE Log!AppendEvent
    <3>1. /\ pc[t] = "commit" /\ UNCHANGED << rows, checkpoint >> /\ committed' = Len(rows)
          /\ rows \in Seq(Row) /\ committed \in Nat
      BY <2>4 DEF Commit, Step, TypeOK
    <3>2. committed + 1 = Len(rows)
      BY <2>1, <3>1 DEF TurnInv, At
    <3>3. Durable' = rows
      BY <3>1, DurableIsTable DEF Durable
    <3>4. Contents(rows) = Append(Contents(Durable), rows[committed + 1].event)
      BY <3>1, <3>2, ContentsOfPrefix DEF Durable
    <3>5. rows[committed + 1].event \in Event
      <4>1. rows[committed + 1] \in Row
        BY <3>1, <3>2
      <4> QED BY <4>1 DEF Row
    <3>6. Contents(Durable)' = Contents(rows)
      BY <3>3 DEF Contents
    <3> QED BY <3>1, <3>4, <3>5, <3>6 DEF Log!AppendEvent
  <2>5. ASSUME NEW t \in Thread, FillCheckpoint(t) PROVE Log!Seal
    <3>1. /\ pc[t] = "fillCheckpoint" /\ UNCHANGED << rows, committed >>
          /\ checkpoint' = Filled(t) /\ rows \in Seq(Row)
      BY <2>5 DEF FillCheckpoint, Leave, Step, TypeOK
    <3>2. \A u \in Thread : pc[u] # "commit"
      BY <2>1, <3>1 DEF TurnInv
    <3>3. Durable = rows
      BY <2>1, <3>1, <3>2, DurableIsTable DEF TurnInv, Durable
    <3>4. seen[t] = Contents(rows) /\ checkpoint = Empty
      BY <2>1, <3>1 DEF TurnInv, At
    <3>5. Contents(rows) \in HashValue /\ Len(Contents(rows)) = Len(rows) /\ Len(rows) \in Nat
      BY <3>1, ContentsType
    <3>6. SubSeq(Contents(rows), 1, Len(rows)) = Contents(rows)
      BY <3>5 DEF HashValue
    <3>7. checkpoint' = Contents(rows) /\ checkpoint' \notin {Empty, Garbled}
      BY <3>1, <3>4, <3>5, ConstantsAssumption DEF Filled
    <3>8. Durable' = rows
      BY <3>1, <3>3 DEF Durable
    <3>9. {checkpoint} \ {Empty, Garbled} = {}
      BY <3>4
    <3>10. ({checkpoint} \ {Empty, Garbled})' = {SubSeq(Contents(Durable), 1, Len(Contents(Durable)))}
      BY <3>3, <3>5, <3>6, <3>7
    <3>11. Contents(Durable)' = Contents(Durable)
      BY <3>3, <3>8 DEF Contents
    <3>12. Len(Contents(Durable)) \in 0 .. Len(Contents(Durable))
      BY <3>3, <3>5
    <3> QED BY <3>9, <3>10, <3>11, <3>12 DEF Log!Seal
  <2>6. ASSUME CrashRestart PROVE UNCHANGED Log!vars
    BY <2>2, <2>6, PrefixOfPrefix DEF CrashRestart, Durable, TypeOK
  <2>7. ASSUME UNCHANGED << rows, committed, checkpoint >> PROVE UNCHANGED Log!vars
    BY <2>2, <2>7 DEF Durable
  <2>8. ASSUME NEW t \in Thread, OpenCheckpoint(t) PROVE Log!Tear
    <3>1. Durable' = Durable /\ checkpoint' = Empty
      BY <2>8 DEF OpenCheckpoint, Durable
    <3>2. ({checkpoint} \ {Empty, Garbled})' = {}
      BY <3>1
    <3>3. Contents(Durable)' = Contents(Durable)
      BY <3>1 DEF Contents
    <3> QED BY <3>2, <3>3 DEF Log!Tear
  <2>9. ASSUME NEW t \in Thread, FillRaises(t) PROVE UNCHANGED Log!vars
    <3>1. /\ Durable' = Durable /\ checkpoint' \in {checkpoint, Garbled}
          /\ pc[t] = "fillCheckpoint"
      BY <2>9 DEF FillRaises, Durable, Leave, Step
    <3>2. checkpoint = Empty
      BY <2>1, <3>1 DEF TurnInv, At
    <3>3. ({checkpoint} \ {Empty, Garbled})' = {checkpoint} \ {Empty, Garbled}
      BY <3>1, <3>2
    <3>4. Contents(Durable)' = Contents(Durable)
      BY <3>1 DEF Contents
    <3> QED BY <3>3, <3>4 DEF Log!vars
  <2>10. ASSUME NEW t \in Thread, RollBack(t) PROVE UNCHANGED Log!vars
    BY <2>2, <2>10, PrefixOfPrefix DEF RollBack, Durable, TypeOK
  <2> QED
    BY <2>3, <2>4, <2>5, <2>6, <2>7, <2>8, <2>9, <2>10
    DEF Next, ThreadStep, vars, CallAppend, CallOpsAudit, CallCheckpoint, Call, ComputeHash,
        ReadPrev, InsertRaises, WriteRaises, Raise, CommitRaises, BufferEvent, SetLastHash,
        FlushEmpty, FlushDue, FlushBuild, BuildRaises, FlushWrite, FlushClear, ReadHead, OpenRaises,
        Log!Next
<1> QED
  BY <1>1, <1>2, TurnHolds, TypeCorrect, PTL DEF Spec, ImplementsAuditLog
=============================================================================
