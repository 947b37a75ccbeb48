-------------------------- MODULE SignalFeedProofs --------------------------
(***************************************************************************)
(* Proofs about the signal feed, for any number of subscriptions and any   *)
(* sizes of the channels and of the cache.                                 *)
(***************************************************************************)
EXTENDS SignalFeed, TLAPS

(* Sequences *)

LEMMA HeadTail ==
  ASSUME NEW S, NEW q \in Seq(S), q # << >>
  PROVE  /\ Head(q) = q[1] /\ Head(q) \in S /\ Len(q) \in Nat /\ 1 \in 1 .. Len(q)
         /\ Tail(q) \in Seq(S) /\ Len(Tail(q)) = Len(q) - 1
         /\ \A i \in 1 .. Len(Tail(q)) : Tail(q)[i] = q[i + 1] /\ i + 1 \in 1 .. Len(q)
  OBVIOUS

LEMMA Appended ==
  ASSUME NEW S, NEW q \in Seq(S), NEW x \in S
  PROVE  /\ Append(q, x) \in Seq(S) /\ Len(q) \in Nat /\ Len(Append(q, x)) = Len(q) + 1
         /\ Append(q, x)[Len(q) + 1] = x
         /\ \A i \in 1 .. Len(q) : Append(q, x)[i] = q[i] /\ q[i] \in S
  OBVIOUS

\* The prune keeps the newest rows.
LEMMA SavedIsLatest ==
  ASSUME NEW c \in Seq(Snapshot), NEW x \in Snapshot
  PROVE  Saved(c, x) \in Seq(Snapshot) /\ Saved(c, x) # << >> /\ Latest(Saved(c, x)) = x
<1> DEFINE all == Append(c, x)
<1>1. /\ all \in Seq(Snapshot) /\ Len(c) \in Nat /\ Len(all) = Len(c) + 1
      /\ all[Len(all)] = x /\ all # << >>
  BY Appended
<1>2. CacheSize \in Nat /\ CacheSize >= 1
  BY FeedAssumption
<1>3. Saved(c, x) = IF Len(all) <= CacheSize THEN all
                    ELSE SubSeq(all, Len(all) - CacheSize + 1, Len(all))
  BY DEF Saved
<1> HIDE DEF all
<1>4. CASE Len(all) <= CacheSize
  BY <1>1, <1>3, <1>4 DEF Latest, Last
<1>5. CASE ~ Len(all) <= CacheSize
  <2> DEFINE m == Len(all) - CacheSize + 1
             kept == SubSeq(all, m, Len(all))
  <2>1. m \in 1 .. Len(all) /\ m <= Len(all)
    BY <1>1, <1>2, <1>5
  <2>2. kept \in Seq(Snapshot) /\ Len(kept) = Len(all) - m + 1
    BY <1>1, <2>1
  <2>3. Len(kept) = CacheSize /\ kept # << >>
    BY <1>1, <1>2, <2>2
  <2>4. kept[CacheSize] = all[m + CacheSize - 1]
    BY <1>1, <1>2, <2>1, <2>2, <2>3
  <2>5. m + CacheSize - 1 = Len(all)
    BY <1>1, <1>2
  <2>6. Saved(c, x) = kept
    BY <1>3, <1>5
  <2> HIDE DEF kept, m
  <2> QED BY <1>1, <2>2, <2>3, <2>4, <2>5, <2>6 DEF Latest, Last
<1> QED BY <1>4, <1>5

LEMMA LatestAppended ==
  ASSUME NEW c \in Seq(Snapshot), NEW x \in Snapshot
  PROVE  Latest(Append(c, x)) = x
  BY Appended DEF Latest, Last

LEMMA LatestTypes == ASSUME NEW c \in Seq(Snapshot) PROVE Latest(c) \in Snapshot
<1>1. Nothing \in Snapshot
  BY DEF Nothing, Snapshot
<1>2. CASE c = << >>
  BY <1>1, <1>2 DEF Latest
<1>3. CASE c # << >>
  <2>1. Len(c) \in 1 .. Len(c)
    BY <1>3
  <2> QED BY <1>3, <2>1 DEF Latest, Last
<1> QED BY <1>2, <1>3

LEMMA SmallMin == \A n \in 0 .. 2 : Min({n + 1, 2}) = IF n = 2 THEN 2 ELSE n + 1
<1> SUFFICES ASSUME NEW n \in 0 .. 2 PROVE Min({n + 1, 2}) = IF n = 2 THEN 2 ELSE n + 1
  OBVIOUS
<1> DEFINE least == IF n = 2 THEN 2 ELSE n + 1
<1>1. least \in {n + 1, 2} /\ \A y \in {n + 1, 2} : least <= y
  OBVIOUS
<1>2. \A x \in {n + 1, 2} : (\A y \in {n + 1, 2} : x <= y) => x = least
  OBVIOUS
<1> HIDE DEF least
<1>3. Min({n + 1, 2}) = CHOOSE x \in {n + 1, 2} : \A y \in {n + 1, 2} : x <= y
  BY DEF Min
<1>4. Min({n + 1, 2}) = least
  BY <1>1, <1>2, <1>3
<1> QED BY <1>4 DEF least
-----------------------------------------------------------------------------
(* Types *)

LEMMA SnapshotTypes ==
  TypeOK => Nothing \in Snapshot /\ Taken \in Snapshot /\ Later \in Nat /\ clock <= Later
<1> SUFFICES ASSUME TypeOK
             PROVE  Nothing \in Snapshot /\ Taken \in Snapshot /\ Later \in Nat /\ clock <= Later
  OBVIOUS
<1>1. Later \in Nat /\ clock <= Later
  BY DEF TypeOK, Later
<1>2. Taken \in Snapshot
  BY <1>1 DEF TypeOK, Taken, Snapshot
<1>3. Nothing \in Snapshot
  BY DEF Nothing, Snapshot
<1> QED BY <1>1, <1>2, <1>3

LEMMA InitTypes == Init => TypeOK
<1> SUFFICES ASSUME Init PROVE TypeOK
  OBVIOUS
<1>1. Nothing \in Snapshot
  BY DEF Nothing, Snapshot
<1>2. channel \in [Slot -> Seq(Snapshot)] /\ \A s \in Slot : Len(channel[s]) <= ChannelSize
  BY FeedAssumption DEF Init
<1>3. events \in Seq(Snapshot) /\ Len(events) <= EventSize /\ cache \in Seq(Snapshot)
  BY FeedAssumption DEF Init
<1>4. open \in [Slot -> BOOLEAN] /\ connected \in BOOLEAN /\ refresh \in BOOLEAN /\ degraded \in BOOLEAN
  BY DEF Init
<1> QED BY <1>1, <1>2, <1>3, <1>4 DEF Init, TypeOK, K!Level

\* What the gateway's side keeps of its types.
GatewayTypeOK ==
  /\ task \in [Slot -> {"none", "build", "predict", "audit", "send", "sleep", "fail", "hung", "done"}]
  /\ draft \in [Slot -> Snapshot]
  /\ channel \in [Slot -> Seq(Snapshot)]
  /\ \A s \in Slot : Len(channel[s]) <= ChannelSize
  /\ open \in [Slot -> BOOLEAN]
  /\ orphaned \in [Slot -> 0 .. 2]

LEMMA CloseTypes ==
  ASSUME GatewayTypeOK, NEW s \in Slot, Close(s)
  PROVE  GatewayTypeOK'
<1>1. << >> \in Seq(Snapshot) /\ Len(<< >>) = 0 /\ FALSE \in BOOLEAN
  OBVIOUS
<1>2. channel' \in [Slot -> Seq(Snapshot)]
  BY <1>1 DEF GatewayTypeOK, Close
<1>3. \A u \in Slot : Len(channel'[u]) <= ChannelSize
  BY <1>1, FeedAssumption DEF GatewayTypeOK, Close
<1>4. open' \in [Slot -> BOOLEAN]
  BY <1>1 DEF GatewayTypeOK, Close
<1> QED BY <1>2, <1>3, <1>4 DEF GatewayTypeOK, Close

LEMMA SpawnTypes ==
  ASSUME GatewayTypeOK, NEW s \in Slot, Spawn(s)
  PROVE  GatewayTypeOK'
<1>1. open' \in [Slot -> BOOLEAN]
  BY DEF GatewayTypeOK, Spawn
<1> QED BY <1>1 DEF GatewayTypeOK, Spawn

\* A stream that delivers one element.
LEMMA TailTypes ==
  ASSUME TypeOK, NEW s \in Slot, channel[s] # << >>, channel' = [channel EXCEPT ![s] = Tail(@)]
  PROVE  /\ Head(channel[s]) \in Snapshot
         /\ channel' \in [Slot -> Seq(Snapshot)] /\ \A u \in Slot : Len(channel'[u]) <= ChannelSize
<1>1. channel[s] \in Seq(Snapshot)
  BY DEF TypeOK
<1>2. /\ Head(channel[s]) \in Snapshot /\ Tail(channel[s]) \in Seq(Snapshot)
      /\ Len(Tail(channel[s])) = Len(channel[s]) - 1 /\ Len(channel[s]) \in Nat
  BY <1>1, HeadTail
<1>3. channel' = [channel EXCEPT ![s] = Tail(channel[s])]
  OBVIOUS
<1> QED BY <1>2, <1>3, FeedAssumption DEF TypeOK

LEMMA FinishTypes ==
  ASSUME TypeOK, NEW s \in Slot, Finish(s)
  PROVE  /\ task' \in [Slot -> {"none", "build", "predict", "audit", "send", "sleep", "fail", "hung", "done"}]
         /\ draft' \in [Slot -> Snapshot]
         /\ orphaned' \in [Slot -> 0 .. 2]
  BY SnapshotTypes DEF TypeOK, Finish

LEMMA EmitTypes ==
  ASSUME TypeOK, NEW event \in Snapshot, Emit(event)
  PROVE  events' \in Seq(Snapshot) /\ Len(events') <= EventSize
<1>1. events \in Seq(Snapshot)
  BY DEF TypeOK
<1>2. /\ Append(events, event) \in Seq(Snapshot)
      /\ Len(Append(events, event)) = Len(events) + 1 /\ Len(events) \in Nat
  BY <1>1, Appended
<1> QED BY <1>2, FeedAssumption DEF Emit

\* The client has a stream exactly while it reads from one.
StreamHeld == stream # NoSlot <=> pc = "stream"

TypeInv == TypeOK /\ StreamHeld

LEMMA NextHeld == StreamHeld /\ [Next]_vars => StreamHeld'
<1> SUFFICES ASSUME StreamHeld, [Next]_vars PROVE StreamHeld'
  OBVIOUS
<1> USE DEF StreamHeld, Move, clientVars
<1>1. CASE UNCHANGED << pc, stream >>
  BY <1>1
<1>2. ASSUME NEW s \in Slot, Subscribe(s) PROVE StreamHeld'
  BY <1>2, FeedAssumption DEF Subscribe
<1>3. CASE ClientStep
  BY <1>2, <1>3 DEF ClientStep, Connect, ConnectFails, SubscribeFails, Receive, DecodeFails,
                    StreamEnds, PollStatus, PollPredict, PollFails, EndWait
<1>4. CASE Restart
  BY <1>4 DEF Restart
<1>5. CASE (\E a \in Switches : SwitchLevel(a)) \/ PressRefresh \/ AppStep
           \/ (\E s \in Slot : TaskStep(s) \/ TaskHangs(s) \/ SendToNobody(s) \/ Notice(s))
  BY <1>1, <1>5
  DEF SwitchLevel, PressRefresh, AppStep, ApplySnapshot, ApplyUnsaved, ApplyDegraded, TakeEvent,
      TaskStep, ReadStatus, Predict, Audit, BuildFails, Send, SendError, Wake,
      TaskHangs, SendToNobody, Notice
<1> QED BY <1>1, <1>3, <1>4, <1>5 DEF Next, vars

LEMMA NextTypes == TypeInv /\ [Next]_vars => TypeOK'
<1> SUFFICES ASSUME TypeOK, StreamHeld, [Next]_vars PROVE TypeOK'
  BY DEF TypeInv
<1> USE DEF backendVars, gatewayVars, clientVars, appVars, Goto, Move, Failure
<1>s. Nothing \in Snapshot /\ Taken \in Snapshot /\ Later \in Nat
  BY SnapshotTypes
<1>0. CASE UNCHANGED vars
  BY <1>0 DEF vars, TypeOK
<1>1. ASSUME NEW a \in Switches, SwitchLevel(a) PROVE TypeOK'
  <2>1. level' \in K!Level /\ switches' \in Nat
    BY <1>1 DEF TypeOK, SwitchLevel, K!LevelAfter, K!Level
  <2> QED BY <1>1, <2>1 DEF TypeOK, SwitchLevel
<1>2. ASSUME NEW s \in Slot, TaskStep(s) PROVE TypeOK'
  <2>1. CASE ReadStatus(s)
    BY <1>s, <2>1 DEF TypeOK, ReadStatus
  <2>2. CASE Predict(s)
    BY <2>2 DEF TypeOK, Predict
  <2>3. CASE Audit(s)
    <3>1. orphaned' \in [Slot -> 0 .. 2]
      <4>1. Min({orphaned[s] + 1, 2}) \in 0 .. 2 /\ orphaned[s] \in 0 .. 2
        <5>1. orphaned[s] \in 0 .. 2
          BY DEF TypeOK
        <5> QED BY <5>1, SmallMin
      <4> QED BY <2>3, <4>1 DEF TypeOK, Audit
    <3> QED BY <2>3, <3>1 DEF TypeOK, Audit
  <2>4. CASE BuildFails(s)
    <3>1. failures' \in Nat
      BY <2>4 DEF TypeOK, BuildFails
    <3> QED BY <1>s, <2>4, <3>1 DEF TypeOK, BuildFails
  <2>5. CASE Send(s)
    <3>1. CASE Finish(s) /\ UNCHANGED channel
      BY <2>5, <3>1, FinishTypes DEF TypeOK, Send
    <3>2. CASE /\ Len(channel[s]) < ChannelSize
               /\ Goto(s, "send", "sleep")
               /\ channel' = [channel EXCEPT ![s] = Append(@, draft[s])]
               /\ draft' = [draft EXCEPT ![s] = Nothing]
               /\ UNCHANGED orphaned
      <4>1. channel[s] \in Seq(Snapshot) /\ draft[s] \in Snapshot
        BY DEF TypeOK
      <4>2. /\ Append(channel[s], draft[s]) \in Seq(Snapshot) /\ Len(channel[s]) \in Nat
            /\ Len(Append(channel[s], draft[s])) = Len(channel[s]) + 1
        BY <4>1, Appended
      <4>3. channel' \in [Slot -> Seq(Snapshot)] /\ \A u \in Slot : Len(channel'[u]) <= ChannelSize
        BY <3>2, <4>2, FeedAssumption DEF TypeOK
      <4>4. task' \in [Slot -> {"none", "build", "predict", "audit", "send", "sleep", "fail", "hung", "done"}]
            /\ draft' \in [Slot -> Snapshot]
        BY <1>s, <3>2 DEF TypeOK
      <4> QED BY <2>5, <3>2, <4>3, <4>4 DEF TypeOK, Send
    <3> QED BY <2>5, <3>1, <3>2 DEF Send
  <2>6. CASE Wake(s)
    BY <2>6 DEF TypeOK, Wake
  <2>7. CASE SendError(s)
    BY <2>7, FinishTypes DEF TypeOK, SendError
  <2> QED BY <1>2, <2>1, <2>2, <2>3, <2>4, <2>5, <2>6, <2>7 DEF TaskStep
<1>3. CASE Connect
  BY <1>3 DEF TypeOK, Connect
<1>4. CASE ConnectFails
  BY <1>s, <1>4, EmitTypes DEF TypeOK, ConnectFails
<1>5. ASSUME NEW s \in Slot, Subscribe(s) PROVE TypeOK'
  <2>1. GatewayTypeOK'
    BY <1>5, SpawnTypes DEF TypeOK, GatewayTypeOK, Subscribe
  <2> QED BY <1>5, <2>1 DEF TypeOK, GatewayTypeOK, Subscribe
<1>6. CASE SubscribeFails
  <2>1. GatewayTypeOK'
    BY <1>6, SpawnTypes DEF TypeOK, GatewayTypeOK, SubscribeFails
  <2>2. failures' \in Nat /\ Emit(Nothing)
    BY <1>6 DEF TypeOK, SubscribeFails
  <2> QED BY <1>s, <1>6, <2>1, <2>2, EmitTypes DEF TypeOK, GatewayTypeOK, SubscribeFails
<1>7. CASE Receive \/ DecodeFails
  <2>1. stream \in Slot /\ channel[stream] # << >> /\ channel' = [channel EXCEPT ![stream] = Tail(@)]
    BY <1>7 DEF TypeOK, StreamHeld, Receive, DecodeFails
  <2>2. /\ Head(channel[stream]) \in Snapshot
        /\ channel' \in [Slot -> Seq(Snapshot)] /\ \A u \in Slot : Len(channel'[u]) <= ChannelSize
    BY <2>1, TailTypes
  <2>3. events' \in Seq(Snapshot) /\ Len(events') <= EventSize
    BY <1>s, <1>7, <2>2, EmitTypes DEF Receive, DecodeFails
  <2>4. failures' \in Nat
    BY <1>7 DEF TypeOK, Receive, DecodeFails
  <2> QED BY <1>7, <2>2, <2>3, <2>4 DEF TypeOK, Receive, DecodeFails
<1>8. CASE StreamEnds
  <2>1. stream \in Slot /\ Emit(Nothing) /\ StreamOver
    BY <1>8 DEF TypeOK, StreamHeld, StreamEnds
  <2>2. GatewayTypeOK'
    <3>1. GatewayTypeOK
      BY DEF TypeOK, GatewayTypeOK
    <3>2. CASE Close(stream)
      BY <2>1, <3>1, <3>2, CloseTypes
    <3>3. CASE UNCHANGED gatewayVars
      BY <3>1, <3>3 DEF GatewayTypeOK
    <3> QED BY <2>1, <3>2, <3>3 DEF StreamOver
  <2>3. failures' \in Nat
    BY <2>1 DEF TypeOK, StreamOver
  <2> QED BY <1>s, <1>8, <2>1, <2>2, <2>3, EmitTypes DEF TypeOK, GatewayTypeOK, StreamEnds
<1>9. CASE PollStatus
  BY <1>s, <1>9 DEF TypeOK, PollStatus
<1>10. CASE PollPredict
  <2>1. events' \in Seq(Snapshot) /\ Len(events') <= EventSize
    BY <1>10, EmitTypes DEF TypeOK, PollPredict
  <2> QED BY <1>s, <1>10, <2>1 DEF TypeOK, PollPredict
<1>11. CASE PollFails
  <2>1. failures' \in Nat
    BY <1>11 DEF TypeOK, PollFails
  <2> QED BY <1>s, <1>11, <2>1, EmitTypes DEF TypeOK, PollFails
<1>12. CASE EndWait
  BY <1>12 DEF TypeOK, EndWait
<1>13. CASE PressRefresh
  BY <1>13 DEF TypeOK, PressRefresh
<1>14. CASE AppStep
  <2>1. events \in Seq(Snapshot) /\ events # << >> /\ events' = Tail(events)
    BY <1>14 DEF TypeOK, AppStep, ApplySnapshot, ApplyUnsaved, ApplyDegraded, TakeEvent
  <2>2. /\ Head(events) \in Snapshot /\ Tail(events) \in Seq(Snapshot)
        /\ Len(Tail(events)) = Len(events) - 1 /\ Len(events) \in Nat
    BY <2>1, HeadTail
  <2>3. events' \in Seq(Snapshot) /\ Len(events') <= EventSize
    BY <2>1, <2>2, FeedAssumption DEF TypeOK
  <2>4. cache \in Seq(Snapshot) /\ Append(cache, Head(events)) \in Seq(Snapshot)
    BY <2>2 DEF TypeOK
  <2>5. CASE ApplySnapshot
    BY <2>2, <2>3, <2>4, <2>5, SavedIsLatest DEF TypeOK, ApplySnapshot, TakeEvent
  <2>6. CASE ApplyUnsaved
    <3>1. cache' \in Seq(Snapshot)
      BY <2>4, <2>6 DEF ApplyUnsaved
    <3>2. shown' \in Snapshot
      BY <1>s, <2>6, <3>1, LatestTypes DEF TypeOK, ApplyUnsaved, MarkDegraded
    <3> QED BY <2>3, <2>6, <3>1, <3>2 DEF TypeOK, ApplyUnsaved, TakeEvent, MarkDegraded
  <2>7. CASE ApplyDegraded
    <3>1. shown' \in Snapshot
      BY <1>s, <2>4, <2>7, LatestTypes DEF TypeOK, ApplyDegraded, MarkDegraded
    <3> QED BY <2>3, <2>7, <3>1 DEF TypeOK, ApplyDegraded, TakeEvent, MarkDegraded
  <2> QED BY <1>14, <2>5, <2>6, <2>7 DEF AppStep
<1>15. CASE Restart
  <2>1. GatewayTypeOK'
    BY <1>15 DEF TypeOK, GatewayTypeOK, Restart
  <2>2. cache' \in Seq(Snapshot)
    <3>1. CASE cache = << >>
      BY <1>15, <3>1 DEF TypeOK, Restart
    <3>2. CASE cache # << >>
      <4>1. Last(cache) \in Snapshot
        BY <3>2, LatestTypes DEF TypeOK, Latest
      <4> QED BY <1>15, <3>2, <4>1, SavedIsLatest DEF TypeOK, Restart
    <3> QED BY <3>1, <3>2
  <2>3. shown' \in Snapshot
    BY <1>15, LatestTypes DEF TypeOK, Restart
  <2>4. events' \in Seq(Snapshot) /\ Len(events') <= EventSize
    BY <1>15, FeedAssumption DEF Restart
  <2>5. failures' \in Nat
    BY <1>15 DEF TypeOK, Restart
  <2> QED BY <1>s, <1>15, <2>1, <2>2, <2>3, <2>4, <2>5 DEF TypeOK, GatewayTypeOK, Restart
<1>16. ASSUME NEW s \in Slot, TaskHangs(s) PROVE TypeOK'
  BY <1>16 DEF TypeOK, TaskHangs
<1>17. ASSUME NEW s \in Slot, SendToNobody(s) PROVE TypeOK'
  <2>1. channel' \in [Slot -> Seq(Snapshot)] /\ \A u \in Slot : Len(channel'[u]) <= ChannelSize
    BY <1>17, TailTypes DEF SendToNobody
  <2> QED BY <1>17, <2>1 DEF TypeOK, SendToNobody
<1>18. ASSUME NEW s \in Slot, Notice(s) PROVE TypeOK'
  <2>1. GatewayTypeOK'
    BY <1>18, CloseTypes DEF TypeOK, GatewayTypeOK, Notice
  <2> QED BY <1>18, <2>1 DEF TypeOK, GatewayTypeOK, Notice
<1> QED
  BY <1>0, <1>1, <1>2, <1>3, <1>4, <1>5, <1>6, <1>7, <1>8, <1>9, <1>10, <1>11, <1>12, <1>13,
     <1>14, <1>15, <1>16, <1>17, <1>18
  DEF Next, ClientStep

\* Every variable of the feed keeps its type.
THEOREM TypeCorrect == Spec => []TypeOK
<1>1. TypeInv => TypeOK
  BY DEF TypeInv
<1>2. TypeInv /\ [Next]_vars => TypeInv'
  BY NextTypes, NextHeld DEF TypeInv
<1>3. Init => TypeInv
  BY InitTypes DEF TypeInv, StreamHeld, Init
<1> QED BY <1>1, <1>2, <1>3, PTL DEF Spec
-----------------------------------------------------------------------------
(* One snapshot at most once the receiver is gone *)

\* Only a task that has just audited for nobody is in arrears, and it is about
\* to find that out.
Counted(s) == orphaned[s] = 0 \/ (orphaned[s] = 1 /\ task[s] = "send" /\ ~ open[s])

OrphanInv == TypeInv /\ \A s \in Slot : Counted(s)

LEMMA NextOrphan == OrphanInv /\ [Next]_vars => OrphanInv'
<1> SUFFICES ASSUME OrphanInv, [Next]_vars, NEW u \in Slot PROVE Counted(u)'
  BY NextTypes, NextHeld DEF OrphanInv, TypeInv
<1>t. TypeOK /\ StreamHeld /\ Counted(u) /\ orphaned[u] \in 0 .. 2
  BY DEF OrphanInv, TypeInv, TypeOK
<1> USE DEF gatewayVars, Goto, Counted
<1>1. CASE UNCHANGED gatewayVars
  BY <1>1, <1>t
<1>2. ASSUME NEW s \in Slot, TaskStep(s) PROVE Counted(u)'
  <2>1. CASE Audit(s)
    <3>1. Min({orphaned[s] + 1, 2}) = IF orphaned[s] = 2 THEN 2 ELSE orphaned[s] + 1
      <4>1. orphaned[s] \in 0 .. 2
        BY <1>t DEF TypeOK
      <4> QED BY <4>1, SmallMin
    <3> QED BY <1>t, <2>1, <3>1 DEF TypeOK, Audit
  <2>2. CASE BuildFails(s) \/ SendError(s) \/ Send(s)
    BY <1>t, <2>2 DEF TypeOK, BuildFails, SendError, Send, Finish
  <2>3. CASE ReadStatus(s) \/ Predict(s) \/ Wake(s)
    BY <1>t, <2>3 DEF TypeOK, ReadStatus, Predict, Wake
  <2> QED BY <1>2, <2>1, <2>2, <2>3 DEF TaskStep
<1>3. ASSUME NEW s \in Slot, Spawn(s) PROVE Counted(u)'
  BY <1>3, <1>t DEF TypeOK, Spawn
<1>4. ASSUME NEW s \in Slot, Close(s) PROVE Counted(u)'
  BY <1>4, <1>t DEF TypeOK, Close
<1>5. CASE ClientStep
  <2>1. CASE Receive \/ DecodeFails
    BY <1>t, <2>1 DEF Receive, DecodeFails
  <2>2. CASE StreamEnds
    <3>1. stream \in Slot
      BY <1>t, <2>2 DEF TypeOK, StreamHeld, StreamEnds, Move
    <3>2. Close(stream) \/ UNCHANGED gatewayVars
      BY <2>2 DEF StreamEnds, StreamOver
    <3> QED BY <1>1, <1>4, <3>1, <3>2
  <2>3. CASE UNCHANGED gatewayVars
    BY <1>1, <2>3
  <2>4. CASE SubscribeFails \/ \E s \in Slot : Subscribe(s)
    BY <1>1, <1>3, <2>4 DEF SubscribeFails, Subscribe
  <2> QED BY <1>5, <2>1, <2>2, <2>3, <2>4
          DEF ClientStep, Connect, ConnectFails, PollStatus, PollPredict, PollFails, EndWait
<1>6. CASE Restart
  BY <1>1, <1>6 DEF Restart
<1>7. CASE (\E a \in Switches : SwitchLevel(a)) \/ PressRefresh \/ AppStep
  BY <1>1, <1>7
  DEF SwitchLevel, PressRefresh, AppStep, ApplySnapshot, ApplyUnsaved, ApplyDegraded, TakeEvent
<1>8. CASE UNCHANGED vars
  BY <1>1, <1>8 DEF vars
<1>9. ASSUME NEW s \in Slot, TaskHangs(s) \/ SendToNobody(s) \/ Notice(s) PROVE Counted(u)'
  BY <1>4, <1>9, <1>t DEF TypeOK, TaskHangs, SendToNobody, Notice
<1> QED BY <1>2, <1>5, <1>6, <1>7, <1>8, <1>9 DEF Next

\* A task whose receiver is gone audits one more snapshot at most: the send that
\* follows fails (build_signal_snapshot comes before tx.send in the loop).
THEOREM OneOrphanAlways == Spec => []OneOrphanAtMost
<1>1. OrphanInv => OneOrphanAtMost
  BY DEF OrphanInv, OneOrphanAtMost, Counted
<1>2. Init => OrphanInv
  BY InitTypes DEF OrphanInv, TypeInv, StreamHeld, Counted, Init
<1> QED BY <1>1, <1>2, NextOrphan, PTL DEF Spec
-----------------------------------------------------------------------------
(* The banner *)

\* Without a connection the last thing App will hear of is its loss.
BannerInv ==
  /\ TypeInv
  /\ pc \in {"subscribe", "stream", "poll", "pollPredict"} => connected
  /\ ~ connected => IF events = << >> THEN degraded ELSE Last(events) = Nothing

LEMMA NextBanner == BannerInv /\ [Next]_vars => BannerInv'
<1> DEFINE Attached == pc \in {"subscribe", "stream", "poll", "pollPredict"} => connected
           Told == ~ connected => IF events = << >> THEN degraded ELSE Last(events) = Nothing
<1> SUFFICES ASSUME BannerInv, [Next]_vars PROVE Attached' /\ Told'
  BY NextTypes, NextHeld DEF BannerInv, TypeInv
<1>t. TypeOK /\ Attached /\ Told /\ events \in Seq(Snapshot) /\ Nothing \in Snapshot
  BY SnapshotTypes DEF BannerInv, TypeInv, TypeOK
<1> USE DEF Move
<1>1. CASE UNCHANGED << pc, connected, events, degraded >>
  BY <1>1, <1>t
<1>2. ASSUME Emit(Nothing) PROVE events' # << >> /\ Last(events') = Nothing
  BY <1>2, <1>t, Appended DEF Emit, Last
<1>3. CASE ConnectFails \/ SubscribeFails \/ DecodeFails
  BY <1>2, <1>3, <1>t DEF ConnectFails, SubscribeFails, DecodeFails, clientVars
<1>4. CASE Connect \/ PollStatus \/ PollPredict \/ Receive
  BY <1>4, <1>t DEF Connect, PollStatus, PollPredict, Receive, clientVars
<1>5. CASE \E s \in Slot : Subscribe(s)
  BY <1>5, <1>t DEF Subscribe, appVars
<1>6. CASE StreamEnds \/ PollFails
  BY <1>2, <1>6, <1>t DEF StreamEnds, PollFails
<1>7. CASE EndWait
  BY <1>7, <1>t DEF EndWait, appVars
<1>8. CASE AppStep
  <2>1. /\ events # << >> /\ events' = Tail(events) /\ UNCHANGED << pc, connected >>
        /\ degraded' \/ Head(events) # Nothing
    BY <1>8 DEF AppStep, ApplySnapshot, ApplyUnsaved, ApplyDegraded, TakeEvent, MarkDegraded,
                clientVars
  <2>2. /\ Head(events) = events[1] /\ Len(events) \in Nat /\ Len(events) >= 1
        /\ events' \in Seq(Snapshot) /\ Len(events') = Len(events) - 1
        /\ \A i \in 1 .. Len(events') : events'[i] = events[i + 1]
    BY <1>t, <2>1, HeadTail
  <2>3. CASE Len(events) = 1
    <3>1. events' = << >>
      BY <2>2, <2>3
    <3>2. Last(events) = Head(events)
      BY <2>2, <2>3 DEF Last
    <3> QED BY <1>t, <2>1, <3>1, <3>2
  <2>4. CASE Len(events) # 1
    <3>1. Len(events') \in 1 .. Len(events') /\ events' # << >>
      BY <2>2, <2>4
    <3>2. Last(events') = Last(events)
      BY <2>2, <3>1 DEF Last
    <3> QED BY <1>t, <2>1, <3>1, <3>2
  <2> QED BY <2>3, <2>4
<1>9. CASE Restart
  BY <1>9 DEF Restart
<1>10. CASE \/ (\E a \in Switches : SwitchLevel(a)) \/ PressRefresh
            \/ \E s \in Slot : TaskStep(s) \/ TaskHangs(s) \/ SendToNobody(s) \/ Notice(s)
  BY <1>1, <1>10
  DEF SwitchLevel, PressRefresh, clientVars, appVars, TaskStep, ReadStatus, Predict, Audit,
      BuildFails, Send, SendError, Wake, TaskHangs, SendToNobody, Notice
<1>11. CASE UNCHANGED vars
  BY <1>1, <1>11 DEF vars, clientVars, appVars
<1> QED BY <1>3, <1>4, <1>5, <1>6, <1>7, <1>8, <1>9, <1>10, <1>11 DEF Next, ClientStep

\* CONNECTED is on the banner only with a connection, or with the news of its
\* loss on the way (run_signal_stream reports every failure before it waits).
THEOREM ConnectedAlwaysTrue == Spec => []ConnectedIsTrue
<1>1. BannerInv => ConnectedIsTrue
  <2> SUFFICES ASSUME BannerInv, ~ connected, events # << >> PROVE Contains(events, Nothing)
    BY DEF BannerInv, ConnectedIsTrue
  <2>1. events \in Seq(Snapshot) /\ Last(events) = Nothing
    BY DEF BannerInv, TypeInv, TypeOK
  <2>2. Len(events) \in 1 .. Len(events)
    BY <2>1
  <2> QED BY <2>1, <2>2 DEF Contains, Last
<1>2. Init => BannerInv
  BY InitTypes DEF BannerInv, TypeInv, StreamHeld, Init
<1> QED BY <1>1, <1>2, NextBanner, PTL DEF Spec
-----------------------------------------------------------------------------
(* Snapshots arrive in the order in which they were taken *)

\* Nothing App has or is about to get is newer than time n.
Before(n) ==
  /\ Latest(cache).at <= n
  /\ \A i \in 1 .. Len(events) : events[i].at <= n

EventsInOrder ==
  \A j \in 1 .. Len(events) : events[j] # Nothing =>
     /\ Latest(cache).at <= events[j].at
     /\ \A i \in 1 .. j : events[i].at <= events[j].at

SlotInOrder(s) ==
  /\ draft[s].at <= clock
  /\ \A i \in 1 .. Len(channel[s]) : channel[s][i].at <= clock
  /\ ~ open[s] => channel[s] = << >>
  /\ task[s] = "none" => ~ open[s]

\* What comes over a stream is newer than what App has, each message than the
\* one before, and the snapshot its task is building than all of them.
StreamInOrder(s) ==
  /\ \A i \in 1 .. Len(channel[s]) : Before(channel[s][i].at)
  /\ \A j \in 1 .. Len(channel[s]) : \A i \in 1 .. j : channel[s][i].at <= channel[s][j].at
  /\ task[s] \in {"predict", "audit", "send"} =>
       /\ Before(draft[s].at)
       /\ \A i \in 1 .. Len(channel[s]) : channel[s][i].at <= draft[s].at

PollInOrder ==
  /\ polled.at <= clock
  /\ pc = "pollPredict" => Before(polled.at)

InOrder ==
  /\ ShownIsCached
  /\ Before(clock)
  /\ EventsInOrder
  /\ \A s \in Slot : SlotInOrder(s)
  /\ stream # NoSlot => StreamInOrder(stream)
  /\ PollInOrder

OrderInv == TypeInv /\ InOrder

LEMMA OrderTypes ==
  ASSUME TypeOK
  PROVE  /\ clock \in Nat /\ shown.at \in Nat /\ polled.at \in Nat /\ Latest(cache).at \in Nat
         /\ Len(events) \in Nat /\ \A i \in 1 .. Len(events) : events[i] \in Snapshot /\ events[i].at \in Nat
         /\ \A s \in Slot :
              /\ draft[s].at \in Nat /\ Len(channel[s]) \in Nat
              /\ \A i \in 1 .. Len(channel[s]) : channel[s][i] \in Snapshot /\ channel[s][i].at \in Nat
<1>1. \A x \in Snapshot : x.at \in Nat
  BY DEF Snapshot
<1>2. events \in Seq(Snapshot) /\ cache \in Seq(Snapshot) /\ shown \in Snapshot /\ polled \in Snapshot
  BY DEF TypeOK
<1>3. Len(events) \in Nat /\ \A i \in 1 .. Len(events) : events[i] \in Snapshot
  BY <1>2
<1>4. ASSUME NEW s \in Slot
      PROVE  /\ draft[s].at \in Nat /\ Len(channel[s]) \in Nat
             /\ \A i \in 1 .. Len(channel[s]) : channel[s][i] \in Snapshot /\ channel[s][i].at \in Nat
  <2>1. draft[s] \in Snapshot /\ channel[s] \in Seq(Snapshot)
    BY DEF TypeOK
  <2> QED BY <1>1, <2>1
<1> QED BY <1>1, <1>2, <1>3, <1>4, LatestTypes DEF TypeOK

\* An event that is not older than what App has keeps the order.
LEMMA EmitInOrder ==
  ASSUME TypeOK, EventsInOrder, NEW x \in Snapshot, Emit(x), cache' = cache,
         x = Nothing \/ Before(x.at)
  PROVE  /\ EventsInOrder'
         /\ \A n \in Nat : Before(n) /\ x.at <= n => Before(n)'
<1>1. /\ events \in Seq(Snapshot) /\ events' = Append(events, x) /\ x.at \in Nat
      /\ Latest(cache') = Latest(cache)
  BY DEF TypeOK, Emit, Snapshot
<1>2. /\ Len(events) \in Nat /\ Len(events') = Len(events) + 1 /\ events'[Len(events) + 1] = x
      /\ \A i \in 1 .. Len(events) : events'[i] = events[i]
  BY <1>1, Appended
<1>3. EventsInOrder'
  <2> SUFFICES ASSUME NEW j \in 1 .. Len(events'), events'[j] # Nothing
               PROVE  /\ Latest(cache').at <= events'[j].at
                      /\ \A i \in 1 .. j : events'[i].at <= events'[j].at
    BY DEF EventsInOrder
  <2>1. CASE j \in 1 .. Len(events)
    BY <1>1, <1>2, <2>1 DEF EventsInOrder
  <2>2. CASE j = Len(events) + 1
    BY <1>1, <1>2, <2>2 DEF Before
  <2> QED BY <1>2, <2>1, <2>2
<1>4. ASSUME NEW n \in Nat, Before(n), x.at <= n PROVE Before(n)'
  BY <1>1, <1>2, <1>4 DEF Before
<1> QED BY <1>3, <1>4

\* App takes an event and has at most that one more in its cache.
LEMMA TakeInOrder ==
  ASSUME TypeOK, EventsInOrder, TakeEvent,
         Latest(cache') = Latest(cache) \/ (Head(events) # Nothing /\ Latest(cache') = Head(events))
  PROVE  /\ EventsInOrder'
         /\ Latest(cache).at <= Latest(cache').at
         /\ \A n \in Nat : Before(n) => Before(n)'
<1>1. events \in Seq(Snapshot) /\ events # << >> /\ events' = Tail(events)
  BY DEF TypeOK, TakeEvent
<1>2. /\ Head(events) = events[1] /\ Len(events) \in Nat /\ 1 \in 1 .. Len(events)
      /\ Len(events') = Len(events) - 1
      /\ \A i \in 1 .. Len(events') : events'[i] = events[i + 1] /\ i + 1 \in 1 .. Len(events)
  BY <1>1, HeadTail
<1>3. Latest(cache).at \in Nat /\ \A i \in 1 .. Len(events) : events[i].at \in Nat
  BY OrderTypes
<1>4. Latest(cache).at <= Latest(cache').at
  BY <1>2, <1>3 DEF EventsInOrder
<1>5. EventsInOrder'
  <2> SUFFICES ASSUME NEW j \in 1 .. Len(events'), events'[j] # Nothing
               PROVE  /\ Latest(cache').at <= events'[j].at
                      /\ \A i \in 1 .. j : events'[i].at <= events'[j].at
    BY DEF EventsInOrder
  <2>1. /\ events'[j] = events[j + 1] /\ j + 1 \in 1 .. Len(events) /\ j \in Nat
        /\ 1 \in 1 .. j + 1
    BY <1>2
  <2>2. Latest(cache).at <= events[j + 1].at /\ \A i \in 1 .. j + 1 : events[i].at <= events[j + 1].at
    BY <2>1 DEF EventsInOrder
  <2>3. Latest(cache').at <= events'[j].at
    BY <1>2, <2>1, <2>2
  <2>4. ASSUME NEW i \in 1 .. j PROVE events'[i].at <= events'[j].at
    <3>1. i \in 1 .. Len(events') /\ i + 1 \in 1 .. j + 1
      BY <1>2, <2>1
    <3> QED BY <1>2, <2>1, <2>2, <3>1
  <2> QED BY <2>3, <2>4
<1>6. ASSUME NEW n \in Nat, Before(n) PROVE Before(n)'
  BY <1>2, <1>3, <1>6 DEF Before
<1> QED BY <1>4, <1>5, <1>6

LEMMA NextOrder == OrderInv /\ [Next]_vars => OrderInv' /\ shown.at <= shown'.at
<1> SUFFICES ASSUME TypeInv, InOrder, [Next]_vars PROVE InOrder' /\ shown.at <= shown'.at
  BY NextTypes, NextHeld DEF OrderInv, TypeInv
<1> USE DEF Goto, Move
<1>t. /\ TypeOK /\ StreamHeld /\ TypeOK'
      /\ ShownIsCached /\ Before(clock) /\ EventsInOrder /\ PollInOrder
      /\ \A s \in Slot : SlotInOrder(s)
      /\ stream # NoSlot => StreamInOrder(stream)
  BY NextTypes DEF TypeInv, InOrder
<1>n. /\ clock \in Nat /\ shown.at \in Nat /\ polled.at \in Nat /\ Latest(cache).at \in Nat
      /\ Later \in Nat /\ clock <= Later /\ Taken.at = Later
      /\ Nothing \in Snapshot /\ Nothing.at = 0
      /\ Len(events) \in Nat /\ \A i \in 1 .. Len(events) : events[i].at \in Nat
  BY <1>t, OrderTypes, SnapshotTypes DEF Taken, Nothing
<1>m. \A s \in Slot :
        /\ draft[s].at \in Nat /\ Len(channel[s]) \in Nat
        /\ \A i \in 1 .. Len(channel[s]) : channel[s][i] \in Snapshot /\ channel[s][i].at \in Nat
  BY <1>t, OrderTypes
<1>p. polled \in Snapshot /\ events \in Seq(Snapshot) /\ cache \in Seq(Snapshot)
      /\ \A s \in Slot : draft[s] \in Snapshot /\ channel[s] \in Seq(Snapshot)
  BY <1>t DEF TypeOK
\* Steps that neither take, send, receive nor show a snapshot.
<1>a. ASSUME UNCHANGED << clock, draft, channel, open, stream, polled, events, shown, cache >>,
             \A s \in Slot :
               /\ task'[s] \in {"predict", "audit", "send"} => task[s] \in {"predict", "audit", "send"}
               /\ task'[s] = "none" => task[s] = "none",
             pc' = "pollPredict" => pc = "pollPredict"
      PROVE  InOrder' /\ shown.at <= shown'.at
  <2>1. ShownIsCached' /\ Before(clock)' /\ EventsInOrder' /\ shown.at <= shown'.at
    BY <1>a, <1>t, <1>n DEF ShownIsCached, Before, EventsInOrder
  <2>2. PollInOrder'
    BY <1>a, <1>t DEF PollInOrder, Before
  <2>3. \A s \in Slot : SlotInOrder(s)'
    BY <1>a, <1>t DEF SlotInOrder
  <2>4. stream' # NoSlot => StreamInOrder(stream)'
    BY <1>a, <1>t DEF StreamInOrder, Before, TypeOK
  <2> QED BY <2>1, <2>2, <2>3, <2>4 DEF InOrder
\* Steps that let App have one event more or less, and do not touch the gateway.
<1>b. ASSUME UNCHANGED << clock, gatewayVars, stream >>,
             ShownIsCached', EventsInOrder', PollInOrder',
             Before(clock)',
             stream # NoSlot => \A n \in Nat : Before(n) => Before(n)'
      PROVE  InOrder'
  <2>1. \A s \in Slot : SlotInOrder(s)'
    BY <1>b, <1>t DEF SlotInOrder, gatewayVars
  <2>2. stream' # NoSlot => StreamInOrder(stream)'
    <3> SUFFICES ASSUME stream # NoSlot PROVE StreamInOrder(stream)'
      BY <1>b
    <3>1. stream \in Slot
      BY <1>t DEF TypeOK
    <3> QED BY <1>b, <1>m, <1>t, <3>1 DEF StreamInOrder, gatewayVars
  <2> QED BY <1>b, <2>1, <2>2 DEF InOrder
<1>1. ASSUME NEW s \in Slot, ReadStatus(s) PROVE InOrder' /\ shown.at <= shown'.at
  <2>1. UNCHANGED << channel, open, stream, polled, events, shown, cache, pc >> /\ clock' = Later
    BY <1>1 DEF ReadStatus, clientVars, appVars
  <2>2. \A n \in Nat : Before(n) <=> Before(n)'
    BY <2>1 DEF Before
  <2>3. Before(Later)
    BY <1>n, <1>t DEF Before
  <2>4. draft' = [draft EXCEPT ![s] = Taken] /\ task' = [task EXCEPT ![s] = "predict"]
        /\ task[s] = "build"
    BY <1>1 DEF ReadStatus
  <2>5. ShownIsCached' /\ EventsInOrder' /\ shown.at <= shown'.at
    BY <1>n, <1>t, <2>1 DEF ShownIsCached, EventsInOrder
  <2>6. Before(clock)'
    BY <1>n, <2>1, <2>3 DEF Before
  <2>7. PollInOrder'
    BY <1>n, <1>t, <2>1 DEF PollInOrder, Before
  <2>8. \A u \in Slot : SlotInOrder(u)'
    BY <1>m, <1>n, <1>t, <2>1, <2>4 DEF SlotInOrder, TypeOK
  <2>9. stream' # NoSlot => StreamInOrder(stream)'
    <3> SUFFICES ASSUME stream # NoSlot PROVE StreamInOrder(stream)'
      BY <2>1
    <3>1. stream \in Slot /\ StreamInOrder(stream) /\ SlotInOrder(stream)
      BY <1>t DEF TypeOK
    <3>2. \A i \in 1 .. Len(channel'[stream]) : Before(channel[stream][i].at)'
      BY <1>m, <2>1, <3>1 DEF StreamInOrder, Before
    <3>3. \A j \in 1 .. Len(channel'[stream]) : \A i \in 1 .. j : channel'[stream][i].at <= channel'[stream][j].at
      BY <2>1, <3>1 DEF StreamInOrder
    <3>4. CASE stream = s
      <4>1. draft'[stream].at = Later
        BY <1>n, <1>t, <2>4, <3>4 DEF TypeOK
      <4>2. Before(draft[stream].at)'
        BY <2>1, <2>3, <4>1 DEF Before
      <4>3. \A i \in 1 .. Len(channel'[stream]) : channel'[stream][i].at <= draft'[stream].at
        BY <1>m, <1>n, <2>1, <3>1, <4>1 DEF SlotInOrder
      <4> QED BY <2>1, <3>2, <3>3, <4>2, <4>3 DEF StreamInOrder
    <3>5. CASE stream # s
      <4>1. draft'[stream] = draft[stream] /\ task'[stream] = task[stream]
        BY <1>t, <2>4, <3>1, <3>5 DEF TypeOK
      <4> QED BY <2>1, <3>1, <3>2, <3>3, <4>1 DEF StreamInOrder, Before
    <3> QED BY <3>4, <3>5
  <2> QED BY <2>5, <2>6, <2>7, <2>8, <2>9 DEF InOrder
<1>2. ASSUME NEW s \in Slot, Predict(s) \/ Audit(s) \/ Wake(s) \/ TaskHangs(s)
      PROVE  InOrder' /\ shown.at <= shown'.at
  <2>1. UNCHANGED << clock, draft, channel, open, stream, polled, events, shown, cache, pc >>
    BY <1>2 DEF Predict, Audit, Wake, TaskHangs, clientVars, appVars
  <2>2. \A u \in Slot :
          /\ task'[u] \in {"predict", "audit", "send"} => task[u] \in {"predict", "audit", "send"}
          /\ task'[u] = "none" => task[u] = "none"
    BY <1>2, <1>t DEF Predict, Audit, Wake, TaskHangs, TypeOK
  <2> QED BY <1>a, <2>1, <2>2
\* A task that ends leaves behind what it sent.
<1>f. ASSUME NEW s \in Slot,
             task'[s] \in {"none", "done", "fail"}, task'[s] = "none" => ~ open[s], draft'[s] = Nothing,
             \A u \in Slot \ {s} : task'[u] = task[u] /\ draft'[u] = draft[u],
             UNCHANGED << clock, channel, open, stream, polled, events, shown, cache, pc >>
      PROVE  InOrder' /\ shown.at <= shown'.at
  <2>1. task'[s] \in {"none", "done", "fail"} /\ (task'[s] = "none" => ~ open[s]) /\ draft'[s] = Nothing
        /\ \A u \in Slot \ {s} : task'[u] = task[u] /\ draft'[u] = draft[u]
    BY <1>f
  <2>2. ShownIsCached' /\ Before(clock)' /\ EventsInOrder' /\ PollInOrder' /\ shown.at <= shown'.at
    BY <1>f, <1>n, <1>t DEF ShownIsCached, Before, EventsInOrder, PollInOrder
  <2>3. \A u \in Slot : SlotInOrder(u)'
    BY <1>f, <1>n, <1>t, <2>1 DEF SlotInOrder
  <2>4. stream' # NoSlot => StreamInOrder(stream)'
    <3> SUFFICES ASSUME stream # NoSlot PROVE StreamInOrder(stream)'
      BY <1>f
    <3>1. stream \in Slot /\ StreamInOrder(stream)
      BY <1>t DEF TypeOK
    <3>2. /\ \A i \in 1 .. Len(channel'[stream]) : Before(channel[stream][i].at)'
          /\ \A j \in 1 .. Len(channel'[stream]) : \A i \in 1 .. j : channel'[stream][i].at <= channel'[stream][j].at
      BY <1>f, <3>1 DEF StreamInOrder, Before
    <3>3. task'[stream] \in {"predict", "audit", "send"} =>
            task[stream] = task'[stream] /\ draft'[stream] = draft[stream]
      BY <2>1, <3>1
    <3> QED BY <1>f, <3>1, <3>2, <3>3 DEF StreamInOrder, Before
  <2> QED BY <2>2, <2>3, <2>4 DEF InOrder
<1>e. ASSUME NEW s \in Slot, Finish(s)
      PROVE  /\ task'[s] \in {"none", "done"} /\ (task'[s] = "none" => ~ open[s]) /\ draft'[s] = Nothing
             /\ \A u \in Slot \ {s} : task'[u] = task[u] /\ draft'[u] = draft[u]
  BY <1>e, <1>t DEF Finish, TypeOK
<1>3. ASSUME NEW s \in Slot, BuildFails(s) PROVE InOrder' /\ shown.at <= shown'.at
  <2>1. task'[s] = "fail" /\ draft'[s] = Nothing
        /\ \A u \in Slot \ {s} : task'[u] = task[u] /\ draft'[u] = draft[u]
    BY <1>3, <1>t DEF BuildFails, TypeOK
  <2>2. UNCHANGED << clock, channel, open, stream, polled, events, shown, cache, pc >>
    BY <1>3 DEF BuildFails, clientVars, appVars
  <2> QED BY <1>f, <2>1, <2>2
<1>14. ASSUME NEW s \in Slot, SendError(s) PROVE InOrder' /\ shown.at <= shown'.at
  <2>1. UNCHANGED << clock, channel, open, stream, polled, events, shown, cache, pc >> /\ Finish(s)
    BY <1>14 DEF SendError, clientVars, appVars
  <2> QED BY <1>e, <1>f, <2>1
<1>4. ASSUME NEW s \in Slot, Send(s) PROVE InOrder' /\ shown.at <= shown'.at
  <2>1. UNCHANGED << clock, open, stream, polled, events, shown, cache, pc >> /\ task[s] = "send"
    BY <1>4 DEF Send, clientVars, appVars
  <2>2. CASE Finish(s) /\ UNCHANGED channel
    BY <1>e, <1>f, <2>1, <2>2
  <2>3. CASE /\ open[s] /\ Goto(s, "send", "sleep")
             /\ channel' = [channel EXCEPT ![s] = Append(@, draft[s])]
             /\ draft' = [draft EXCEPT ![s] = Nothing]
    <3>1. /\ channel'[s] = Append(channel[s], draft[s]) /\ draft'[s] = Nothing /\ task'[s] = "sleep"
          /\ \A u \in Slot \ {s} : channel'[u] = channel[u] /\ draft'[u] = draft[u] /\ task'[u] = task[u]
      BY <1>t, <2>3 DEF TypeOK
    <3>2. /\ Len(channel'[s]) = Len(channel[s]) + 1 /\ Len(channel[s]) \in Nat
          /\ channel'[s][Len(channel[s]) + 1] = draft[s]
          /\ \A i \in 1 .. Len(channel[s]) : channel'[s][i] = channel[s][i]
      BY <1>p, <3>1, Appended
    <3>3. ShownIsCached' /\ Before(clock)' /\ EventsInOrder' /\ PollInOrder' /\ shown.at <= shown'.at
      BY <1>n, <1>t, <2>1 DEF ShownIsCached, Before, EventsInOrder, PollInOrder
    <3>4. ASSUME NEW u \in Slot PROVE SlotInOrder(u)'
      <4>1. CASE u = s
        <5>1. \A i \in 1 .. Len(channel'[s]) : channel'[s][i].at <= clock
          BY <1>t, <3>2 DEF SlotInOrder
        <5> QED BY <1>n, <2>1, <2>3, <3>1, <4>1, <5>1 DEF SlotInOrder
      <4>2. CASE u # s
        BY <1>t, <2>1, <3>1, <4>2 DEF SlotInOrder
      <4> QED BY <4>1, <4>2
    <3>5. stream' # NoSlot => StreamInOrder(stream)'
      <4> SUFFICES ASSUME stream # NoSlot PROVE StreamInOrder(stream)'
        BY <2>1
      <4>1. stream \in Slot /\ StreamInOrder(stream)
        BY <1>t DEF TypeOK
      <4>2. CASE stream = s
        <5>1. Before(draft[s].at) /\ \A i \in 1 .. Len(channel[s]) : channel[s][i].at <= draft[s].at
          BY <2>1, <4>1, <4>2 DEF StreamInOrder
        <5>2. \A i \in 1 .. Len(channel'[s]) : Before(channel[s][i].at)'
          <6> SUFFICES ASSUME NEW i \in 1 .. Len(channel'[s]) PROVE Before(channel[s][i].at)'
            OBVIOUS
          <6>1. channel'[s][i] = draft[s] \/ (i \in 1 .. Len(channel[s]) /\ channel'[s][i] = channel[s][i])
            BY <3>2
          <6>2. Before(channel'[s][i].at)
            BY <4>1, <4>2, <5>1, <6>1 DEF StreamInOrder
          <6> QED BY <2>1, <6>2 DEF Before
        <5>3. \A j \in 1 .. Len(channel'[s]) : \A i \in 1 .. j : channel'[s][i].at <= channel'[s][j].at
          <6> SUFFICES ASSUME NEW j \in 1 .. Len(channel'[s]), NEW i \in 1 .. j
                       PROVE  channel'[s][i].at <= channel'[s][j].at
            OBVIOUS
          <6>1. draft[s].at \in Nat
            BY <1>m
          <6>2. CASE j \in 1 .. Len(channel[s])
            BY <3>2, <4>1, <4>2, <6>2 DEF StreamInOrder
          <6>3. CASE j = Len(channel[s]) + 1
            <7>1. i = j \/ i \in 1 .. Len(channel[s])
              BY <3>2, <6>3
            <7>2. channel'[s][j] = draft[s] /\ draft[s].at <= draft[s].at
              BY <3>2, <6>1, <6>3
            <7>3. i \in 1 .. Len(channel[s]) => channel'[s][i].at <= draft[s].at
              BY <3>2, <5>1
            <7> QED BY <7>1, <7>2, <7>3
          <6> QED BY <3>2, <6>2, <6>3
        <5> QED BY <2>1, <3>1, <4>2, <5>2, <5>3 DEF StreamInOrder
      <4>3. CASE stream # s
        <5>1. channel'[stream] = channel[stream] /\ draft'[stream] = draft[stream]
              /\ task'[stream] = task[stream]
          BY <3>1, <4>1, <4>3
        <5> QED BY <2>1, <4>1, <5>1 DEF StreamInOrder, Before
      <4> QED BY <4>2, <4>3
    <3> QED BY <3>3, <3>4, <3>5 DEF InOrder
  <2> QED BY <1>4, <2>2, <2>3 DEF Send
<1>5. CASE Connect \/ EndWait \/ PressRefresh \/ (\E a \in Switches : SwitchLevel(a)) \/ UNCHANGED vars
  BY <1>5, <1>a DEF Connect, EndWait, PressRefresh, SwitchLevel, gatewayVars, clientVars, appVars, vars
\* A task begins in a slot that nothing is left in.
<1>s. ASSUME NEW s \in Slot, Spawn(s), clock' = clock
      PROVE  (\A u \in Slot : SlotInOrder(u)') /\ channel'[s] = << >> /\ task'[s] = "build"
  <2>1. /\ UNCHANGED << draft, channel >> /\ task[s] = "none"
        /\ task'[s] = "build" /\ open'[s] = TRUE
        /\ \A u \in Slot \ {s} : task'[u] = task[u] /\ open'[u] = open[u]
    BY <1>s, <1>t DEF Spawn, TypeOK
  <2>2. channel[s] = << >>
    BY <1>t, <2>1 DEF SlotInOrder
  <2> QED BY <1>s, <1>t, <2>1, <2>2 DEF SlotInOrder
<1>6. CASE ConnectFails \/ SubscribeFails \/ PollFails
  <2>1. UNCHANGED << clock, stream, shown, cache >> /\ Emit(Nothing)
        /\ pc' # "pollPredict" /\ polled' \in {polled, Nothing}
    BY <1>6, <1>t DEF ConnectFails, SubscribeFails, PollFails, appVars
  <2>6. UNCHANGED gatewayVars \/ \E s \in Slot : Spawn(s) /\ stream = NoSlot
    BY <1>6, <1>t DEF ConnectFails, SubscribeFails, PollFails, StreamHeld
  <2>2. EventsInOrder' /\ \A n \in Nat : Before(n) => Before(n)'
    BY <1>n, <1>t, <2>1, EmitInOrder
  <2>3. ShownIsCached' /\ shown.at <= shown'.at
    BY <1>n, <1>t, <2>1 DEF ShownIsCached
  <2>4. PollInOrder'
    BY <1>n, <1>t, <2>1 DEF PollInOrder
  <2>5. Before(clock)'
    BY <1>n, <1>t, <2>1, <2>2 DEF Before
  <2>7. CASE UNCHANGED gatewayVars
    BY <1>b, <2>1, <2>2, <2>3, <2>4, <2>5, <2>7
  <2>8. CASE \E s \in Slot : Spawn(s) /\ stream = NoSlot
    BY <1>s, <2>1, <2>2, <2>3, <2>4, <2>5, <2>8 DEF InOrder
  <2> QED BY <2>6, <2>7, <2>8
<1>7. ASSUME NEW s \in Slot, Subscribe(s) PROVE InOrder' /\ shown.at <= shown'.at
  <2>1. /\ UNCHANGED << clock, polled, events, shown, cache >>
        /\ Spawn(s) /\ stream' = s /\ pc' = "stream"
    BY <1>7 DEF Subscribe, appVars
  <2>2. ShownIsCached' /\ Before(clock)' /\ EventsInOrder' /\ PollInOrder' /\ shown.at <= shown'.at
    <3>1. ShownIsCached' /\ shown.at <= shown'.at
      BY <1>n, <1>t, <2>1 DEF ShownIsCached
    <3>2. EventsInOrder'
      BY <1>t, <2>1 DEF EventsInOrder
    <3>3. Before(clock)' /\ PollInOrder'
      BY <1>t, <2>1 DEF Before, PollInOrder
    <3> QED BY <3>1, <3>2, <3>3
  <2>3. (\A u \in Slot : SlotInOrder(u)') /\ channel'[s] = << >> /\ task'[s] = "build"
    BY <1>s, <2>1
  <2>4. Len(channel'[s]) = 0
    BY <2>3
  <2>5. StreamInOrder(stream)'
    BY <2>1, <2>3, <2>4 DEF StreamInOrder
  <2> QED BY <2>2, <2>3, <2>5 DEF InOrder
<1>8. CASE Receive \/ DecodeFails
  <2>1. /\ stream \in Slot /\ stream # NoSlot /\ channel[stream] # << >>
        /\ UNCHANGED << clock, task, draft, open, stream, polled, shown, cache, pc >>
        /\ pc = "stream"
        /\ channel' = [channel EXCEPT ![stream] = Tail(@)]
    BY <1>8, <1>t DEF Receive, DecodeFails, StreamHeld, TypeOK, clientVars, appVars
  <2>2. /\ channel'[stream] = Tail(channel[stream])
        /\ \A u \in Slot \ {stream} : channel'[u] = channel[u]
    BY <1>t, <2>1 DEF TypeOK
  <2>3. /\ Head(channel[stream]) = channel[stream][1] /\ 1 \in 1 .. Len(channel[stream])
        /\ Head(channel[stream]) \in Snapshot
        /\ Len(channel'[stream]) = Len(channel[stream]) - 1 /\ Len(channel[stream]) \in Nat
        /\ \A i \in 1 .. Len(channel'[stream]) :
             channel'[stream][i] = channel[stream][i + 1] /\ i + 1 \in 1 .. Len(channel[stream])
    <3>1. channel[stream] \in Seq(Snapshot)
      BY <1>p, <2>1
    <3> DEFINE q == channel[stream]
               rest == channel'[stream]
    <3>2. q \in Seq(Snapshot) /\ q # << >> /\ rest = Tail(q)
      BY <2>1, <2>2, <3>1
    <3> HIDE DEF q, rest
    <3>3. /\ Head(q) = q[1] /\ 1 \in 1 .. Len(q) /\ Head(q) \in Snapshot
          /\ Len(rest) = Len(q) - 1 /\ Len(q) \in Nat
          /\ \A i \in 1 .. Len(rest) : rest[i] = q[i + 1] /\ i + 1 \in 1 .. Len(q)
      BY <3>2, HeadTail
    <3> QED BY <3>3 DEF q, rest
  <2>4. StreamInOrder(stream)
    BY <1>t, <2>1
  <2>5. Before(Head(channel[stream]).at)
    BY <2>3, <2>4 DEF StreamInOrder
  <2> DEFINE x == IF Emit(Nothing) THEN Nothing ELSE Head(channel[stream])
  <2>x. /\ x \in Snapshot /\ Emit(x) /\ (x = Nothing \/ Before(x.at))
        /\ x.at <= Head(channel[stream]).at
    <3>1. Emit(Nothing) \/ Emit(Head(channel[stream]))
      BY <1>8 DEF Receive, DecodeFails
    <3>2. Head(channel[stream]).at \in Nat
      BY <1>m, <2>1, <2>3
    <3> QED BY <1>n, <2>3, <2>5, <3>1, <3>2
  <2> HIDE DEF x
  <2>6. EventsInOrder' /\ \A n \in Nat : Before(n) /\ Head(channel[stream]).at <= n => Before(n)'
    <3>1. EventsInOrder' /\ \A n \in Nat : Before(n) /\ x.at <= n => Before(n)'
      BY <1>t, <2>1, <2>x, EmitInOrder
    <3>2. x.at \in Nat /\ Head(channel[stream]).at \in Nat
      BY <2>3, <2>x DEF Snapshot
    <3> QED BY <2>x, <3>1, <3>2
  <2>7. Before(clock)'
    <3>1. Head(channel[stream]).at <= clock
      BY <1>t, <2>1, <2>3 DEF SlotInOrder
    <3> QED BY <1>n, <1>t, <2>1, <2>6, <3>1 DEF Before
  <2>8. ShownIsCached' /\ shown.at <= shown'.at /\ PollInOrder'
    BY <1>n, <1>t, <2>1 DEF ShownIsCached, PollInOrder
  <2>9. \A u \in Slot : SlotInOrder(u)'
    <3>1. ASSUME NEW u \in Slot, u # stream PROVE SlotInOrder(u)'
      BY <1>t, <2>1, <2>2, <3>1 DEF SlotInOrder
    <3>2. SlotInOrder(stream)'
      <4>1. open[stream]
        BY <1>t, <2>1 DEF SlotInOrder
      <4>2. \A i \in 1 .. Len(channel'[stream]) : channel'[stream][i].at <= clock
        BY <1>t, <2>1, <2>3 DEF SlotInOrder
      <4> QED BY <1>t, <2>1, <4>1, <4>2 DEF SlotInOrder
    <3>3. stream' = stream
      BY <2>1
    <3> QED BY <3>1, <3>2, <3>3
  <2>10. StreamInOrder(stream)'
    <3>1. \A i \in 1 .. Len(channel'[stream]) : Before(channel[stream][i].at)'
      <4> SUFFICES ASSUME NEW i \in 1 .. Len(channel'[stream]) PROVE Before(channel[stream][i].at)'
        OBVIOUS
      <4>1. /\ i + 1 \in 1 .. Len(channel[stream]) /\ channel'[stream][i] = channel[stream][i + 1]
            /\ 1 \in 1 .. i + 1
        BY <2>3
      <4>2. Before(channel[stream][i + 1].at) /\ Head(channel[stream]).at <= channel[stream][i + 1].at
            /\ channel[stream][i + 1].at \in Nat
        BY <1>m, <2>1, <2>3, <2>4, <4>1 DEF StreamInOrder
      <4> QED BY <2>1, <2>6, <4>1, <4>2 DEF Before
    <3>2. \A j \in 1 .. Len(channel'[stream]) : \A i \in 1 .. j : channel'[stream][i].at <= channel'[stream][j].at
      <4> SUFFICES ASSUME NEW j \in 1 .. Len(channel'[stream]), NEW i \in 1 .. j
                   PROVE  channel'[stream][i].at <= channel'[stream][j].at
        OBVIOUS
      <4>1. i \in 1 .. Len(channel'[stream]) /\ i + 1 \in 1 .. j + 1
        BY <2>3
      <4>2. /\ channel'[stream][i] = channel[stream][i + 1] /\ channel'[stream][j] = channel[stream][j + 1]
            /\ j + 1 \in 1 .. Len(channel[stream])
        BY <2>3, <4>1
      <4> QED BY <2>4, <4>1, <4>2 DEF StreamInOrder
    <3>3. ASSUME task[stream] \in {"predict", "audit", "send"}
          PROVE  /\ Before(draft[stream].at)'
                 /\ \A i \in 1 .. Len(channel'[stream]) : channel'[stream][i].at <= draft[stream].at
      <4>1. Before(draft[stream].at) /\ \A i \in 1 .. Len(channel[stream]) : channel[stream][i].at <= draft[stream].at
        BY <2>4, <3>3 DEF StreamInOrder
      <4>2. \A i \in 1 .. Len(channel'[stream]) : channel'[stream][i].at <= draft[stream].at
        BY <2>3, <4>1
      <4> QED BY <1>m, <2>1, <2>3, <2>6, <4>1, <4>2 DEF Before
    <3>4. stream' = stream /\ task' = task /\ draft' = draft
      BY <2>1
    <3> QED BY <3>1, <3>2, <3>3, <3>4 DEF StreamInOrder
  <2> QED BY <2>1, <2>6, <2>7, <2>8, <2>9, <2>10 DEF InOrder
\* A stream that is dropped takes with it what it has not delivered.
<1>d. ASSUME NEW s \in Slot, Close(s), clock' = clock PROVE \A u \in Slot : SlotInOrder(u)'
  <2>1. /\ channel'[s] = << >> /\ open'[s] = FALSE /\ draft' = draft
        /\ \A u \in Slot \ {s} : channel'[u] = channel[u] /\ open'[u] = open[u] /\ task'[u] = task[u]
    BY <1>d, <1>t DEF Close, TypeOK
  <2>2. Len(channel'[s]) = 0
    BY <2>1
  <2> QED BY <1>d, <1>t, <2>1, <2>2 DEF SlotInOrder
<1>9. CASE StreamEnds
  <2>1. /\ UNCHANGED << clock, shown, cache, polled >> /\ Emit(Nothing) /\ pc' = "wait"
        /\ stream' = NoSlot /\ stream \in Slot /\ (Close(stream) \/ UNCHANGED gatewayVars)
    BY <1>9, <1>t DEF StreamEnds, StreamOver, StreamHeld, TypeOK, appVars
  <2>2. EventsInOrder' /\ \A n \in Nat : Before(n) => Before(n)'
    BY <1>n, <1>t, <2>1, EmitInOrder
  <2>3. ShownIsCached' /\ shown.at <= shown'.at /\ PollInOrder'
    BY <1>n, <1>t, <2>1 DEF ShownIsCached, PollInOrder
  <2>4. Before(clock)'
    BY <1>n, <1>t, <2>1, <2>2 DEF Before
  <2>5. \A s \in Slot : SlotInOrder(s)'
    <3>1. CASE UNCHANGED gatewayVars
      BY <1>t, <2>1, <3>1 DEF SlotInOrder, gatewayVars
    <3> QED BY <1>d, <2>1, <3>1
  <2> QED BY <2>1, <2>2, <2>3, <2>4, <2>5 DEF InOrder
<1>10. CASE PollStatus
  <2>1. /\ UNCHANGED << gatewayVars, stream, events, shown, cache >> /\ stream = NoSlot
        /\ clock' = Later /\ polled' = Taken
    BY <1>10, <1>t DEF PollStatus, StreamHeld, appVars
  <2>2. ShownIsCached' /\ EventsInOrder' /\ shown.at <= shown'.at
    <3>1. UNCHANGED << events, shown, cache >>
      BY <2>1
    <3>2. EventsInOrder'
      BY <1>t, <3>1 DEF EventsInOrder
    <3> QED BY <1>n, <1>t, <3>1, <3>2 DEF ShownIsCached
  <2>3. Before(clock)' /\ PollInOrder'
    BY <1>n, <1>t, <2>1 DEF Before, PollInOrder
  <2>4. \A s \in Slot : SlotInOrder(s)'
    BY <1>m, <1>n, <1>t, <2>1 DEF SlotInOrder, gatewayVars
  <2> QED BY <2>1, <2>2, <2>3, <2>4 DEF InOrder
<1>11. CASE PollPredict
  <2>1. /\ UNCHANGED << clock, gatewayVars, stream, shown, cache >> /\ stream = NoSlot
        /\ Emit(polled) /\ pc = "pollPredict" /\ pc' = "wait" /\ polled' = Nothing
    BY <1>11, <1>t DEF PollPredict, StreamHeld, appVars
  <2>2. Before(polled.at) /\ polled.at <= clock
    BY <1>t, <2>1 DEF PollInOrder
  <2>3. EventsInOrder' /\ \A n \in Nat : Before(n) /\ polled.at <= n => Before(n)'
    BY <1>p, <1>t, <2>1, <2>2, EmitInOrder
  <2>4. ShownIsCached' /\ shown.at <= shown'.at /\ PollInOrder'
    BY <1>n, <1>t, <2>1 DEF ShownIsCached, PollInOrder
  <2>5. Before(clock)'
    BY <1>n, <1>t, <2>1, <2>2, <2>3 DEF Before
  <2> QED BY <1>b, <2>1, <2>3, <2>4, <2>5
<1>12. CASE AppStep
  <2>1. TakeEvent /\ events # << >>
    BY <1>12 DEF AppStep, ApplySnapshot, ApplyUnsaved, ApplyDegraded, TakeEvent
  <2>2. UNCHANGED << clock, gatewayVars, stream, polled, pc >>
    BY <2>1 DEF TakeEvent, clientVars
  <2>3. Head(events) \in Snapshot
    BY <1>p, <2>1, HeadTail
  <2>4. \/ Latest(cache') = Latest(cache)
        \/ Head(events) # Nothing /\ Latest(cache') = Head(events)
    <3>1. CASE ApplySnapshot
      <4>1. Head(events) # Nothing /\ cache' = Saved(cache, Head(events))
        BY <3>1 DEF ApplySnapshot
      <4> QED BY <1>p, <2>3, <4>1, SavedIsLatest
    <3>2. CASE ApplyUnsaved
      <4>1. Head(events) # Nothing /\ cache' \in {cache, Append(cache, Head(events))}
        BY <3>2 DEF ApplyUnsaved
      <4>2. Latest(Append(cache, Head(events))) = Head(events)
        BY <1>p, <2>3, LatestAppended
      <4> QED BY <4>1, <4>2
    <3>3. CASE ApplyDegraded
      BY <3>3 DEF ApplyDegraded
    <3> QED BY <1>12, <3>1, <3>2, <3>3 DEF AppStep
  <2>5. /\ EventsInOrder' /\ Latest(cache).at <= Latest(cache').at
        /\ \A n \in Nat : Before(n) => Before(n)'
    BY <1>t, <2>1, <2>4, TakeInOrder
  <2>6. shown' \in {shown, Latest(cache')} \/ (shown = Nothing /\ shown' = Nothing)
    <3>1. CASE ApplySnapshot
      BY <1>p, <2>3, <3>1, SavedIsLatest DEF ApplySnapshot
    <3>2. CASE MarkDegraded
      BY <3>2 DEF MarkDegraded
    <3> QED BY <1>12, <3>1, <3>2 DEF AppStep, ApplyUnsaved, ApplyDegraded
  <2>7. Latest(cache').at \in Nat
    BY <1>t, LatestTypes DEF TypeOK, Snapshot
  <2>8. ShownIsCached' /\ shown.at <= shown'.at
    BY <1>n, <1>t, <2>5, <2>6, <2>7 DEF ShownIsCached
  <2>9. PollInOrder'
    BY <1>n, <1>t, <2>2, <2>5 DEF PollInOrder, Before
  <2>10. Before(clock)'
    BY <1>n, <1>t, <2>2, <2>5 DEF Before
  <2> QED BY <1>b, <2>2, <2>5, <2>8, <2>9, <2>10
<1>13. CASE Restart
  <2>1. /\ UNCHANGED clock /\ events' = << >> /\ Len(events') = 0
        /\ pc' = "connect" /\ stream' = NoSlot /\ polled' = Nothing /\ shown' = Latest(cache)
    BY <1>13 DEF Restart
  <2>2. Latest(cache') = Latest(cache)
    <3>1. CASE cache = << >>
      BY <1>13, <3>1 DEF Restart
    <3>2. CASE cache # << >>
      <4>1. Last(cache) = Latest(cache) /\ Last(cache) \in Snapshot
        BY <1>p, <3>2, LatestTypes DEF Latest
      <4> QED BY <1>13, <1>p, <3>2, <4>1, SavedIsLatest DEF Restart
    <3> QED BY <3>1, <3>2
  <2>3. ShownIsCached' /\ shown.at <= shown'.at
    BY <1>n, <1>t, <2>1, <2>2 DEF ShownIsCached
  <2>4. Before(clock)' /\ EventsInOrder' /\ PollInOrder'
    BY <1>n, <1>t, <2>1, <2>2 DEF Before, EventsInOrder, PollInOrder
  <2>5. \A s \in Slot : SlotInOrder(s)'
    BY <1>13, <1>t, <2>1 DEF Restart, SlotInOrder, gatewayVars
  <2> QED BY <2>1, <2>3, <2>4, <2>5 DEF InOrder
\* The stream of a subscription without a client.
<1>15. ASSUME NEW s \in Slot, SendToNobody(s) \/ Notice(s) PROVE InOrder' /\ shown.at <= shown'.at
  <2>1. /\ UNCHANGED << clock, stream, polled, events, shown, cache, pc, draft >> /\ stream # s
        /\ open[s]
    BY <1>15 DEF SendToNobody, Notice, Close, clientVars, appVars
  <2>2. \A u \in Slot \ {s} : channel'[u] = channel[u] /\ open'[u] = open[u] /\ task'[u] = task[u]
    BY <1>15, <1>t DEF SendToNobody, Notice, Close, TypeOK
  <2>3. ShownIsCached' /\ Before(clock)' /\ EventsInOrder' /\ PollInOrder' /\ shown.at <= shown'.at
    BY <1>n, <1>t, <2>1 DEF ShownIsCached, Before, EventsInOrder, PollInOrder
  <2>4. stream' # NoSlot => StreamInOrder(stream)'
    <3> SUFFICES ASSUME stream # NoSlot PROVE StreamInOrder(stream)'
      BY <2>1
    <3>1. stream \in Slot \ {s} /\ StreamInOrder(stream)
      BY <1>t, <2>1 DEF TypeOK
    <3>2. channel'[stream] = channel[stream] /\ task'[stream] = task[stream]
      BY <2>2, <3>1
    <3> QED BY <2>1, <3>1, <3>2 DEF StreamInOrder, Before
  <2>5. \A u \in Slot : SlotInOrder(u)'
    <3>1. CASE Notice(s)
      BY <1>d, <2>1, <3>1 DEF Notice
    <3>2. CASE SendToNobody(s)
      <4>1. /\ channel[s] \in Seq(Snapshot) /\ channel[s] # << >>
            /\ channel'[s] = Tail(channel[s]) /\ open' = open /\ task' = task
        BY <1>p, <1>t, <3>2 DEF SendToNobody, TypeOK
      <4>2. \A i \in 1 .. Len(channel'[s]) :
              channel'[s][i] = channel[s][i + 1] /\ i + 1 \in 1 .. Len(channel[s])
        BY <4>1, HeadTail
      <4>3. SlotInOrder(s)'
        BY <1>t, <2>1, <4>1, <4>2 DEF SlotInOrder
      <4>4. \A u \in Slot \ {s} : SlotInOrder(u)'
        BY <1>t, <2>1, <2>2 DEF SlotInOrder
      <4> QED BY <4>3, <4>4
    <3> QED BY <1>15, <3>1, <3>2
  <2> QED BY <2>3, <2>4, <2>5 DEF InOrder
<1> QED
  BY <1>1, <1>2, <1>3, <1>4, <1>5, <1>6, <1>7, <1>8, <1>9, <1>10, <1>11, <1>12, <1>13, <1>14, <1>15
  DEF Next, TaskStep, ClientStep

LEMMA InitOrder == Init => OrderInv
<1> SUFFICES ASSUME Init PROVE OrderInv
  OBVIOUS
<1>1. /\ Nothing.at = 0 /\ Latest(cache) = Nothing /\ Len(events) = 0 /\ clock = 0
      /\ shown = Nothing /\ polled = Nothing /\ stream = NoSlot /\ pc = "connect"
      /\ \A s \in Slot : draft[s] = Nothing /\ channel[s] = << >> /\ Len(channel[s]) = 0 /\ ~ open[s]
  BY DEF Init, Latest, Nothing
<1>2. ShownIsCached /\ Before(clock) /\ EventsInOrder /\ PollInOrder
  BY <1>1 DEF ShownIsCached, Before, EventsInOrder, PollInOrder
<1>3. \A s \in Slot : SlotInOrder(s)
  BY <1>1 DEF SlotInOrder
<1> QED BY <1>1, <1>2, <1>3, InitTypes DEF OrderInv, TypeInv, StreamHeld, InOrder

\* What is on the screen is in the cache, or something newer is, whatever failed
\* (apply_snapshot saves before it shows).
THEOREM ShownAlwaysCached == Spec => []ShownIsCached
<1>1. OrderInv => ShownIsCached
  BY DEF OrderInv, InOrder
<1> QED BY <1>1, InitOrder, NextOrder, PTL DEF Spec

\* The screen never goes back in time, not through a reconnect, the polling
\* fallback, a failing cache or a restart of the terminal.
THEOREM NeverGoesBack == Spec => NeverBackwards
<1>1. OrderInv /\ [Next]_vars => [shown'.at >= shown.at]_vars
  <2> SUFFICES ASSUME OrderInv, [Next]_vars PROVE shown'.at >= shown.at
    OBVIOUS
  <2>1. shown.at <= shown'.at /\ TypeOK /\ TypeOK'
    BY NextOrder, NextTypes DEF OrderInv, TypeInv
  <2> QED BY <2>1 DEF TypeOK, Snapshot
<1> QED BY <1>1, InitOrder, NextOrder, PTL DEF Spec, NeverBackwards
-----------------------------------------------------------------------------
(* A hard kill on the screen is over *)

Over(x) == x.level = "hard" => x.switches < switches

\* Taken when the level was as it is, or before its latest change.
Recent(x) == x.switches <= switches /\ (x.switches = switches => x.level = level)

AppOver ==
  /\ Over(shown) /\ Over(Latest(cache))
  /\ \A i \in 1 .. Len(events) : Over(events[i])

SlotOver(s) ==
  /\ \A i \in 1 .. Len(channel[s]) : Over(channel[s][i])
  /\ task[s] = "predict" => Recent(draft[s])
  /\ task[s] \in {"audit", "send"} => Over(draft[s])

PollOver == pc = "pollPredict" => Recent(polled)

OverInv == TypeInv /\ AppOver /\ (\A s \in Slot : SlotOver(s)) /\ PollOver

\* A prediction passes only when the level is not HARD.
LEMMA PassedIsOver ==
  ASSUME TypeOK, NEW x \in Snapshot, Recent(x), level # "hard"
  PROVE  Over(x)
  BY DEF TypeOK, Snapshot, Recent, Over

LEMMA EmitOver ==
  ASSUME TypeOK, AppOver, NEW x \in Snapshot, Emit(x), Over(x), UNCHANGED << shown, cache, switches >>
  PROVE  AppOver'
<1>1. /\ events' = Append(events, x) /\ events \in Seq(Snapshot)
  BY DEF Emit, TypeOK
<1>2. /\ Len(events) \in Nat /\ Len(events') = Len(events) + 1 /\ events'[Len(events) + 1] = x
      /\ \A i \in 1 .. Len(events) : events'[i] = events[i]
  BY <1>1, Appended
<1> QED BY <1>2 DEF AppOver, Over

LEMMA NextOver == OverInv /\ [Next]_vars => OverInv'
<1> SUFFICES ASSUME OverInv, [Next]_vars
             PROVE  AppOver' /\ (\A s \in Slot : SlotOver(s)') /\ PollOver'
  BY NextTypes, NextHeld DEF OverInv, TypeInv
<1> USE DEF Goto, Move
<1>t. /\ TypeOK /\ StreamHeld /\ AppOver /\ PollOver
      /\ \A s \in Slot : SlotOver(s)
  BY DEF OverInv, TypeInv
<1>p. /\ polled \in Snapshot /\ events \in Seq(Snapshot) /\ cache \in Seq(Snapshot)
      /\ Nothing \in Snapshot /\ Over(Nothing) /\ Recent(Taken)
      /\ level \in K!Level /\ switches \in Nat
      /\ \A s \in Slot : draft[s] \in Snapshot /\ channel[s] \in Seq(Snapshot)
  BY <1>t, SnapshotTypes DEF TypeOK, Over, Recent, Nothing, Taken
<1>a. ASSUME UNCHANGED << backendVars, shown, cache, events >> PROVE AppOver'
  BY <1>a, <1>t DEF AppOver, Over, backendVars
<1>b. ASSUME UNCHANGED << backendVars, task, draft, channel >> PROVE \A s \in Slot : SlotOver(s)'
  BY <1>b, <1>t DEF SlotOver, Over, Recent, backendVars
<1>c. ASSUME UNCHANGED << backendVars, polled >>, pc' = "pollPredict" => pc = "pollPredict" PROVE PollOver'
  BY <1>c, <1>t DEF PollOver, Recent, backendVars
<1>d. ASSUME NEW s \in Slot, Close(s), UNCHANGED backendVars PROVE \A u \in Slot : SlotOver(u)'
  <2>1. /\ channel'[s] = << >> /\ Len(<< >>) = 0 /\ draft' = draft
        /\ \A u \in Slot \ {s} : channel'[u] = channel[u]
        /\ \A u \in Slot : task'[u] \in {"predict", "audit", "send"} => task'[u] = task[u]
    BY <1>d, <1>t DEF Close, TypeOK
  <2>2. Len(channel'[s]) = 0
    BY <2>1
  <2> QED BY <1>d, <1>t, <2>1, <2>2 DEF SlotOver, Over, Recent, backendVars
<1>1. ASSUME NEW action \in Switches, SwitchLevel(action)
      PROVE  AppOver' /\ (\A s \in Slot : SlotOver(s)') /\ PollOver'
  <2>1. /\ switches' = switches + 1
        /\ UNCHANGED << task, draft, channel, shown, cache, events, pc, polled >>
    BY <1>1 DEF SwitchLevel, gatewayVars, clientVars, appVars
  <2>2. \A x \in Snapshot : (Over(x) => Over(x)') /\ (Recent(x) => Recent(x)')
    BY <1>p, <2>1 DEF Over, Recent, Snapshot
  <2>3. /\ shown \in Snapshot /\ Latest(cache) \in Snapshot
        /\ \A i \in 1 .. Len(events) : events[i] \in Snapshot
        /\ \A s \in Slot : \A i \in 1 .. Len(channel[s]) : channel[s][i] \in Snapshot
    BY <1>t, OrderTypes, LatestTypes DEF TypeOK
  <2>4. AppOver'
    <3>1. Over(shown)' /\ Over(Latest(cache))'
      BY <1>t, <2>1, <2>2, <2>3 DEF AppOver, Over
    <3>2. \A i \in 1 .. Len(events') : Over(events[i])'
      BY <1>t, <2>1, <2>2, <2>3 DEF AppOver, Over
    <3> QED BY <3>1, <3>2 DEF AppOver
  <2>5. \A s \in Slot : SlotOver(s)'
    <3> SUFFICES ASSUME NEW s \in Slot PROVE SlotOver(s)'
      OBVIOUS
    <3>1. \A i \in 1 .. Len(channel'[s]) : Over(channel[s][i])'
      BY <1>t, <2>1, <2>2, <2>3 DEF SlotOver, Over
    <3>2. (Recent(draft[s]) => Recent(draft[s])') /\ (Over(draft[s]) => Over(draft[s])')
      BY <1>p, <2>1, <2>2 DEF Over, Recent
    <3> QED BY <1>t, <2>1, <3>1, <3>2 DEF SlotOver
  <2>6. PollOver'
    BY <1>p, <1>t, <2>1, <2>2 DEF PollOver, Recent
  <2> QED BY <2>4, <2>5, <2>6
<1>2. ASSUME NEW s \in Slot, TaskStep(s)
      PROVE  AppOver' /\ (\A u \in Slot : SlotOver(u)') /\ PollOver'
  <2>1. UNCHANGED << backendVars, shown, cache, events, polled, pc >>
    BY <1>2 DEF TaskStep, ReadStatus, Predict, Audit, BuildFails, Send, SendError, Wake, clientVars, appVars
  <2>2. AppOver' /\ PollOver'
    BY <1>a, <1>c, <2>1
  <2>3. ASSUME NEW u \in Slot PROVE SlotOver(u)'
    <3>1. CASE ReadStatus(s)
      <4>1. channel' = channel /\ (u # s => task'[u] = task[u] /\ draft'[u] = draft[u])
            /\ (u = s => task'[u] = "predict" /\ draft'[u] = Taken)
        BY <1>t, <3>1 DEF ReadStatus, TypeOK
      <4> QED BY <1>p, <1>t, <2>1, <4>1 DEF SlotOver, Over, Recent, backendVars
    <3>2. CASE Predict(s)
      <4>1. channel' = channel /\ draft' = draft /\ (u # s => task'[u] = task[u])
            /\ (u = s => task'[u] = "audit" /\ task[u] = "predict") /\ level # "hard"
        BY <1>t, <3>2 DEF Predict, TypeOK
      <4>2. u = s => Over(draft[u])
        BY <1>p, <1>t, <4>1, PassedIsOver DEF SlotOver
      <4> QED BY <1>t, <2>1, <4>1, <4>2 DEF SlotOver, Over, Recent, backendVars
    <3>3. CASE Audit(s) \/ Wake(s)
      <4>1. channel' = channel /\ draft' = draft /\ (u # s => task'[u] = task[u])
            /\ (u = s => (task'[u] = "send" /\ task[u] = "audit") \/ task'[u] = "build")
        BY <1>t, <3>3 DEF Audit, Wake, TypeOK
      <4> QED BY <1>t, <2>1, <4>1 DEF SlotOver, Over, Recent, backendVars
    <3>4. CASE (Finish(s) /\ UNCHANGED channel) \/ BuildFails(s)
      <4>1. channel' = channel /\ (u # s => task'[u] = task[u] /\ draft'[u] = draft[u])
            /\ (u = s => task'[u] \in {"none", "done", "fail"})
        BY <1>t, <3>4 DEF Finish, BuildFails, TypeOK
      <4> QED BY <1>t, <2>1, <4>1 DEF SlotOver, Over, Recent, backendVars
    <3>5. CASE /\ Goto(s, "send", "sleep")
               /\ channel' = [channel EXCEPT ![s] = Append(@, draft[s])]
               /\ draft' = [draft EXCEPT ![s] = Nothing]
      <4>1. CASE u # s
        <5>1. channel'[u] = channel[u] /\ task'[u] = task[u] /\ draft'[u] = draft[u]
          BY <1>t, <3>5, <4>1 DEF TypeOK
        <5> QED BY <1>t, <2>1, <5>1 DEF SlotOver, Over, Recent, backendVars
      <4>2. CASE u = s
        <5>1. task'[u] = "sleep" /\ task[u] = "send" /\ channel'[u] = Append(channel[u], draft[u])
          BY <1>t, <3>5, <4>2 DEF TypeOK
        <5>2. /\ Len(channel'[u]) = Len(channel[u]) + 1 /\ Len(channel[u]) \in Nat
              /\ channel'[u][Len(channel[u]) + 1] = draft[u]
              /\ \A i \in 1 .. Len(channel[u]) : channel'[u][i] = channel[u][i]
          BY <1>p, <5>1, Appended
        <5> QED BY <1>t, <2>1, <5>1, <5>2 DEF SlotOver, Over, backendVars
      <4> QED BY <4>1, <4>2
    <3> QED BY <1>2, <3>1, <3>2, <3>3, <3>4, <3>5 DEF TaskStep, SendError, Send
  <2> QED BY <2>2, <2>3
<1>3. CASE Connect \/ EndWait \/ PressRefresh \/ UNCHANGED vars
  <2>1. /\ UNCHANGED << backendVars, shown, cache, events, task, draft, channel, polled >>
        /\ pc' = "pollPredict" => pc = "pollPredict"
    BY <1>3 DEF Connect, EndWait, PressRefresh, gatewayVars, clientVars, appVars, vars
  <2> QED BY <1>a, <1>b, <1>c, <2>1
\* A new task has no snapshot yet.
<1>s. ASSUME NEW s \in Slot, Spawn(s), UNCHANGED backendVars PROVE \A u \in Slot : SlotOver(u)'
  <2>1. UNCHANGED << draft, channel >> /\ \A u \in Slot : task'[u] = task[u] \/ task'[u] = "build"
    BY <1>s, <1>t DEF Spawn, TypeOK
  <2> QED BY <1>s, <1>t, <2>1 DEF SlotOver, Over, Recent, backendVars
<1>4. CASE ConnectFails \/ SubscribeFails \/ PollFails
  <2>1. /\ UNCHANGED << backendVars, shown, cache >> /\ Emit(Nothing)
        /\ pc' # "pollPredict"
    BY <1>4 DEF ConnectFails, SubscribeFails, PollFails, appVars
  <2>2. \A s \in Slot : SlotOver(s)'
    <3>1. UNCHANGED << task, draft, channel >> \/ \E s \in Slot : Spawn(s)
      BY <1>4 DEF ConnectFails, SubscribeFails, PollFails, gatewayVars
    <3> QED BY <1>b, <1>s, <2>1, <3>1
  <2> QED BY <1>p, <1>t, <2>1, <2>2, EmitOver DEF PollOver, backendVars
<1>5. ASSUME NEW s \in Slot, Subscribe(s)
      PROVE  AppOver' /\ (\A u \in Slot : SlotOver(u)') /\ PollOver'
  <2>1. UNCHANGED << backendVars, shown, cache, events, polled >> /\ pc' = "stream" /\ Spawn(s)
    BY <1>5 DEF Subscribe, appVars
  <2> QED BY <1>a, <1>c, <1>s, <2>1
<1>6. CASE Receive \/ DecodeFails
  <2>1. /\ stream \in Slot /\ channel[stream] # << >> /\ pc' = pc /\ UNCHANGED polled
        /\ UNCHANGED << backendVars, shown, cache, task, draft >>
        /\ Emit(Head(channel[stream])) \/ Emit(Nothing)
        /\ channel' = [channel EXCEPT ![stream] = Tail(channel[stream])]
    BY <1>6, <1>t DEF Receive, DecodeFails, StreamHeld, TypeOK, clientVars, appVars
  <2> DEFINE q == channel[stream]
             rest == channel'[stream]
  <2>2. q \in Seq(Snapshot) /\ q # << >> /\ rest = Tail(q)
    BY <1>p, <1>t, <2>1 DEF TypeOK
  <2>3. \A i \in 1 .. Len(q) : Over(q[i])
    BY <1>t, <2>1 DEF SlotOver
  <2> HIDE DEF q, rest
  <2>4. /\ Head(q) = q[1] /\ 1 \in 1 .. Len(q) /\ Head(q) \in Snapshot
        /\ \A i \in 1 .. Len(rest) : rest[i] = q[i + 1] /\ i + 1 \in 1 .. Len(q)
    BY <2>2, HeadTail
  <2>5. AppOver'
    <3>1. Over(Head(q)) /\ (Emit(Head(q)) \/ Emit(Nothing))
      BY <2>1, <2>3, <2>4 DEF q
    <3> QED BY <1>p, <1>t, <2>1, <2>4, <3>1, EmitOver DEF backendVars
  <2>6. ASSUME NEW u \in Slot PROVE SlotOver(u)'
    <3>1. CASE u = stream
      <4>1. \A i \in 1 .. Len(rest) : Over(rest[i])
        BY <2>3, <2>4
      <4>2. \A i \in 1 .. Len(channel'[u]) : Over(channel[u][i])'
        BY <2>1, <3>1, <4>1 DEF rest, Over, backendVars
      <4> QED BY <1>t, <2>1, <4>2 DEF SlotOver, Over, Recent, backendVars
    <3>2. CASE u # stream
      <4>1. channel'[u] = channel[u]
        BY <1>t, <2>1, <3>2 DEF TypeOK
      <4> QED BY <1>t, <2>1, <4>1 DEF SlotOver, Over, Recent, backendVars
    <3> QED BY <3>1, <3>2
  <2> QED BY <1>c, <2>1, <2>5, <2>6
<1>7. CASE StreamEnds
  <2>1. /\ UNCHANGED << backendVars, shown, cache >> /\ Emit(Nothing) /\ pc' = "wait"
        /\ stream \in Slot /\ (Close(stream) \/ UNCHANGED << task, draft, channel >>)
    BY <1>7, <1>t DEF StreamEnds, StreamOver, StreamHeld, TypeOK, gatewayVars, appVars
  <2>2. \A s \in Slot : SlotOver(s)'
    BY <1>b, <1>d, <2>1
  <2> QED BY <1>p, <1>t, <2>1, <2>2, EmitOver DEF PollOver, backendVars
<1>8. CASE PollStatus
  <2>1. /\ UNCHANGED << backendVars, shown, cache, events, task, draft, channel >> /\ polled' = Taken
    BY <1>8 DEF PollStatus, gatewayVars, appVars
  <2>2. PollOver'
    BY <1>p, <2>1 DEF PollOver, Recent, backendVars
  <2> QED BY <1>a, <1>b, <2>1, <2>2
<1>9. CASE PollPredict
  <2>1. /\ UNCHANGED << backendVars, shown, cache, task, draft, channel >> /\ Emit(polled)
        /\ pc = "pollPredict" /\ pc' = "wait" /\ level # "hard"
    BY <1>9 DEF PollPredict, gatewayVars, appVars
  <2>2. Over(polled)
    BY <1>p, <1>t, <2>1, PassedIsOver DEF PollOver
  <2> QED BY <1>b, <1>p, <1>t, <2>1, <2>2, EmitOver DEF PollOver, backendVars
<1>10. CASE AppStep
  <2>1. /\ events # << >> /\ events' = Tail(events)
        /\ UNCHANGED << backendVars, task, draft, channel, polled, pc >>
    BY <1>10 DEF AppStep, ApplySnapshot, ApplyUnsaved, ApplyDegraded, TakeEvent, gatewayVars, clientVars
  <2>2. /\ Head(events) = events[1] /\ 1 \in 1 .. Len(events) /\ Head(events) \in Snapshot
        /\ \A i \in 1 .. Len(events') : events'[i] = events[i + 1] /\ i + 1 \in 1 .. Len(events)
    BY <1>p, <2>1, HeadTail
  <2>3. Over(Head(events)) /\ Over(shown) /\ Over(Latest(cache))
    BY <1>t, <2>2 DEF AppOver
  <2>4. Latest(cache') \in {Latest(cache), Head(events)}
    <3>1. /\ Latest(Saved(cache, Head(events))) = Head(events)
          /\ Latest(Append(cache, Head(events))) = Head(events)
      BY <1>p, <2>2, SavedIsLatest, LatestAppended
    <3>2. cache' \in {cache, Saved(cache, Head(events)), Append(cache, Head(events))}
      BY <1>10 DEF AppStep, ApplySnapshot, ApplyUnsaved, ApplyDegraded
    <3> QED BY <3>1, <3>2
  <2>5. shown' \in {shown, Latest(cache'), Nothing}
    <3>1. CASE ApplySnapshot
      BY <1>p, <2>2, <3>1, SavedIsLatest DEF ApplySnapshot
    <3>2. CASE MarkDegraded
      BY <3>2 DEF MarkDegraded
    <3> QED BY <1>10, <3>1, <3>2 DEF AppStep, ApplyUnsaved, ApplyDegraded
  <2>6. Over(Latest(cache))' /\ Over(shown)'
    BY <1>p, <2>1, <2>3, <2>4, <2>5 DEF Over, backendVars
  <2>7. \A i \in 1 .. Len(events') : Over(events[i])'
    BY <1>t, <2>1, <2>2 DEF AppOver, Over, backendVars
  <2>8. AppOver'
    BY <2>6, <2>7 DEF AppOver
  <2> QED BY <1>b, <1>c, <2>1, <2>8
<1>11. CASE Restart
  <2>1. /\ UNCHANGED backendVars /\ events' = << >> /\ Len(<< >>) = 0
        /\ pc' = "connect" /\ shown' = Latest(cache)
    BY <1>11 DEF Restart
  <2>2. Latest(cache') = Latest(cache)
    <3>1. CASE cache = << >>
      BY <1>11, <3>1 DEF Restart
    <3>2. CASE cache # << >>
      <4>1. Last(cache) = Latest(cache) /\ Last(cache) \in Snapshot
        BY <1>p, <3>2, LatestTypes DEF Latest
      <4> QED BY <1>11, <1>p, <3>2, <4>1, SavedIsLatest DEF Restart
    <3> QED BY <3>1, <3>2
  <2>3. AppOver' /\ PollOver'
    BY <1>t, <2>1, <2>2 DEF AppOver, PollOver, Over, backendVars
  <2>4. \A s \in Slot : SlotOver(s)'
    BY <1>11, <1>b DEF Restart, gatewayVars
  <2> QED BY <2>3, <2>4
\* The stream of a subscription without a client, and a request that hangs.
<1>12. ASSUME NEW s \in Slot, TaskHangs(s) \/ SendToNobody(s) \/ Notice(s)
       PROVE  AppOver' /\ (\A u \in Slot : SlotOver(u)') /\ PollOver'
  <2>1. UNCHANGED << backendVars, shown, cache, events, polled, pc >>
    BY <1>12 DEF TaskHangs, SendToNobody, Notice, clientVars, appVars
  <2>2. \A u \in Slot : SlotOver(u)'
    <3>1. CASE Notice(s)
      BY <1>d, <2>1, <3>1 DEF Notice
    <3>2. CASE TaskHangs(s)
      <4>1. UNCHANGED << draft, channel >> /\ \A u \in Slot : task'[u] = task[u] \/ task'[u] = "hung"
        BY <1>t, <3>2 DEF TaskHangs, TypeOK
      <4> QED BY <1>t, <2>1, <4>1 DEF SlotOver, Over, Recent, backendVars
    <3>3. CASE SendToNobody(s)
      <4>1. /\ channel[s] \in Seq(Snapshot) /\ channel[s] # << >> /\ UNCHANGED << task, draft >>
            /\ channel'[s] = Tail(channel[s]) /\ \A u \in Slot \ {s} : channel'[u] = channel[u]
        BY <1>p, <1>t, <3>3 DEF SendToNobody, TypeOK
      <4>2. \A i \in 1 .. Len(channel'[s]) :
              channel'[s][i] = channel[s][i + 1] /\ i + 1 \in 1 .. Len(channel[s])
        BY <4>1, HeadTail
      <4>3. SlotOver(s)'
        BY <1>t, <2>1, <4>1, <4>2 DEF SlotOver, Over, Recent, backendVars
      <4>4. \A u \in Slot \ {s} : SlotOver(u)'
        BY <1>t, <2>1, <4>1 DEF SlotOver, Over, Recent, backendVars
      <4> QED BY <4>3, <4>4
    <3> QED BY <1>12, <3>1, <3>2, <3>3
  <2> QED BY <1>a, <1>c, <2>1, <2>2
<1> QED
  BY <1>1, <1>2, <1>3, <1>4, <1>5, <1>6, <1>7, <1>8, <1>9, <1>10, <1>11, <1>12 DEF Next, ClientStep

\* A snapshot that names a hard kill was begun under it and finished after the
\* level had changed again (service.predict refuses while it is in effect).
THEOREM HardAlwaysOver == Spec => []HardIsOver
<1>1. Init => OverInv
  <2> SUFFICES ASSUME Init PROVE OverInv
    OBVIOUS
  <2>1. /\ Over(Nothing) /\ shown = Nothing /\ Latest(cache) = Nothing /\ Len(events) = 0
        /\ pc = "connect" /\ \A s \in Slot : Len(channel[s]) = 0 /\ task[s] = "none"
    BY DEF Init, Latest, Over, Nothing
  <2> QED BY <2>1, InitTypes DEF OverInv, TypeInv, StreamHeld, AppOver, SlotOver, PollOver, Init
<1>2. OverInv => HardIsOver
  <2> SUFFICES ASSUME OverInv, NEW x \in {shown, Latest(cache)} \cup ToSet(events) PROVE Over(x)
    BY DEF HardIsOver, Over
  <2>1. CASE x \in {shown, Latest(cache)}
    BY <2>1 DEF OverInv, AppOver
  <2>2. CASE x \in ToSet(events)
    <3>1. PICK i \in DOMAIN events : x = events[i]
      BY <2>2 DEF ToSet
    <3>2. i \in 1 .. Len(events)
      BY DEF OverInv, TypeInv, TypeOK
    <3> QED BY <3>1, <3>2 DEF OverInv, AppOver
  <2> QED BY <2>1, <2>2
<1> QED BY <1>1, <1>2, NextOver, PTL DEF Spec
=============================================================================
