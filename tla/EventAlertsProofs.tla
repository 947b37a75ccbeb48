------------------------- MODULE EventAlertsProofs --------------------------
(***************************************************************************)
(* Proofs about the alert tasks and the reader of the news, for any number *)
(* of events, severities, subscribers, changes and failures, any page size *)
(* and channels of any size.  The facts about the alerts do not depend on  *)
(* how the backend sorts its list; those about the pages are all about it. *)
(***************************************************************************)
EXTENDS EventAlerts, FiniteSetTheorems, TLAPS

\* A function on the subscribers, a sequence: with whatever they hold.
PerSubscriber(f) == f = [s \in Subscriber |-> f[s]]

IsSequence(c) == c \in Seq(ToSet(c))

\* The strengthening: what was sent is marked as seen, and what is marked as
\* seen was received or waits in the channel; a task that has not started has
\* marked nothing.
IInv ==
  /\ PerSubscriber(pc) /\ PerSubscriber(open)
  /\ PerSubscriber(seen) /\ PerSubscriber(channel) /\ PerSubscriber(got)
  /\ sent \in [Subscriber -> [Event -> Nat]]
  /\ \A s \in Subscriber : IsSequence(channel[s])
  /\ \A s \in Subscriber : pc[s] = "none" => seen[s] = {}
  /\ \A s \in Subscriber, e \in Event : sent[s][e] <= 1 /\ (sent[s][e] > 0 => e \in seen[s])
  /\ SeenArrives
-----------------------------------------------------------------------------
LEMMA SeqMembers ==
  ASSUME NEW S, NEW T, NEW c \in Seq(S), \A i \in 1 .. Len(c) : c[i] \in T
  PROVE  c \in Seq(T)
  OBVIOUS

LEMMA EmptyIsSequence == IsSequence(<< >>) /\ ToSet(<< >>) = {}
  BY DEF IsSequence, ToSet

\* What a channel holds after a send ...
LEMMA AppendHolds ==
  ASSUME NEW c, IsSequence(c), NEW x
  PROVE  IsSequence(Append(c, x)) /\ ToSet(Append(c, x)) = ToSet(c) \cup {x}
<1> DEFINE T == ToSet(c) \cup {x}
<1>1. c \in Seq(T) /\ x \in T
  BY DEF IsSequence
<1>2. Append(c, x) \in Seq(T) /\ Len(Append(c, x)) = Len(c) + 1 /\ Len(c) \in Nat
      /\ Append(c, x)[Len(c) + 1] = x /\ \A i \in 1 .. Len(c) : Append(c, x)[i] = c[i]
  BY <1>1
<1>3. DOMAIN c = 1 .. Len(c) /\ DOMAIN Append(c, x) = 1 .. Len(Append(c, x))
  BY <1>1, <1>2
<1>4. ToSet(Append(c, x)) = T
  <2>1. ToSet(Append(c, x)) \subseteq T
    BY <1>1, <1>2, <1>3 DEF ToSet
  <2>2. x \in ToSet(Append(c, x))
    BY <1>2, <1>3 DEF ToSet
  <2>3. ASSUME NEW i \in DOMAIN c PROVE c[i] \in ToSet(Append(c, x))
    BY <1>2, <1>3, <2>3 DEF ToSet
  <2> QED BY <2>1, <2>2, <2>3 DEF ToSet
<1> QED BY <1>2, <1>4 DEF IsSequence

\* ... and after a receive.
LEMMA TailHolds ==
  ASSUME NEW c, IsSequence(c), c # << >>
  PROVE  IsSequence(Tail(c)) /\ ToSet(c) \subseteq {Head(c)} \cup ToSet(Tail(c))
<1> DEFINE T == ToSet(c)
<1>1. c \in Seq(T) /\ Len(c) \in Nat /\ Len(c) > 0 /\ DOMAIN c = 1 .. Len(c)
  BY DEF IsSequence
<1>2. Tail(c) \in Seq(T) /\ Len(Tail(c)) = Len(c) - 1 /\ Head(c) = c[1]
      /\ \A i \in 1 .. Len(c) - 1 : Tail(c)[i] = c[i + 1]
  BY <1>1
<1>3. DOMAIN Tail(c) = 1 .. Len(c) - 1
  BY <1>2
<1>4. IsSequence(Tail(c))
  <2>1. \A i \in 1 .. Len(Tail(c)) : Tail(c)[i] \in ToSet(Tail(c))
    BY <1>2, <1>3 DEF ToSet
  <2> QED BY <1>2, <2>1, SeqMembers DEF IsSequence
<1>5. ASSUME NEW i \in 1 .. Len(c) PROVE c[i] \in {Head(c)} \cup ToSet(Tail(c))
  <2>1. CASE i = 1
    BY <1>2, <2>1
  <2>2. CASE i # 1
    <3>1. i - 1 \in 1 .. Len(c) - 1 /\ Tail(c)[i - 1] = c[i]
      BY <1>1, <1>2, <2>2
    <3> QED BY <1>3, <3>1 DEF ToSet
  <2> QED BY <2>1, <2>2
<1> QED BY <1>1, <1>4, <1>5 DEF ToSet
-----------------------------------------------------------------------------
LEMMA InitHolds == Init => IInv
  BY EmptyIsSequence DEF Init, IInv, PerSubscriber, SeenArrives

\* Send is the one step that sends and marks.
LEMMA SendKeeps ==
  ASSUME IInv, NEW s \in Subscriber, Send(s)
  PROVE  IInv'
<1> DEFINE e == Head(todo[s]).event
<1>1. open[s] /\ e \notin seen[s]
  BY DEF Send, Sending, Put
<1>2. channel' = [channel EXCEPT ![s] = Append(@, e)]
  BY DEF Send, Put
<1>3. seen' = [seen EXCEPT ![s] = @ \cup {e}] /\ UNCHANGED << pc, open, got >>
  BY DEF Send
<1>4. sent' = [sent EXCEPT ![s][e] = @ + 1]
  BY DEF Send
<1>5. pc[s] # "none"
  BY DEF Send, Sending
<1> HIDE DEF e
<1>6. /\ PerSubscriber(pc)' /\ PerSubscriber(open)'
      /\ PerSubscriber(seen)' /\ PerSubscriber(channel)' /\ PerSubscriber(got)'
  BY <1>2, <1>3 DEF IInv, PerSubscriber
<1>7. /\ channel'[s] = Append(channel[s], e) /\ seen'[s] = seen[s] \cup {e}
      /\ \A u \in Subscriber \ {s} : channel'[u] = channel[u] /\ seen'[u] = seen[u]
  BY <1>2, <1>3 DEF IInv, PerSubscriber
<1>8. IsSequence(channel'[s]) /\ ToSet(channel'[s]) = ToSet(channel[s]) \cup {e}
  BY <1>7, AppendHolds DEF IInv
<1>9. (\A u \in Subscriber : IsSequence(channel[u]))'
  BY <1>7, <1>8 DEF IInv
<1>10. (\A u \in Subscriber : pc[u] = "none" => seen[u] = {})'
  BY <1>3, <1>5, <1>7 DEF IInv
<1>11. /\ sent' \in [Subscriber -> [Event -> Nat]]
       /\ \A u \in Subscriber, d \in Event :
            sent'[u][d] = IF u = s /\ d = e THEN sent[u][d] + 1 ELSE sent[u][d]
  <2> DEFINE g == [sent[s] EXCEPT ![e] = @ + 1]
  <2>1. sent' = [sent EXCEPT ![s] = g] /\ sent \in [Subscriber -> [Event -> Nat]]
    BY <1>4 DEF IInv
  <2>2. /\ g \in [Event -> Nat]
        /\ \A d \in Event : g[d] = IF d = e THEN sent[s][d] + 1 ELSE sent[s][d]
    <3>1. sent[s] \in [Event -> Nat]
      BY <2>1
    <3>2. CASE e \in Event
      BY <3>1, <3>2
    <3>3. CASE e \notin Event
      <4>1. g = sent[s]
        BY <3>1, <3>3
      <4> QED BY <3>1, <3>3, <4>1
    <3> QED BY <3>2, <3>3
  <2> HIDE DEF g
  <2> QED BY <2>1, <2>2
<1>12. (\A u \in Subscriber, d \in Event :
          sent[u][d] <= 1 /\ (sent[u][d] > 0 => d \in seen[u]))'
  <2> SUFFICES ASSUME NEW u \in Subscriber, NEW d \in Event
               PROVE  sent'[u][d] <= 1 /\ (sent'[u][d] > 0 => d \in seen'[u])
    OBVIOUS
  <2>1. sent[u][d] \in Nat /\ sent[u][d] <= 1 /\ (sent[u][d] > 0 => d \in seen[u])
    BY DEF IInv
  <2>2. CASE u = s /\ d = e
    BY <1>1, <1>7, <1>11, <2>1, <2>2
  <2>3. CASE ~ (u = s /\ d = e)
    BY <1>7, <1>11, <2>1, <2>3
  <2> QED BY <2>2, <2>3
<1>13. SeenArrives'
  BY <1>3, <1>7, <1>8 DEF IInv, SeenArrives
<1> QED BY <1>6, <1>9, <1>10, <1>11, <1>12, <1>13 DEF IInv

LEMMA ReceiveKeeps ==
  ASSUME IInv, NEW s \in Subscriber, Receive(s)
  PROVE  IInv'
<1>1. /\ channel[s] # << >>
      /\ channel' = [channel EXCEPT ![s] = Tail(@)]
      /\ got' = [got EXCEPT ![s] = @ \cup {Head(channel[s])}]
      /\ UNCHANGED << pc, seen, open, sent >>
  BY DEF Receive
<1>2. PerSubscriber(channel)' /\ PerSubscriber(got)'
  BY <1>1 DEF IInv, PerSubscriber
<1>3. /\ channel'[s] = Tail(channel[s]) /\ got'[s] = got[s] \cup {Head(channel[s])}
      /\ \A u \in Subscriber \ {s} : channel'[u] = channel[u] /\ got'[u] = got[u]
  BY <1>1 DEF IInv, PerSubscriber
<1>4. IsSequence(Tail(channel[s])) /\ ToSet(channel[s]) \subseteq {Head(channel[s])} \cup ToSet(Tail(channel[s]))
  BY <1>1, TailHolds DEF IInv
<1>5. (\A u \in Subscriber : IsSequence(channel[u]))'
  BY <1>3, <1>4 DEF IInv
<1>6. SeenArrives'
  BY <1>1, <1>3, <1>4 DEF IInv, SeenArrives
<1> QED BY <1>1, <1>2, <1>5, <1>6 DEF IInv, PerSubscriber

\* The error enters a channel; nothing is marked.
LEMMA SendErrorKeeps ==
  ASSUME IInv, NEW s \in Subscriber, SendError(s)
  PROVE  IInv'
<1>1. pc' = [pc EXCEPT ![s] = "ended"] /\ pc[s] = "fail" /\ UNCHANGED << seen, open, got, sent >>
  BY DEF SendError, Goto
<1>2. PerSubscriber(pc)' /\ (\A u \in Subscriber : pc[u] = "none" => seen[u] = {})'
  BY <1>1 DEF IInv, PerSubscriber
<1>3. CASE UNCHANGED channel
  BY <1>1, <1>2, <1>3 DEF IInv, PerSubscriber, SeenArrives
<1>4. CASE Put(s, Error)
  <2>1. channel' = [channel EXCEPT ![s] = Append(@, Error)]
    BY <1>4 DEF Put
  <2>2. PerSubscriber(channel)'
    BY <2>1 DEF IInv, PerSubscriber
  <2>3. /\ channel'[s] = Append(channel[s], Error)
        /\ \A u \in Subscriber \ {s} : channel'[u] = channel[u]
    BY <2>1 DEF IInv, PerSubscriber
  <2>4. IsSequence(channel'[s]) /\ ToSet(channel[s]) \subseteq ToSet(channel'[s])
    BY <2>3, AppendHolds DEF IInv
  <2>5. (\A u \in Subscriber : IsSequence(channel[u]))' /\ SeenArrives'
    BY <1>1, <2>3, <2>4 DEF IInv, SeenArrives
  <2> QED BY <1>1, <1>2, <2>2, <2>5 DEF IInv, PerSubscriber
<1> QED BY <1>3, <1>4 DEF SendError

LEMMA NextKeeps == IInv /\ [Next]_vars => IInv'
<1> SUFFICES ASSUME IInv, [Next]_vars PROVE IInv'
  OBVIOUS
<1> USE DEF IInv, PerSubscriber, SeenArrives
<1>1. CASE UNCHANGED alertVars
  BY <1>1 DEF alertVars
<1>2. ASSUME NEW s \in Subscriber, Subscribe(s) PROVE IInv'
  BY <1>2 DEF Subscribe, Goto
<1>3. ASSUME NEW s \in Subscriber, Fetch(s) PROVE IInv'
  BY <1>3 DEF Fetch, Goto
<1>4. ASSUME NEW s \in Subscriber, FetchFails(s) PROVE IInv'
  BY <1>4 DEF FetchFails, Goto
<1>5. ASSUME NEW s \in Subscriber, Skip(s) PROVE IInv'
  BY <1>5 DEF Skip
<1>6. ASSUME NEW s \in Subscriber, SendToNobody(s) PROVE IInv'
  BY <1>6 DEF SendToNobody, Sending
<1>7. ASSUME NEW s \in Subscriber, Tick(s) PROVE IInv'
  BY <1>7 DEF Tick, Goto
<1>8. ASSUME NEW s \in Subscriber, Leave(s) PROVE IInv'
  BY <1>8, EmptyIsSequence DEF Leave
<1> QED
  BY <1>1, <1>2, <1>3, <1>4, <1>5, <1>6, <1>7, <1>8, SendKeeps, ReceiveKeeps, SendErrorKeeps
  DEF Next, TaskStep, vars

\* Every step keeps the invariant, in every behaviour.
LEMMA Invariance == Spec => []IInv
  BY InitHolds, NextKeeps, PTL DEF Spec

\* No subscription is told of an event twice, over all moves, ties and
\* reappearances of the event in the list (subscribe_event_alerts).
THEOREM AlertedOnceAlways == Spec => []AlertedOnce
<1>1. IInv => AlertedOnce
  BY DEF IInv, AlertedOnce
<1> QED BY <1>1, Invariance, PTL

\* An event the task will not send again has reached the subscriber or waits in
\* the channel (subscribe_event_alerts).
THEOREM SeenArrivesAlways == Spec => []SeenArrives
<1>1. IInv => SeenArrives
  BY DEF IInv
<1> QED BY <1>1, Invariance, PTL
-----------------------------------------------------------------------------
(* The list.  Before orders what is listed strictly, so an event is told by *)
(* its rank: how many stand before it.                                      *)

Number == Cardinality(Listed)

LEMMA BeforeOrders ==
  ASSUME NewsTypeOK
  PROVE  /\ \A e \in Event : e \in Nat /\ severity[e] \in Nat /\ score[e] \in Nat
         /\ \A e \in Event : ~ Before(e, e)
         /\ \A d, e \in Event : d # e => Before(d, e) \/ Before(e, d)
         /\ \A c, d, e \in Event : Before(c, d) /\ Before(d, e) => Before(c, e)
<1>1. ASSUME NEW e \in Event PROVE e \in Nat /\ severity[e] \in Nat /\ score[e] \in Nat
  <2>1. severity[e] \in 0 .. Severities /\ score[e] \in 1 .. Scores /\ e \in 1 .. Events
    BY DEF NewsTypeOK, Event
  <2> QED BY <2>1, NewsAssumption
<1>2. \A e \in Event : ~ Before(e, e)
  BY <1>1 DEF Before
<1>3. \A d, e \in Event : d # e => Before(d, e) \/ Before(e, d)
  BY <1>1 DEF Before
<1>4. ASSUME NEW c \in Event, NEW d \in Event, NEW e \in Event, Before(c, d), Before(d, e)
      PROVE  Before(c, e)
  <2>1. /\ severity[c] > severity[d] \/ severity[c] = severity[d]
        /\ severity[d] > severity[e] \/ severity[d] = severity[e]
    BY <1>4 DEF Before
  <2>2. CASE severity[c] = severity[d] /\ severity[d] = severity[e]
    BY <1>1, <1>4, <2>2 DEF Before
  <2>3. CASE severity[c] > severity[d] \/ severity[d] > severity[e]
    <3>1. severity[c] > severity[e]
      BY <1>1, <2>1, <2>3
    <3> QED BY <3>1 DEF Before
  <2> QED BY <2>1, <2>2, <2>3
<1> QED BY <1>1, <1>2, <1>3, <1>4

LEMMA FinitelyMany ==
  ASSUME NewsTypeOK
  PROVE  /\ IsFiniteSet(Listed) /\ Number \in Nat /\ Number <= Events
         /\ Listed \subseteq Event /\ Events \in Nat
<1>1. Events \in Nat /\ Listed \subseteq Event
  BY NewsAssumption DEF Listed
<1>2. IsFiniteSet(Event) /\ Cardinality(Event) = Events
  BY <1>1, FS_Interval DEF Event
<1> QED BY <1>1, <1>2, FS_Subset, FS_CardinalityType DEF Number

LEMMA RankType ==
  ASSUME NewsTypeOK, NEW e \in Listed
  PROVE  Rank(e) \in Nat /\ Rank(e) < Number
<1> DEFINE S == {d \in Listed : Before(d, e)}
<1>1. S \in SUBSET Listed /\ e \notin S
  BY BeforeOrders, FinitelyMany
<1>2. S # Listed
  BY <1>1
<1> HIDE DEF S
<1>3. /\ IsFiniteSet(S) /\ Cardinality(S) <= Cardinality(Listed)
      /\ Cardinality(Listed) = Cardinality(S) => Listed = S
  BY <1>1, FinitelyMany, FS_Subset
<1>4. Cardinality(S) \in Nat
  BY <1>3, FS_CardinalityType
<1>5. Rank(e) = Cardinality(S)
  BY DEF Rank, S
<1> QED BY <1>2, <1>3, <1>4, <1>5, FinitelyMany DEF Number

LEMMA RanksType == NewsTypeOK => \A e \in Listed : Rank(e) \in Nat
  BY RankType

\* Who stands before has the lower rank.
LEMMA RankLess ==
  ASSUME NewsTypeOK, NEW d \in Listed, NEW e \in Listed, Before(d, e)
  PROVE  Rank(d) < Rank(e)
<1> DEFINE S == {c \in Listed : Before(c, d)}
           T == {c \in Listed : Before(c, e)}
<1>1. S \in SUBSET T /\ d \in T /\ d \notin S /\ T \in SUBSET Listed
  BY BeforeOrders, FinitelyMany
<1>2. Rank(d) = Cardinality(S) /\ Rank(e) = Cardinality(T)
  BY DEF Rank
<1> HIDE DEF S, T
<1>3. IsFiniteSet(T)
  BY <1>1, FinitelyMany, FS_Subset
<1>4. /\ Cardinality(S) <= Cardinality(T)
      /\ Cardinality(T) = Cardinality(S) => T = S
  BY <1>1, <1>3, FS_Subset
<1> QED BY <1>1, <1>2, <1>4, RankType

\* Every place is taken.
LEMMA RankTaken ==
  ASSUME NewsTypeOK, NEW k \in Nat, k < Number
  PROVE  \E e \in Listed : Rank(e) = k
<1> DEFINE T == 0 .. Number - 1
           f == [e \in Listed |-> Rank(e)]
<1>1. f \in [Listed -> T]
  BY RankType, FinitelyMany
<1>2. ASSUME NEW d \in Listed, NEW e \in Listed, f[d] = f[e] PROVE d = e
  <2> SUFFICES ASSUME d # e PROVE FALSE
    OBVIOUS
  <2>1. Before(d, e) \/ Before(e, d)
    BY BeforeOrders, FinitelyMany
  <2> QED BY <1>2, <2>1, RankLess, RankType
<1>3. f \in Injection(Listed, T)
  BY <1>1, <1>2 DEF Injection, IsInjective
<1>4. IsFiniteSet(T) /\ Cardinality(T) = Number
  <2>1. Number \in Nat /\ Number - 1 \in Int /\ 0 \in Int
    BY FinitelyMany
  <2> HIDE DEF Number
  <2>2. /\ IsFiniteSet(0 .. Number - 1)
        /\ Cardinality(0 .. Number - 1) = IF 0 > Number - 1 THEN 0 ELSE Number - 1 - 0 + 1
    BY <2>1, FS_Interval
  <2> QED BY <2>1, <2>2
<1> HIDE DEF f, T
<1>5. f \in Surjection(Listed, T)
  BY <1>3, <1>4, FS_Injection DEF Number
<1>6. k \in T
  BY FinitelyMany DEF T
<1>7. \E e \in Listed : f[e] = k
  BY <1>5, <1>6 DEF Surjection
<1> QED BY <1>7 DEF f

Sorted(list) ==
  \A i, j \in 1 .. Number : i < j => Before(list[i], list[j])

LEMMA SortedExists ==
  ASSUME NewsTypeOK
  PROVE  \E list \in [1 .. Number -> Listed] : Sorted(list)
<1> DEFINE list == [i \in 1 .. Number |-> CHOOSE e \in Listed : Rank(e) = i - 1]
<1>1. ASSUME NEW i \in 1 .. Number PROVE list[i] \in Listed /\ Rank(list[i]) = i - 1
  <2>1. i - 1 \in Nat /\ i - 1 < Number
    BY FinitelyMany
  <2>2. \E e \in Listed : Rank(e) = i - 1
    BY <2>1, RankTaken
  <2> QED BY <2>2
<1>2. list \in [1 .. Number -> Listed]
  BY <1>1
<1> HIDE DEF list
<1>3. ASSUME NEW i \in 1 .. Number, NEW j \in 1 .. Number, i < j PROVE Before(list[i], list[j])
  <2>1. /\ list[i] \in Listed /\ list[j] \in Listed
        /\ Rank(list[i]) = i - 1 /\ Rank(list[j]) = j - 1
    BY <1>1
  <2>2. list[i] # list[j] /\ ~ Before(list[j], list[i])
    <3>1. Before(list[j], list[i]) => Rank(list[j]) < Rank(list[i])
      BY <2>1, RankLess
    <3> QED BY <1>3, <2>1, <3>1, FinitelyMany
  <2> QED BY <2>1, <2>2, BeforeOrders, FinitelyMany
<1> QED BY <1>2, <1>3 DEF Sorted

\* On a sorted list an event stands at its rank.
LEMMA PlaceIsRank ==
  ASSUME NewsTypeOK, NEW list \in [1 .. Number -> Listed], Sorted(list), NEW i \in 1 .. Number
  PROVE  Rank(list[i]) = i - 1
<1>N. Number \in Nat /\ IsFiniteSet(Listed) /\ Listed \subseteq Event
  BY FinitelyMany
<1>1. ASSUME NEW j \in 1 .. Number, NEW k \in 1 .. Number, list[j] = list[k] PROVE j = k
  <2>1. list[j] \in Event /\ ~ Before(list[j], list[j])
    BY <1>N, BeforeOrders
  <2>2. ~ j < k /\ ~ k < j
    BY <1>1, <2>1 DEF Sorted
  <2> QED BY <1>N, <2>2
<1>2. list \in Injection(1 .. Number, Listed)
  BY <1>1 DEF Injection, IsInjective
<1>3. Cardinality(1 .. Number) = Cardinality(Listed)
  BY <1>N, FS_Interval DEF Number
<1>4. list \in Surjection(1 .. Number, Listed)
  BY <1>N, <1>2, <1>3, FS_Injection
<1> DEFINE S == {d \in Listed : Before(d, list[i])}
           f == [k \in 1 .. i - 1 |-> list[k]]
<1>5. \A k \in 1 .. i - 1 : k \in 1 .. Number /\ k < i
  BY <1>N
<1>6. f \in [1 .. i - 1 -> S]
  BY <1>5 DEF Sorted
<1>7. f \in Injection(1 .. i - 1, S)
  BY <1>1, <1>5, <1>6 DEF Injection, IsInjective
<1>8. ASSUME NEW d \in S PROVE \E k \in 1 .. i - 1 : f[k] = d
  <2>1. PICK k \in 1 .. Number : list[k] = d
    BY <1>4 DEF Surjection
  <2>2. ~ i < k
    <3>1. ASSUME i < k PROVE FALSE
      <4>1. Before(list[i], d) /\ Before(d, list[i]) /\ d \in Event /\ list[i] \in Event
        BY <1>N, <2>1, <3>1 DEF Sorted
      <4> QED BY <4>1, BeforeOrders
    <3> QED BY <3>1
  <2>3. k # i
    <3>1. Before(d, list[i]) /\ list[i] \in Event
      BY <1>N
    <3> QED BY <2>1, <3>1, BeforeOrders
  <2>4. k \in 1 .. i - 1
    BY <1>N, <2>2, <2>3
  <2> QED BY <2>1, <2>4
<1> HIDE DEF S, f
<1>9. f \in Surjection(1 .. i - 1, S)
  BY <1>6, <1>8 DEF Surjection
<1>10. ExistsBijection(1 .. i - 1, S)
  BY <1>7, <1>9 DEF ExistsBijection, Bijection
<1>11. IsFiniteSet(1 .. i - 1) /\ Cardinality(1 .. i - 1) = i - 1
  <2>1. i - 1 \in Nat
    OBVIOUS
  <2> QED BY <2>1, FS_Interval
<1>12. Cardinality(S) = i - 1
  BY <1>10, <1>11, FS_Bijection
<1> QED BY <1>12 DEF Rank, S

\* What _all_events returns.
LEMMA ListRanks ==
  ASSUME NewsTypeOK
  PROVE  /\ AllEvents \in [1 .. Number -> Listed]
         /\ \A i \in 1 .. Number : Rank(AllEvents[i]) = i - 1
<1>1. AllEvents \in [1 .. Number -> Listed] /\ Sorted(AllEvents)
  BY SortedExists DEF AllEvents, Sorted, Number
<1> QED BY <1>1, PlaceIsRank

\* Where the page at an offset ends.
Upto(from, limit) == IF HasNext(from, limit) THEN from + limit ELSE Number

\* A page holds the events whose ranks lie between its offset and the next.
LEMMA PageRanks ==
  ASSUME NewsTypeOK, NEW from \in Nat, NEW limit \in Nat \ {0}
  PROVE  /\ Page(from, limit) \in Seq(Event)
         /\ \A i \in 1 .. Len(Page(from, limit)) :
              /\ Page(from, limit)[i] \in Listed
              /\ Rank(Page(from, limit)[i]) = from + i - 1
              /\ from + i - 1 < Upto(from, limit)
         /\ \A e \in Listed : from <= Rank(e) /\ Rank(e) < Upto(from, limit) =>
              \E i \in 1 .. Len(Page(from, limit)) : Page(from, limit)[i] = e
<1> DEFINE to == Upto(from, limit)
           page == Page(from, limit)
<1>1. Number \in Nat /\ to \in Nat /\ to <= Number /\ Listed \subseteq Event
  BY FinitelyMany DEF Upto, HasNext, Number
<1>2. AllEvents \in [1 .. Number -> Listed] /\ \A i \in 1 .. Number : Rank(AllEvents[i]) = i - 1
  BY ListRanks
<1>3. AllEvents \in Seq(Listed) /\ Len(AllEvents) = Number
  BY <1>1, <1>2
<1>4. page = SubSeq(AllEvents, from + 1, to)
  BY DEF Page, Upto, Number
<1> HIDE DEF to, page
<1>5. /\ page \in Seq(Listed) /\ Len(page) \in Nat
      /\ \A i \in 1 .. Len(page) : from + i \in 1 .. to /\ page[i] = AllEvents[from + i]
      /\ \A k \in 1 .. to : k > from => k - from \in 1 .. Len(page) /\ page[k - from] = AllEvents[k]
  <2>1. AllEvents \in Seq(Listed) /\ from \in Nat /\ to \in Nat /\ to <= Len(AllEvents)
    BY <1>1, <1>3
  <2>2. /\ page \in Seq(Listed)
        /\ Len(page) = IF from < to THEN to - from ELSE 0
        /\ \A i \in 1 .. Len(page) : from + i \in 1 .. to /\ page[i] = AllEvents[from + i]
        /\ \A k \in 1 .. to : k > from => k - from \in 1 .. Len(page) /\ page[k - from] = AllEvents[k]
    <3> DEFINE all == AllEvents
               set == Listed
    <3>1. all \in Seq(set) /\ from \in Nat /\ to \in Nat /\ to <= Len(all)
      BY <2>1
    <3>2. page = SubSeq(all, from + 1, to)
      BY <1>4
    <3> HIDE DEF Number, all, set
    <3>3. /\ page \in Seq(set)
          /\ Len(page) = IF from < to THEN to - from ELSE 0
          /\ \A i \in 1 .. Len(page) : from + i \in 1 .. to /\ page[i] = all[from + i]
          /\ \A k \in 1 .. to : k > from => k - from \in 1 .. Len(page) /\ page[k - from] = all[k]
      <4>1. /\ page \in Seq(set)
            /\ Len(page) = IF from < to THEN to - from ELSE 0
        BY <3>1, <3>2
      <4>2. \A i \in 1 .. Len(page) : from + i \in 1 .. to /\ page[i] = all[from + i]
        BY <3>1, <3>2, <4>1
      <4>3. \A k \in 1 .. to : k > from => k - from \in 1 .. Len(page) /\ page[k - from] = all[k]
        BY <3>1, <3>2, <4>1
      <4> QED BY <4>1, <4>2, <4>3
    <3> QED BY <3>3 DEF all, set
  <2> QED BY <2>1, <2>2
<1>6. page \in Seq(Event)
  BY <1>1, <1>5
<1>7. ASSUME NEW i \in 1 .. Len(page)
      PROVE  page[i] \in Listed /\ Rank(page[i]) = from + i - 1 /\ from + i - 1 < to
  <2>1. from + i \in 1 .. to /\ from + i \in 1 .. Number /\ page[i] = AllEvents[from + i]
    BY <1>1, <1>5
  <2> QED BY <1>1, <1>2, <2>1
<1>8. ASSUME NEW e \in Listed, from <= Rank(e), Rank(e) < to PROVE \E i \in 1 .. Len(page) : page[i] = e
  <2>1. Rank(e) \in Nat /\ Rank(e) + 1 \in 1 .. to /\ Rank(e) + 1 \in 1 .. Number /\ Rank(e) + 1 > from
    BY <1>1, <1>8, RankType
  <2>2. PICK k \in 1 .. Number : k = Rank(e) + 1
    BY <2>1
  <2>3. AllEvents[k] \in Listed /\ Rank(AllEvents[k]) = Rank(e)
    BY <1>2, <2>1, <2>2
  <2>4. AllEvents[k] = e
    <3> SUFFICES ASSUME AllEvents[k] # e PROVE FALSE
      OBVIOUS
    <3>1. Before(AllEvents[k], e) \/ Before(e, AllEvents[k])
      BY <1>1, <2>3, BeforeOrders
    <3> QED BY <2>1, <2>3, <3>1, RankLess
  <2> QED BY <1>5, <2>1, <2>2, <2>4
<1> QED BY <1>6, <1>7, <1>8 DEF page, to
-----------------------------------------------------------------------------
(* The reader.  As long as no event came or moved, everything read stands   *)
(* before the cursor; as long as none went or moved, everything that stands *)
(* before the cursor and was there from the start has been read.            *)

ReadBefore ==
  ~ history.came /\ ~ history.moved =>
     /\ IsInjective(read)
     /\ \A i \in 1 .. Len(read) : read[i] \in Listed => Rank(read[i]) < offset

BeforeRead ==
  ~ history.went /\ ~ history.moved =>
     \A e \in history.stayed :
        /\ e \in Listed
        /\ Rank(e) < offset => \E i \in 1 .. Len(read) : read[i] = e

PagingInv == NewsTypeOK /\ ReadBefore /\ BeforeRead

LEMMA NoneListedTwice ==
  ASSUME NewsTypeOK, NEW from \in Nat, NEW limit \in Nat \ {0}
  PROVE  \A i, j \in 1 .. Len(Page(from, limit)) : Page(from, limit)[i] = Page(from, limit)[j] => i = j
<1> DEFINE page == Page(from, limit)
<1>1. Len(page) \in Nat /\ \A i \in 1 .. Len(page) : Rank(page[i]) = from + i - 1
  <2>1. page \in Seq(Event)
    BY PageRanks
  <2>2. \A i \in 1 .. Len(page) : Rank(page[i]) = from + i - 1
    BY PageRanks
  <2> HIDE DEF page
  <2> QED BY <2>1, <2>2
<1> HIDE DEF page
<1>2. ASSUME NEW i \in 1 .. Len(page), NEW j \in 1 .. Len(page), page[i] = page[j] PROVE i = j
  <2>1. from + i - 1 = from + j - 1
    BY <1>1, <1>2
  <2> QED BY <1>1, <2>1
<1> QED BY <1>2 DEF page

LEMMA InitPaging == Init => PagingInv
<1> SUFFICES ASSUME Init PROVE PagingInv
  OBVIOUS
<1>1. /\ severity \in [Event -> 0 .. Severities] /\ score \in [Event -> 1 .. Scores]
      /\ changes = 0 /\ offset = 0 /\ read = << >>
      /\ history.came = FALSE /\ history.went = FALSE /\ history.moved = FALSE
      /\ history.stayed = Listed /\ history = Quiet
  BY DEF Init, NewsInit, Quiet
<1>2. history \in [came : BOOLEAN, went : BOOLEAN, moved : BOOLEAN, stayed : SUBSET Event]
  BY <1>1 DEF Quiet, Listed
<1>3. NewsTypeOK
  BY <1>1, <1>2, NewsAssumption DEF NewsTypeOK, Done
<1>4. ReadBefore
  BY <1>1 DEF ReadBefore, IsInjective
<1>5. BeforeRead
  BY <1>1, <1>3, RankType DEF BeforeRead
<1> QED BY <1>3, <1>4, <1>5 DEF PagingInv

\* Events that come push others back, events that go pull them forward.
LEMMA RankMoves ==
  ASSUME NewsTypeOK, NewsTypeOK', NEW x \in Event, NEW new \in 0 .. Severities,
         NEW place, severity' = [severity EXCEPT ![x] = new],
         score' = [score EXCEPT ![x] = place], NEW e \in Event \ {x}
  PROVE  /\ e \in Listed <=> e \in Listed'
         /\ severity[x] = 0 /\ e \in Listed => Rank(e) <= Rank(e)'
         /\ new = 0 /\ e \in Listed => Rank(e)' <= Rank(e)
<1>1. severity'[e] = severity[e] /\ (e \in Listed <=> e \in Listed')
  BY DEF Listed, NewsTypeOK
<1> DEFINE S == {d \in Listed : Before(d, e)}
<1>2. PICK T : T = {d \in Listed' : Before(d, e)'}
  OBVIOUS
<1>3. Rank(e) = Cardinality(S) /\ Rank(e)' = Cardinality(T)
  BY <1>2 DEF Rank
<1>4. ASSUME NEW d \in Event \ {x} PROVE d \in S <=> d \in T
  <2>1. severity'[d] = severity[d] /\ score'[d] = score[d] /\ score'[e] = score[e]
    BY DEF NewsTypeOK
  <2> QED BY <1>1, <1>2, <2>1 DEF Before, Listed
<1>5. IsFiniteSet(S) /\ S \subseteq Event
  <2>1. S \in SUBSET Listed
    OBVIOUS
  <2> HIDE DEF S
  <2> QED BY <2>1, FinitelyMany, FS_Subset
<1>6. IsFiniteSet(T) /\ T \subseteq Event
  <2>1. IsFiniteSet(Event)
    BY FS_Interval, NewsAssumption DEF Event
  <2>2. T \in SUBSET Event
    BY <1>2 DEF Listed
  <2> QED BY <2>1, <2>2, FS_Subset
<1>7. ASSUME severity[x] = 0 PROVE Cardinality(S) <= Cardinality(T)
  <2>1. x \notin S
    BY <1>7 DEF Listed
  <2> HIDE DEF S
  <2>2. S \in SUBSET T
    BY <1>4, <1>5, <2>1
  <2> QED BY <1>6, <2>2, FS_Subset
<1>8. ASSUME new = 0 PROVE Cardinality(T) <= Cardinality(S)
  <2>1. x \notin T
    BY <1>2, <1>8 DEF Listed, NewsTypeOK
  <2> HIDE DEF S
  <2>2. T \in SUBSET S
    BY <1>4, <1>6, <2>1
  <2> QED BY <1>5, <2>2, FS_Subset
<1> QED BY <1>1, <1>3, <1>7, <1>8

LEMMA ChangeType ==
  ASSUME NewsTypeOK, NewsChange
  PROVE  NewsTypeOK'
<1>1. PICK e \in Event, new \in 0 .. Severities, place \in 1 .. Scores :
        /\ changes < MaxChanges
        /\ severity' = [severity EXCEPT ![e] = new]
        /\ score' = [score EXCEPT ![e] = place]
        /\ changes' = changes + 1
        /\ history' = [came   |-> history.came  \/ severity[e] = 0,
                       went   |-> history.went  \/ new = 0,
                       moved  |-> history.moved \/ (severity[e] # 0 /\ new # 0),
                       stayed |-> IF new = 0 THEN history.stayed \ {e} ELSE history.stayed]
        /\ UNCHANGED << offset, read >>
  BY DEF NewsChange
<1>2. severity' \in [Event -> 0 .. Severities] /\ score' \in [Event -> 1 .. Scores]
  BY <1>1 DEF NewsTypeOK
<1>3. changes' \in 0 .. MaxChanges
  BY <1>1, NewsAssumption DEF NewsTypeOK
<1>4. history.stayed \subseteq Event
  BY DEF NewsTypeOK
<1>5. history' \in [came : BOOLEAN, went : BOOLEAN, moved : BOOLEAN, stayed : SUBSET Event]
  BY <1>1, <1>4
<1> QED BY <1>1, <1>2, <1>3, <1>5 DEF NewsTypeOK

LEMMA ChangeKeepsPaging ==
  ASSUME PagingInv, NewsChange
  PROVE  PagingInv'
<1>T. NewsTypeOK /\ NewsTypeOK'
  BY ChangeType DEF PagingInv
<1>1. PICK x \in Event, new \in 0 .. Severities, place \in 1 .. Scores :
        /\ severity' = [severity EXCEPT ![x] = new]
        /\ score' = [score EXCEPT ![x] = place]
        /\ history' = [came   |-> history.came  \/ severity[x] = 0,
                       went   |-> history.went  \/ new = 0,
                       moved  |-> history.moved \/ (severity[x] # 0 /\ new # 0),
                       stayed |-> IF new = 0 THEN history.stayed \ {x} ELSE history.stayed]
        /\ offset' = offset /\ read' = read
  BY DEF NewsChange
<1>2. /\ history'.came <=> history.came \/ severity[x] = 0
      /\ history'.went <=> history.went \/ new = 0
      /\ history'.moved <=> history.moved \/ (severity[x] # 0 /\ new # 0)
      /\ history'.stayed = IF new = 0 THEN history.stayed \ {x} ELSE history.stayed
  BY <1>1
<1>3. /\ offset \in Nat /\ read \in Seq(Event) /\ history.stayed \subseteq Event
      /\ severity'[x] = new
  BY <1>T, <1>1, NewsAssumption DEF NewsTypeOK, Done
<1>4. \A e \in Listed : Rank(e) \in Nat
  BY <1>T, RankType
<1>5. \A e \in Listed' : Rank(e)' \in Nat
  <2>1. (NewsTypeOK => \A e \in Listed : Rank(e) \in Nat)'
    BY RanksType, PTL
  <2> QED BY <1>T, <2>1
<1>6. ASSUME ~ history'.came, ~ history'.moved
      PROVE  /\ IsInjective(read)
             /\ \A i \in 1 .. Len(read) : read[i] \in Listed' => Rank(read[i])' < offset
  <2>1. ~ history.came /\ ~ history.moved /\ new = 0
    BY <1>2, <1>6
  <2>2. IsInjective(read) /\ \A i \in 1 .. Len(read) : read[i] \in Listed => Rank(read[i]) < offset
    BY <2>1 DEF PagingInv, ReadBefore
  <2>3. ASSUME NEW i \in 1 .. Len(read), read[i] \in Listed' PROVE Rank(read[i])' < offset
    <3>1. PICK e : e = read[i] /\ e = read'[i]
      BY <1>1
    <3>2. e \in Event \ {x}
      BY <1>1, <1>3, <2>1, <2>3, <3>1 DEF Listed
    <3>3. e \in Listed /\ Rank(e)' <= Rank(e)
      BY <1>T, <1>1, <2>1, <2>3, <3>1, <3>2, RankMoves
    <3>4. Rank(e) < offset /\ Rank(e) \in Nat /\ Rank(e)' \in Nat
      BY <1>4, <1>5, <2>2, <2>3, <3>1, <3>3
    <3>5. Rank(e)' < offset
      BY <1>3, <3>3, <3>4
    <3> QED BY <3>1, <3>5
  <2> QED BY <2>2, <2>3
<1>7. ASSUME ~ history'.went, ~ history'.moved, NEW e \in history'.stayed
      PROVE  /\ e \in Listed'
             /\ Rank(e)' < offset => \E i \in 1 .. Len(read) : read[i] = e
  <2>1. ~ history.went /\ ~ history.moved /\ severity[x] = 0 /\ e \in history.stayed
    BY <1>2, <1>7
  <2>2. /\ e \in Listed
        /\ Rank(e) < offset => \E i \in 1 .. Len(read) : read[i] = e
    BY <2>1 DEF PagingInv, BeforeRead
  <2>3. e \in Event \ {x}
    BY <2>1, <2>2 DEF Listed
  <2>4. e \in Listed' /\ Rank(e) <= Rank(e)'
    BY <1>T, <1>1, <2>1, <2>2, <2>3, RankMoves
  <2>5. Rank(e) \in Nat /\ Rank(e)' \in Nat
    BY <1>4, <1>5, <2>2, <2>4
  <2>6. Rank(e)' < offset => Rank(e) < offset
    BY <1>3, <2>4, <2>5
  <2> QED BY <2>2, <2>4, <2>6
<1>8. ReadBefore'
  BY <1>1, <1>6 DEF ReadBefore
<1>9. BeforeRead'
  BY <1>1, <1>7 DEF BeforeRead
<1> QED BY <1>T, <1>8, <1>9 DEF PagingInv

\* The news does not change while a page is fetched.
LEMMA SameNews == UNCHANGED newsVars => Listed' = Listed /\ \A e : Rank(e)' = Rank(e)
  BY DEF newsVars, Listed, Rank, Before

\* Where the cursor goes.
LEMMA CursorFacts ==
  ASSUME NewsTypeOK, NEW from \in Nat
  PROVE  LET next == IF HasNext(from, PageSize) THEN from + PageSize ELSE Done
         IN  /\ next \in 0 .. Done /\ Done \in Nat
             /\ \A k \in Nat : k < Number => (k < next <=> k < Upto(from, PageSize))
             /\ from + PageSize \in Nat /\ Upto(from, PageSize) <= next
<1>1. /\ Events \in Nat /\ PageSize \in Nat \ {0} /\ Number \in Nat /\ Number <= Events
      /\ Done = Events + PageSize
  BY FinitelyMany, NewsAssumption DEF Done
<1>2. CASE HasNext(from, PageSize)
  <2>1. from + PageSize < Number
    BY <1>2 DEF HasNext, Number
  <2> HIDE DEF Number
  <2> QED BY <1>1, <1>2, <2>1 DEF Upto
<1>3. CASE ~ HasNext(from, PageSize)
  <2> HIDE DEF Number
  <2> QED BY <1>1, <1>3 DEF Upto
<1> QED BY <1>2, <1>3

LEMMA OpenKeepsPaging ==
  ASSUME PagingInv, OpenBoard
  PROVE  PagingInv'
<1>T. NewsTypeOK /\ PageSize \in Nat \ {0} /\ 0 \in Nat /\ Number \in Nat
  BY FinitelyMany, NewsAssumption DEF PagingInv
<1> DEFINE page == Page(0, PageSize)
           to == Upto(0, PageSize)
<1>1. /\ read' = page /\ UNCHANGED newsVars /\ history' = Quiet
      /\ offset' = IF HasNext(0, PageSize) THEN 0 + PageSize ELSE Done
  BY <1>T DEF OpenBoard
<1>2. /\ page \in Seq(Event) /\ Len(page) \in Nat
      /\ \A i \in 1 .. Len(page) : page[i] \in Listed /\ Rank(page[i]) < to
      /\ \A e \in Listed : Rank(e) < to => \E i \in 1 .. Len(page) : page[i] = e
      /\ \A i, j \in 1 .. Len(page) : page[i] = page[j] => i = j
  <2>1. /\ page \in Seq(Event)
        /\ \A i \in 1 .. Len(page) :
              page[i] \in Listed /\ Rank(page[i]) = 0 + i - 1 /\ 0 + i - 1 < Upto(0, PageSize)
        /\ \A e \in Listed : 0 <= Rank(e) /\ Rank(e) < Upto(0, PageSize) => \E i \in 1 .. Len(page) : page[i] = e
    BY <1>T, PageRanks
  <2>2. \A i, j \in 1 .. Len(page) : page[i] = page[j] => i = j
    BY <1>T, NoneListedTwice
  <2>3. \A e \in Listed : Rank(e) \in Nat
    BY <1>T, RankType
  <2> HIDE DEF page
  <2> QED BY <2>1, <2>2, <2>3
<1>3. /\ offset' \in 0 .. Done
      /\ \A e \in Listed : Rank(e) < offset' <=> Rank(e) < to
  BY <1>T, <1>1, CursorFacts, RankType
<1> HIDE DEF page, to
<1>4. Listed' = Listed /\ \A e : Rank(e)' = Rank(e)
  BY <1>1, SameNews
<1>5. /\ history' \in [came : BOOLEAN, went : BOOLEAN, moved : BOOLEAN, stayed : SUBSET Event]
      /\ history'.stayed = Listed
  BY <1>1 DEF Quiet, Listed
<1>6. NewsTypeOK'
  BY <1>T, <1>1, <1>2, <1>3, <1>5 DEF NewsTypeOK, newsVars
<1>7. IsInjective(page)
  <2>1. DOMAIN page = 1 .. Len(page)
    BY <1>2
  <2> QED BY <1>2, <2>1 DEF IsInjective
<1>8. ReadBefore'
  BY <1>1, <1>2, <1>3, <1>4, <1>7 DEF ReadBefore
<1>9. BeforeRead'
  BY <1>1, <1>2, <1>3, <1>4, <1>5 DEF BeforeRead
<1> QED BY <1>6, <1>8, <1>9 DEF PagingInv

LEMMA ConcatFacts ==
  ASSUME NEW S, NEW s \in Seq(S), NEW p \in Seq(S), NEW c, c = s \o p
  PROVE  /\ c \in Seq(S) /\ Len(c) = Len(s) + Len(p) /\ Len(s) \in Nat /\ Len(p) \in Nat
         /\ DOMAIN c = 1 .. Len(c)
         /\ \A i \in 1 .. Len(s) : c[i] = s[i] /\ i \in 1 .. Len(c)
         /\ \A i \in 1 .. Len(p) : c[Len(s) + i] = p[i] /\ Len(s) + i \in 1 .. Len(c)
         /\ \A i \in 1 .. Len(c) : i > Len(s) => i - Len(s) \in 1 .. Len(p) /\ c[i] = p[i - Len(s)]
  OBVIOUS

LEMMA NextPageKeepsPaging ==
  ASSUME PagingInv, NextPage
  PROVE  PagingInv'
<1>T. /\ NewsTypeOK /\ PageSize \in Nat \ {0} /\ offset \in Nat /\ Number \in Nat
      /\ read \in Seq(Event)
  BY FinitelyMany, NewsAssumption DEF PagingInv, NewsTypeOK, Done
<1> DEFINE page == Page(offset, PageSize)
           to == Upto(offset, PageSize)
<1>1. /\ read' = read \o page /\ UNCHANGED newsVars /\ history' = history
      /\ offset' = IF HasNext(offset, PageSize) THEN offset + PageSize ELSE Done
  BY DEF NextPage
<1>2. /\ page \in Seq(Event)
      /\ \A i \in 1 .. Len(page) : page[i] \in Listed /\ Rank(page[i]) >= offset /\ Rank(page[i]) < to
      /\ \A e \in Listed : offset <= Rank(e) /\ Rank(e) < to => \E i \in 1 .. Len(page) : page[i] = e
      /\ \A i, j \in 1 .. Len(page) : page[i] = page[j] => i = j
  <2>1. /\ page \in Seq(Event)
        /\ \A i \in 1 .. Len(page) :
              page[i] \in Listed /\ Rank(page[i]) = offset + i - 1 /\ offset + i - 1 < Upto(offset, PageSize)
        /\ \A e \in Listed : offset <= Rank(e) /\ Rank(e) < Upto(offset, PageSize) => \E i \in 1 .. Len(page) : page[i] = e
    BY <1>T, PageRanks
  <2>2. \A i, j \in 1 .. Len(page) : page[i] = page[j] => i = j
    BY <1>T, NoneListedTwice
  <2> HIDE DEF page
  <2> QED BY <1>T, <2>1, <2>2
<1>3. /\ offset' \in 0 .. Done
      /\ \A e \in Listed : Rank(e) < offset' <=> Rank(e) < to
  BY <1>T, <1>1, CursorFacts, RankType
<1>a. \A e \in Listed : Rank(e) \in Nat
  BY <1>T, RankType
<1> HIDE DEF page, to
<1>4. Listed' = Listed /\ \A e : Rank(e)' = Rank(e)
  BY <1>1, SameNews
<1>5. PICK c : c = read \o page
  OBVIOUS
<1>6. /\ c \in Seq(Event) /\ Len(c) = Len(read) + Len(page) /\ Len(read) \in Nat /\ Len(page) \in Nat
      /\ DOMAIN c = 1 .. Len(c)
      /\ \A i \in 1 .. Len(read) : c[i] = read[i] /\ i \in 1 .. Len(c)
      /\ \A i \in 1 .. Len(page) : c[Len(read) + i] = page[i] /\ Len(read) + i \in 1 .. Len(c)
      /\ \A i \in 1 .. Len(c) : i > Len(read) => i - Len(read) \in 1 .. Len(page) /\ c[i] = page[i - Len(read)]
  BY <1>T, <1>2, <1>5, ConcatFacts
<1>7. NewsTypeOK'
  BY <1>T, <1>1, <1>3, <1>5, <1>6 DEF NewsTypeOK, newsVars
<1>8. ASSUME ~ history.came, ~ history.moved
      PROVE  IsInjective(c) /\ \A i \in 1 .. Len(c) : c[i] \in Listed => Rank(c[i]) < offset'
  <2>1. /\ \A i, j \in 1 .. Len(read) : read[i] = read[j] => i = j
        /\ \A i \in 1 .. Len(read) : read[i] \in Listed => Rank(read[i]) < offset
    BY <1>T, <1>8 DEF PagingInv, ReadBefore, IsInjective
  <2>2. ASSUME NEW i \in 1 .. Len(c), c[i] \in Listed PROVE Rank(c[i]) < offset'
    <3>1. CASE i <= Len(read)
      <4>1. c[i] = read[i] /\ Rank(c[i]) < offset
        BY <1>6, <2>1, <2>2, <3>1
      <4>2. offset <= offset'
        BY <1>T, <1>1, FinitelyMany, NewsAssumption DEF Done, NewsTypeOK
      <4>3. offset' \in Nat
        BY <1>3, NewsAssumption DEF Done
      <4> QED BY <1>T, <1>a, <2>2, <4>1, <4>2, <4>3
    <3>2. CASE i > Len(read)
      BY <1>2, <1>3, <1>6, <2>2, <3>2
    <3> QED BY <1>6, <3>1, <3>2
  <2>3. ASSUME NEW i \in 1 .. Len(c), NEW j \in 1 .. Len(c), c[i] = c[j] PROVE i = j
    <3>1. CASE i <= Len(read) /\ j <= Len(read)
      BY <1>6, <2>1, <2>3, <3>1
    <3>2. CASE i > Len(read) /\ j > Len(read)
      <4>1. i - Len(read) = j - Len(read)
        BY <1>2, <1>6, <2>3, <3>2
      <4> QED BY <1>6, <4>1
    <3>3. ASSUME NEW k \in 1 .. Len(c), NEW l \in 1 .. Len(c), k <= Len(read), l > Len(read), c[k] = c[l]
          PROVE  FALSE
      <4>1. c[l] \in Listed /\ Rank(c[l]) >= offset
        BY <1>2, <1>6, <3>3
      <4>2. c[k] = read[k] /\ Rank(c[k]) < offset
        BY <1>6, <2>1, <3>3, <4>1
      <4> QED BY <1>T, <1>a, <3>3, <4>1, <4>2
    <3> QED BY <1>6, <2>3, <3>1, <3>2, <3>3
  <2> QED BY <1>6, <2>2, <2>3 DEF IsInjective
<1>9. ASSUME ~ history.went, ~ history.moved, NEW e \in history.stayed
      PROVE  /\ e \in Listed
             /\ Rank(e) < offset' => \E i \in 1 .. Len(c) : c[i] = e
  <2>1. e \in Listed /\ (Rank(e) < offset => \E i \in 1 .. Len(read) : read[i] = e)
    BY <1>9 DEF PagingInv, BeforeRead
  <2>2. CASE Rank(e) < offset
    BY <1>6, <2>1, <2>2
  <2>3. ASSUME ~ Rank(e) < offset, Rank(e) < offset' PROVE \E i \in 1 .. Len(c) : c[i] = e
    <3>1. offset <= Rank(e) /\ Rank(e) < to
      BY <1>T, <1>a, <1>3, <2>1, <2>3
    <3>2. PICK i \in 1 .. Len(page) : page[i] = e
      BY <1>2, <2>1, <3>1
    <3> QED BY <1>6, <3>2
  <2> QED BY <2>1, <2>2, <2>3
<1>10. ReadBefore'
  BY <1>1, <1>4, <1>5, <1>8 DEF ReadBefore
<1>11. BeforeRead'
  BY <1>1, <1>4, <1>5, <1>9 DEF BeforeRead
<1> QED BY <1>7, <1>10, <1>11 DEF PagingInv

LEMMA NextPaging == PagingInv /\ [Next]_vars => PagingInv'
<1> SUFFICES ASSUME PagingInv, [Next]_vars PROVE PagingInv'
  OBVIOUS
<1>1. CASE UNCHANGED boardVars
  BY <1>1 DEF boardVars, newsVars, readerVars, PagingInv, NewsTypeOK, ReadBefore, BeforeRead,
              Listed, Rank, Before
<1>2. CASE NewsChange \/ ReaderStep
  BY <1>2, ChangeKeepsPaging, OpenKeepsPaging, NextPageKeepsPaging DEF ReaderStep
<1>3. UNCHANGED boardVars \/ NewsChange \/ ReaderStep
  BY DEF Next, vars, Subscribe, TaskStep, Fetch, FetchFails, Skip, Send, SendToNobody,
         SendError, Tick, Receive, Leave
<1> QED BY <1>1, <1>2, <1>3

LEMMA PagingHolds == Spec => []PagingInv
  BY InitPaging, NextPaging, PTL DEF Spec

\* Paging at an offset repeats no event unless one came or moved, and misses
\* none that stayed unless one went or moved (list_events, and the reader's n),
\* for any number of events, any page size and any changes of the list.
THEOREM PagingAlwaysExact == Spec => []PagingIsExact
<1>1. PagingInv => PagingIsExact
  <2> SUFFICES ASSUME PagingInv PROVE PagingIsExact
    OBVIOUS
  <2>1. ~ history.came /\ ~ history.moved => IsInjective(read)
    BY DEF PagingInv, ReadBefore
  <2>2. ASSUME offset = Done, ~ history.went, ~ history.moved, NEW e \in history.stayed
        PROVE  e \in ToSet(read)
    <3>1. /\ e \in Listed
          /\ Rank(e) < offset => \E i \in 1 .. Len(read) : read[i] = e
      BY <2>2 DEF PagingInv, BeforeRead
    <3>2. Rank(e) \in Nat /\ Rank(e) < Number /\ Number \in Nat /\ Number <= Events
          /\ PageSize \in Nat /\ Events \in Nat
      BY <3>1, RankType, FinitelyMany, NewsAssumption DEF PagingInv
    <3>3. Rank(e) < offset
      BY <2>2, <3>2 DEF Done
    <3>4. DOMAIN read = 1 .. Len(read)
      BY DEF PagingInv, NewsTypeOK
    <3> QED BY <3>1, <3>3, <3>4 DEF ToSet
  <2> QED BY <2>1, <2>2 DEF PagingIsExact
<1> QED BY <1>1, PagingHolds, PTL
-----------------------------------------------------------------------------
(* Types *)

LEMMA InitType == Init => TypeOK
<1> SUFFICES ASSUME Init PROVE TypeOK
  OBVIOUS
<1>1. NewsTypeOK
  BY InitPaging DEF PagingInv
<1>2. /\ << >> \in Seq(Item) /\ << >> \in Seq(Event \cup {Error}) /\ Len(<< >>) = 0
      /\ ChannelSize \in Nat /\ MaxFailures \in Nat
  BY AlertAssumption
<1>3. /\ pc \in [Subscriber -> {"none", "fetch", "item", "fail", "ended"}]
      /\ open \in [Subscriber -> BOOLEAN]
      /\ seen \in [Subscriber -> SUBSET Event] /\ got \in [Subscriber -> SUBSET (Event \cup {Error})]
      /\ sent \in [Subscriber -> [Event -> Nat]]
  BY DEF Init
<1>4. /\ todo \in [Subscriber -> Seq(Item)] /\ channel \in [Subscriber -> Seq(Event \cup {Error})]
      /\ \A s \in Subscriber : Len(channel[s]) <= ChannelSize
      /\ failures \in 0 .. MaxFailures
  BY <1>2 DEF Init
<1> QED BY <1>1, <1>3, <1>4 DEF TypeOK

\* What a tick fetches: events, and whether they match now.
LEMMA ItemsType ==
  ASSUME NewsTypeOK, NEW limit \in Nat \ {0}
  PROVE  Items(Page(0, limit)) \in Seq(Item)
<1> DEFINE page == Page(0, limit)
<1>1. page \in Seq(Event) /\ \A i \in 1 .. Len(page) : page[i] \in Listed
  <2>1. 0 \in Nat
    OBVIOUS
  <2> QED BY <2>1, PageRanks
<1> HIDE DEF page
<1>2. ASSUME NEW i \in 1 .. Len(page)
      PROVE  [event |-> page[i], matches |-> Matches(page[i])] \in Item
  BY <1>1 DEF Item, Matches
<1>3. Len(page) \in Nat
  BY <1>1
<1> QED BY <1>2, <1>3 DEF Items, page

\* A sequence without its first element.
LEMMA TailType ==
  ASSUME NEW S, NEW c \in Seq(S), c # << >>
  PROVE  Tail(c) \in Seq(S) /\ Head(c) \in S /\ Len(Tail(c)) <= Len(c)
  OBVIOUS

LEMMA NextType == TypeOK /\ PagingInv' /\ [Next]_vars => TypeOK'
<1> SUFFICES ASSUME TypeOK, PagingInv', [Next]_vars PROVE TypeOK'
  OBVIOUS
<1>N. NewsTypeOK /\ NewsTypeOK' /\ ChannelSize \in Nat /\ AlertLimit \in Nat \ {0} /\ MaxFailures \in Nat
  BY AlertAssumption DEF TypeOK, PagingInv
<1> DEFINE PC == {"none", "fetch", "item", "fail", "ended"}
<1>G. ASSUME NEW s \in Subscriber, NEW from, NEW to \in PC, Goto(s, from, to) PROVE pc' \in [Subscriber -> PC]
  BY <1>G DEF Goto, TypeOK
<1>P. ASSUME NEW s \in Subscriber, NEW alert \in Event \cup {Error}, Put(s, alert)
      PROVE  /\ channel' \in [Subscriber -> Seq(Event \cup {Error})]
             /\ \A u \in Subscriber : Len(channel'[u]) <= ChannelSize
  <2>1. channel' = [channel EXCEPT ![s] = Append(channel[s], alert)] /\ Len(channel[s]) < ChannelSize
    BY <1>P DEF Put
  <2>2. channel[s] \in Seq(Event \cup {Error})
    BY DEF TypeOK
  <2>3. PICK c : c = Append(channel[s], alert)
    OBVIOUS
  <2>4. c \in Seq(Event \cup {Error}) /\ Len(c) <= ChannelSize
    BY <1>N, <2>1, <2>2, <2>3
  <2> QED BY <2>1, <2>3, <2>4 DEF TypeOK
<1>H. ASSUME NEW s \in Subscriber, todo[s] # << >>
      PROVE  /\ Head(todo[s]).event \in Event
             /\ [todo EXCEPT ![s] = Tail(todo[s])] \in [Subscriber -> Seq(Item)]
  <2>1. Tail(todo[s]) \in Seq(Item) /\ Head(todo[s]) \in Item
    BY <1>H, TailType DEF TypeOK
  <2> QED BY <2>1 DEF Item, TypeOK
<1>1. CASE UNCHANGED alertVars
  BY <1>1, <1>N DEF alertVars, TypeOK
<1>2. ASSUME NEW s \in Subscriber, Subscribe(s) PROVE TypeOK'
  <2>1. pc' \in [Subscriber -> PC]
    BY <1>2, <1>G DEF Subscribe
  <2> QED BY <1>2, <1>N, <2>1 DEF Subscribe, TypeOK
<1>3. ASSUME NEW s \in Subscriber, Fetch(s) PROVE TypeOK'
  <2>1. pc' \in [Subscriber -> PC]
    BY <1>3, <1>G DEF Fetch
  <2>2. todo' \in [Subscriber -> Seq(Item)]
    BY <1>3, <1>N, ItemsType DEF Fetch, TypeOK
  <2> QED BY <1>3, <1>N, <2>1, <2>2 DEF Fetch, TypeOK
<1>4. ASSUME NEW s \in Subscriber, FetchFails(s) PROVE TypeOK'
  <2>1. pc' \in [Subscriber -> PC]
    BY <1>4, <1>G DEF FetchFails
  <2>2. failures' \in 0 .. MaxFailures
    BY <1>4, <1>N DEF FetchFails, Failure, TypeOK
  <2> QED BY <1>4, <1>N, <2>1, <2>2 DEF FetchFails, TypeOK
<1>5. ASSUME NEW s \in Subscriber, Skip(s) PROVE TypeOK'
  <2>1. todo' \in [Subscriber -> Seq(Item)]
    BY <1>5, <1>H DEF Skip
  <2> QED BY <1>5, <1>N, <2>1 DEF Skip, TypeOK
<1>6. ASSUME NEW s \in Subscriber, Send(s) PROVE TypeOK'
  <2>1. Head(todo[s]).event \in Event /\ todo' \in [Subscriber -> Seq(Item)]
    BY <1>6, <1>H DEF Send, Sending
  <2>2. /\ channel' \in [Subscriber -> Seq(Event \cup {Error})]
        /\ \A u \in Subscriber : Len(channel'[u]) <= ChannelSize
    BY <1>6, <1>P, <2>1 DEF Send
  <2>3. seen' \in [Subscriber -> SUBSET Event]
    BY <1>6, <2>1 DEF Send, TypeOK
  <2>4. sent' \in [Subscriber -> [Event -> Nat]]
    BY <1>6, <2>1 DEF Send, TypeOK
  <2> QED BY <1>6, <1>N, <2>1, <2>2, <2>3, <2>4 DEF Send, TypeOK
<1>7. ASSUME NEW s \in Subscriber, SendToNobody(s) PROVE TypeOK'
  <2>1. pc' \in [Subscriber -> PC] /\ todo' \in [Subscriber -> Seq(Item)]
    BY <1>7 DEF SendToNobody, TypeOK
  <2> QED BY <1>7, <1>N, <2>1 DEF SendToNobody, TypeOK
<1>8. ASSUME NEW s \in Subscriber, SendError(s) PROVE TypeOK'
  <2>1. pc' \in [Subscriber -> PC]
    BY <1>8, <1>G DEF SendError
  <2>2. /\ channel' \in [Subscriber -> Seq(Event \cup {Error})]
        /\ \A u \in Subscriber : Len(channel'[u]) <= ChannelSize
    BY <1>8, <1>P DEF SendError, TypeOK
  <2> QED BY <1>8, <1>N, <2>1, <2>2 DEF SendError, TypeOK
<1>9. ASSUME NEW s \in Subscriber, Tick(s) PROVE TypeOK'
  <2>1. pc' \in [Subscriber -> PC]
    BY <1>9, <1>G DEF Tick
  <2> QED BY <1>9, <1>N, <2>1 DEF Tick, TypeOK
<1>10. ASSUME NEW s \in Subscriber, Receive(s) PROVE TypeOK'
  <2>1. channel[s] \in Seq(Event \cup {Error}) /\ channel[s] # << >> /\ Len(channel[s]) <= ChannelSize
    BY <1>10 DEF Receive, TypeOK
  <2>2. PICK c : c = Tail(channel[s])
    OBVIOUS
  <2>3. c \in Seq(Event \cup {Error}) /\ Head(channel[s]) \in Event \cup {Error} /\ Len(c) <= ChannelSize
    BY <1>N, <2>1, <2>2
  <2>4. /\ channel' \in [Subscriber -> Seq(Event \cup {Error})]
        /\ \A u \in Subscriber : Len(channel'[u]) <= ChannelSize
    BY <1>10, <2>2, <2>3 DEF Receive, TypeOK
  <2>5. got' \in [Subscriber -> SUBSET (Event \cup {Error})]
    BY <1>10, <2>3 DEF Receive, TypeOK
  <2> QED BY <1>10, <1>N, <2>4, <2>5 DEF Receive, TypeOK
<1>11. ASSUME NEW s \in Subscriber, Leave(s) PROVE TypeOK'
  <2>1. << >> \in Seq(Event \cup {Error}) /\ Len(<< >>) <= ChannelSize
    BY <1>N
  <2>2. /\ channel' \in [Subscriber -> Seq(Event \cup {Error})]
        /\ \A u \in Subscriber : Len(channel'[u]) <= ChannelSize
    BY <1>11, <2>1 DEF Leave, TypeOK
  <2> QED BY <1>11, <1>N, <2>2 DEF Leave, TypeOK
<1> QED
  BY <1>1, <1>2, <1>3, <1>4, <1>5, <1>6, <1>7, <1>8, <1>9, <1>10, <1>11 DEF Next, TaskStep, vars

\* Every variable keeps its type, the cursor stays within the list and a page,
\* and no channel holds more than its capacity (mpsc::channel).
THEOREM TypeCorrect == Spec => []TypeOK
  BY InitType, NextType, PagingHolds, PTL DEF Spec
=============================================================================
