---------------------------- MODULE EventAlerts -----------------------------
(***************************************************************************)
(* The tasks that subscribe_event_alerts spawns in the gateway             *)
(* (rust/vps1-serving/src/gateway.rs), one per subscription: every tick a  *)
(* task fetches the head of the backend's list of news events and sends    *)
(* what matches the subscription and was not sent before.                  *)
(***************************************************************************)
EXTENDS NewsEvents

CONSTANTS
  Subscriber,   \* each subscribes once
  AlertLimit,   \* events a tick looks at: 50
  Floor,        \* severity_floor of the subscriptions, 0 if empty
  Kept,         \* scores that confidence_floor and contradiction_only let pass
  ChannelSize,  \* mpsc::channel between the task and its stream: 32
  MaxFailures   \* bound: failed fetches of the list or of an impact

ASSUME AlertAssumption ==
  /\ {AlertLimit, ChannelSize} \subseteq Nat \ {0}
  /\ {Floor, MaxFailures} \subseteq Nat
  /\ Kept \subseteq 1 .. Scores

VARIABLES
  pc,        \* where the task of each subscription is; "fetch" from its sleep on
  todo,      \* the rest of the list it fetched: which events, and whether they match
  seen,      \* events it has sent
  channel,   \* alerts the stream has not delivered; 0 stands for the error
  open,      \* the subscriber still listens
  got,       \* what it received, while it listens
  failures,  \* how many fetches failed
  sent       \* history: how often each event entered the channel

alertVars == << pc, todo, seen, channel, open, got, failures, sent >>
vars == << boardVars, alertVars >>

\* The error that ends a stream; no event has this number.
Error == 0

Item == [event : Event, matches : BOOLEAN]

TypeOK ==
  /\ NewsTypeOK
  /\ pc \in [Subscriber -> {"none", "fetch", "item", "fail", "ended"}]
  /\ todo \in [Subscriber -> Seq(Item)]
  /\ seen \in [Subscriber -> SUBSET Event]
  /\ channel \in [Subscriber -> Seq(Event \cup {Error})]
  /\ \A s \in Subscriber : Len(channel[s]) <= ChannelSize
  /\ open \in [Subscriber -> BOOLEAN]
  /\ got \in [Subscriber -> SUBSET (Event \cup {Error})]
  /\ failures \in 0 .. MaxFailures
  /\ sent \in [Subscriber -> [Event -> Nat]]

Init ==
  /\ NewsInit
  /\ pc = [s \in Subscriber |-> "none"]
  /\ todo = [s \in Subscriber |-> << >>]
  /\ seen = [s \in Subscriber |-> {}]
  /\ channel = [s \in Subscriber |-> << >>]
  /\ open = [s \in Subscriber |-> FALSE]
  /\ got = [s \in Subscriber |-> {}]
  /\ failures = 0
  /\ sent = [s \in Subscriber |-> [e \in Event |-> 0]]

Goto(s, from, to) == pc[s] = from /\ pc' = [pc EXCEPT ![s] = to]

Failure == failures < MaxFailures /\ failures' = failures + 1

\* sev_ok, conf_ok and contra_ok
Matches(e) == severity[e] >= Floor /\ score[e] \in Kept

Subscribe(s) ==
  /\ Goto(s, "none", "fetch")
  /\ open' = [open EXCEPT ![s] = TRUE]
  /\ UNCHANGED << boardVars, todo, seen, channel, got, failures, sent >>

Items(page) == [i \in 1 .. Len(page) |-> [event |-> page[i], matches |-> Matches(page[i])]]

\* fetch_news_events with limit 50
Fetch(s) ==
  /\ Goto(s, "fetch", "item")
  /\ todo' = [todo EXCEPT ![s] = Items(Page(0, AlertLimit))]
  /\ UNCHANGED << boardVars, seen, channel, open, got, failures, sent >>

FetchFails(s) ==
  /\ Failure
  /\ Goto(s, "fetch", "fail")
  /\ UNCHANGED << boardVars, todo, seen, channel, open, got, sent >>

\* An event that is not asked for, or was sent before.
Skip(s) ==
  /\ pc[s] = "item" /\ todo[s] # << >>
  /\ ~ Head(todo[s]).matches \/ Head(todo[s]).event \in seen[s]
  /\ todo' = [todo EXCEPT ![s] = Tail(@)]
  /\ UNCHANGED << boardVars, pc, seen, channel, open, got, failures, sent >>

\* The event at hand is to be sent.
Sending(s) ==
  /\ pc[s] = "item" /\ todo[s] # << >>
  /\ Head(todo[s]).matches /\ Head(todo[s]).event \notin seen[s]

Put(s, alert) ==
  /\ open[s] /\ Len(channel[s]) < ChannelSize
  /\ channel' = [channel EXCEPT ![s] = Append(@, alert)]

\* Variant: the id is remembered only while the event stays at the head.
SendForgetting(s) ==
  LET e == Head(todo[s]).event
  IN  /\ Sending(s)
      /\ Put(s, e)
      /\ todo' = [todo EXCEPT ![s] = Tail(@)]
      /\ seen' = [seen EXCEPT ![s] = {e}]
      /\ sent' = [sent EXCEPT ![s][e] = @ + 1]
      /\ UNCHANGED << boardVars, pc, open, got, failures >>

\* Variant: the id is remembered before the impact is fetched, whose failure
\* skips the event.
SendUnlessImpactFails(s) ==
  LET e == Head(todo[s]).event
  IN  /\ Sending(s)
      /\ \/ Put(s, e) /\ sent' = [sent EXCEPT ![s][e] = @ + 1] /\ UNCHANGED failures
         \/ Failure /\ UNCHANGED << channel, sent >>
      /\ todo' = [todo EXCEPT ![s] = Tail(@)]
      /\ seen' = [seen EXCEPT ![s] = @ \cup {e}]
      /\ UNCHANGED << boardVars, pc, open, got >>

\* fetch_event_impact is best effort: an alert goes out with or without it.
Send(s) ==
  LET e == Head(todo[s]).event
  IN  /\ Sending(s)
      /\ Put(s, e)
      /\ todo' = [todo EXCEPT ![s] = Tail(@)]
      /\ seen' = [seen EXCEPT ![s] = @ \cup {e}]
      /\ sent' = [sent EXCEPT ![s][e] = @ + 1]
      /\ UNCHANGED << boardVars, pc, open, got, failures >>

\* Variant: a failed send is ignored.
SendToNobodyIgnored(s) ==
  /\ Sending(s)
  /\ ~ open[s]
  /\ todo' = [todo EXCEPT ![s] = Tail(@)]
  /\ UNCHANGED << boardVars, pc, seen, channel, open, got, failures, sent >>

\* The subscriber has gone: send fails and the task returns.
SendToNobody(s) ==
  /\ Sending(s)
  /\ ~ open[s]
  /\ pc' = [pc EXCEPT ![s] = "ended"]
  /\ todo' = [todo EXCEPT ![s] = << >>]
  /\ UNCHANGED << boardVars, seen, channel, open, got, failures, sent >>

\* The error is sent, if anybody is there to receive it.
SendError(s) ==
  /\ Goto(s, "fail", "ended")
  /\ Put(s, Error) \/ (~ open[s] /\ UNCHANGED channel)
  /\ UNCHANGED << boardVars, todo, seen, open, got, failures, sent >>

\* "event_alert_tick" is recorded, successfully or not, for a subscriber that
\* has gone as well; then the task sleeps, which may take any time.
Tick(s) ==
  /\ todo[s] = << >>
  /\ Goto(s, "item", "fetch")
  /\ UNCHANGED << boardVars, todo, seen, channel, open, got, failures, sent >>

Receive(s) ==
  /\ open[s] /\ channel[s] # << >>
  /\ channel' = [channel EXCEPT ![s] = Tail(@)]
  /\ got' = [got EXCEPT ![s] = @ \cup {Head(channel[s])}]
  /\ UNCHANGED << boardVars, pc, todo, seen, open, failures, sent >>

\* The subscriber goes away; the stream is dropped with what it holds.
Leave(s) ==
  /\ open[s]
  /\ open' = [open EXCEPT ![s] = FALSE]
  /\ channel' = [channel EXCEPT ![s] = << >>]
  /\ got' = [got EXCEPT ![s] = {}]
  /\ UNCHANGED << boardVars, pc, todo, seen, failures, sent >>

TaskStep(s) ==
  \/ Fetch(s) \/ FetchFails(s) \/ Skip(s) \/ Send(s) \/ SendToNobody(s)
  \/ SendError(s) \/ Tick(s)

Next ==
  \/ (NewsChange \/ ReaderStep) /\ UNCHANGED alertVars
  \/ \E s \in Subscriber : Subscribe(s) \/ TaskStep(s) \/ Receive(s) \/ Leave(s)

Spec == Init /\ [][Next]_vars

\* A task goes on while the runtime does; a subscriber that stays reads.
Fairness == \A s \in Subscriber : WF_vars(TaskStep(s)) /\ WF_vars(Receive(s))

FairSpec == Spec /\ Fairness
-----------------------------------------------------------------------------
\* A subscription is told of an event at most once, whatever happens to its
\* severity and its score, also when the event leaves the list and comes back.
AlertedOnce == \A s \in Subscriber, e \in Event : sent[s][e] <= 1

\* What the task will not send again has reached the subscriber, or is on its
\* way: nothing is marked as seen that was dropped on the way to the channel.
SeenArrives ==
  \A s \in Subscriber : open[s] => seen[s] \subseteq got[s] \cup ToSet(channel[s])

\* The event is among the first AlertLimit events and matches.
Alarming(e) ==
  /\ severity[e] # 0 /\ Matches(e)
  /\ Rank(e) < AlertLimit

\* An event that stays among the first AlertLimit is told to a subscriber that
\* stays, or its stream ends with an error.
AlarmArrives ==
  \A s \in Subscriber, e \in Event :
     []<> (~ (open[s] /\ Alarming(e)) \/ e \in got[s] \/ pc[s] = "ended")

\* The task of a subscriber that left ends as soon as there is something new to
\* say; until then it goes on fetching and recording its ticks.
OrphanEndsOnNews ==
  \A s \in Subscriber :
     []<> (\/ open[s] \/ pc[s] \in {"none", "ended"}
           \/ \A e \in Event : Alarming(e) => e \in seen[s])
=============================================================================
