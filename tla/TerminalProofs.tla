--------------------------- MODULE TerminalProofs ---------------------------
(***************************************************************************)
(* Proofs about the views of the terminal and their requests, under the    *)
(* session lock, for any symbols, events and sizes of the channels.        *)
(***************************************************************************)
EXTENDS Session, NaturalsInduction, WellFoundedInduction, TLAPS

(* Panels, requests and channels *)

LEMMA Panels ==
  /\ Panel = {"focus", "board", "detail", "risk"}
  /\ Subject["focus"] = [symbol : Symbol \cup {Nothing}, timeframe : Timeframe]
  /\ Subject["board"] = [severity : Severity, page : 0 .. LastPage]
  /\ Subject["detail"] = Event \cup {Nothing}
  /\ Subject["risk"] = Symbol \cup {Nothing}
  /\ \A p \in Panel : ChannelOf[p] = IF p = "focus" THEN "focus" ELSE "intel"
  /\ \A p \in Panel : ChannelOf[p] \in Channel
  /\ \A p \in Panel : Askable(p) \subseteq Subject[p]
  /\ \A p \in Panel \ {"focus"} : Askable(p) = Subject[p]
  /\ \A s \in Symbol, t \in Timeframe : [symbol |-> s, timeframe |-> t] \in Askable("focus")
  /\ \A x \in Askable("focus") : x.symbol \in Symbol
<1>1. Panel = {"focus", "board", "detail", "risk"}
  BY DEF Panel, Subject
<1>2. /\ Subject["focus"] = [symbol : Symbol \cup {Nothing}, timeframe : Timeframe]
      /\ Subject["board"] = [severity : Severity, page : 0 .. LastPage]
      /\ Subject["detail"] = Event \cup {Nothing}
      /\ Subject["risk"] = Symbol \cup {Nothing}
  BY DEF Subject
<1>3. /\ \A p \in Panel : ChannelOf[p] = IF p = "focus" THEN "focus" ELSE "intel"
      /\ \A p \in Panel : ChannelOf[p] \in Channel
  BY DEF ChannelOf, Channel
<1>4. /\ \A p \in Panel : Askable(p) \subseteq Subject[p]
      /\ \A p \in Panel \ {"focus"} : Askable(p) = Subject[p]
  BY DEF Askable
<1>5. \A s \in Symbol, t \in Timeframe : [symbol |-> s, timeframe |-> t] \in Askable("focus")
  BY <1>2, TerminalAssumption DEF Askable
<1>6. \A x \in Askable("focus") : x.symbol \in Symbol
  BY <1>2 DEF Askable
<1> QED BY <1>1, <1>2, <1>3, <1>4, <1>5, <1>6

LEMMA Capacities == \A c \in Channel : Capacity[c] \in Nat \ {0}
  BY TerminalAssumption DEF Channel, Capacity

LEMMA RequestIs ==
  /\ \A p \in Panel : \A subject \in Askable(p) : [panel |-> p, subject |-> subject] \in Request
  /\ \A r \in Request : /\ r.panel \in Panel /\ r.subject \in Askable(r.panel)
                        /\ r # Nothing
<1>1. ASSUME NEW p \in Panel, NEW subject \in Askable(p)
      PROVE  [panel |-> p, subject |-> subject] \in Request
  <2>1. [panel |-> p, subject |-> subject] \in [panel : {p}, subject : Askable(p)]
    OBVIOUS
  <2> QED BY <2>1 DEF Request
<1>2. ASSUME NEW r \in Request
      PROVE  r.panel \in Panel /\ r.subject \in Askable(r.panel) /\ r # Nothing
  <2>1. PICK p \in Panel : r \in [panel : {p}, subject : Askable(p)]
    BY DEF Request
  <2> QED BY <2>1, NothingAssumption
<1> QED BY <1>1, <1>2

LEMMA PanelState ==
  ASSUME NEW old, NEW p \in Panel, NEW new \in State(p),
         old \in [Panel -> UNION {State(q) : q \in Panel}],
         \A q \in Panel : old[q] \in State(q)
  PROVE  /\ [old EXCEPT ![p] = new] \in [Panel -> UNION {State(q) : q \in Panel}]
         /\ \A q \in Panel : [old EXCEPT ![p] = new][q] = IF q = p THEN new ELSE old[q]
         /\ \A q \in Panel : [old EXCEPT ![p] = new][q] \in State(q)
<1>1. new \in UNION {State(q) : q \in Panel}
  OBVIOUS
<1>2. \A q \in Panel : [old EXCEPT ![p] = new][q] = IF q = p THEN new ELSE old[q]
  OBVIOUS
<1> QED BY <1>1, <1>2
-----------------------------------------------------------------------------
(* Asking *)

\* Types of what a key may change.
AskedTypes ==
  /\ panel' \in [Panel -> UNION {State(p) : p \in Panel}]
  /\ \A p \in Panel : panel'[p] \in State(p)
  /\ queue' \in [Channel -> Seq(Request)]
  /\ \A c \in Channel : Len(queue'[c]) <= Capacity[c]
  /\ linked' \in BOOLEAN

\* Panel p was asked for a subject, which joined its channel if there was room.
AskedFor(p, subject) ==
  /\ panel'[p].asked = subject /\ panel'[p].loading
  /\ panel'[p].refused = ~ HasRoom(p)
  /\ panel'[p].shown = panel[p].shown
  /\ panel'[p].failed => panel[p].failed
  /\ HasRoom(p) =>
       queue'[ChannelOf[p]] = Append(queue[ChannelOf[p]], [panel |-> p, subject |-> subject])
  /\ ~ HasRoom(p) => queue'[ChannelOf[p]] = queue[ChannelOf[p]]

LEMMA Sending ==
  ASSUME TypeOK, NEW p \in Panel, NEW subject \in Askable(p)
  PROVE  /\ Loading(p, subject) \in State(p)
         /\ Loading(p, subject).asked = subject
         /\ Loading(p, subject).loading
         /\ Loading(p, subject).refused = ~ HasRoom(p)
         /\ Loading(p, subject).shown = panel[p].shown
         /\ ~ Loading(p, subject).failed
         /\ TrySend(p, subject) \in Seq(Request)
         /\ Len(TrySend(p, subject)) <= Capacity[ChannelOf[p]]
         /\ HasRoom(p) => TrySend(p, subject) =
              Append(queue[ChannelOf[p]], [panel |-> p, subject |-> subject])
         /\ ~ HasRoom(p) => TrySend(p, subject) = queue[ChannelOf[p]]
<1>1. panel[p] \in State(p) /\ subject \in Subject[p]
  BY Panels DEF TypeOK
<1>2. HasRoom(p) \in BOOLEAN
  BY DEF HasRoom
<1>3. /\ Loading(p, subject) \in State(p)
      /\ Loading(p, subject).asked = subject
      /\ Loading(p, subject).loading
      /\ Loading(p, subject).refused = ~ HasRoom(p)
      /\ Loading(p, subject).shown = panel[p].shown
      /\ ~ Loading(p, subject).failed
  BY <1>1, <1>2 DEF Loading, State
<1> DEFINE q == queue[ChannelOf[p]]
           request == [panel |-> p, subject |-> subject]
<1>4. q \in Seq(Request) /\ Len(q) \in Nat /\ Len(q) <= Capacity[ChannelOf[p]] /\ request \in Request
      /\ Capacity[ChannelOf[p]] \in Nat
  BY Panels, Capacities, RequestIs DEF TypeOK
<1>5. TrySend(p, subject) = IF Len(q) < Capacity[ChannelOf[p]] THEN Append(q, request) ELSE q
  BY DEF TrySend, HasRoom
<1>6. HasRoom(p) <=> Len(q) < Capacity[ChannelOf[p]]
  BY DEF HasRoom
<1> HIDE DEF q, request
<1>7. Append(q, request) \in Seq(Request) /\ Len(Append(q, request)) = Len(q) + 1
  BY <1>4
<1>8. TrySend(p, subject) \in Seq(Request) /\ Len(TrySend(p, subject)) <= Capacity[ChannelOf[p]]
  BY <1>4, <1>5, <1>7
<1>9. /\ HasRoom(p) => TrySend(p, subject) = Append(q, request)
      /\ ~ HasRoom(p) => TrySend(p, subject) = q
  BY <1>5, <1>6
<1> QED BY <1>3, <1>8, <1>9 DEF q, request

\* Nothing of panel p and of its requests changes.
Untouched(p) == panel'[p] = panel[p]

LEMMA AskTypes ==
  ASSUME TypeOK, NEW p \in Panel \ {"focus"}, NEW subject \in Subject[p], Ask(p, subject)
  PROVE  /\ AskedTypes /\ AskedFor(p, subject) /\ queue'["focus"] = queue["focus"]
         /\ \A q \in Panel \ {p} : Untouched(q)
<1>1. ChannelOf[p] = "intel" /\ Channel = {"focus", "intel"}
  BY Panels DEF Channel
<1>2. queue \in [Channel -> Seq(Request)] /\ \A c \in Channel : Len(queue[c]) <= Capacity[c]
  BY DEF TypeOK
<1>3. /\ queue' = [queue EXCEPT !["intel"] = TrySend(p, subject)]
      /\ panel' = [panel EXCEPT ![p] = Loading(p, subject)]
      /\ linked' \in BOOLEAN
  BY DEF Ask
<1>4. /\ TrySend(p, subject) \in Seq(Request) /\ Len(TrySend(p, subject)) <= Capacity["intel"]
      /\ Loading(p, subject) \in State(p)
  <2>1. subject \in Askable(p)
    BY Panels
  <2> QED BY <1>1, <2>1, Sending
<1>5. /\ queue' \in [Channel -> Seq(Request)]
      /\ queue'["intel"] = TrySend(p, subject) /\ queue'["focus"] = queue["focus"]
  BY <1>1, <1>2, <1>3, <1>4
<1>6. \A c \in Channel : Len(queue'[c]) <= Capacity[c]
  BY <1>1, <1>2, <1>4, <1>5
<1>7. /\ panel' \in [Panel -> UNION {State(q) : q \in Panel}]
      /\ \A q \in Panel : panel'[q] = IF q = p THEN Loading(p, subject) ELSE panel[q]
      /\ \A q \in Panel : panel'[q] \in State(q)
  BY <1>3, <1>4, PanelState DEF TypeOK
<1>8. AskedFor(p, subject)
  BY <1>1, <1>5, <1>7, Sending, Panels DEF AskedFor
<1> QED BY <1>3, <1>5, <1>6, <1>7, <1>8 DEF AskedTypes, Untouched

LEMMA AskLinkedTypes ==
  ASSUME TypeOK, NEW new \in State("focus"), NEW s \in Symbol, AskLinkedRisk(new, s)
  PROVE  /\ AskedTypes /\ AskedFor("risk", s) /\ queue'["focus"] = queue["focus"]
         /\ panel'["focus"] = new
         /\ \A q \in Panel \ {"focus", "risk"} : Untouched(q)
<1>1. ChannelOf["risk"] = "intel" /\ Channel = {"focus", "intel"} /\ s \in Askable("risk")
      /\ "risk" \in Panel /\ "focus" \in Panel
  BY Panels DEF Channel
<1>2. queue \in [Channel -> Seq(Request)] /\ \A c \in Channel : Len(queue[c]) <= Capacity[c]
  BY DEF TypeOK
<1> DEFINE middle == [panel EXCEPT !["focus"] = new]
<1>3. /\ queue' = [queue EXCEPT !["intel"] = TrySend("risk", s)]
      /\ panel' = [middle EXCEPT !["risk"] = Loading("risk", s)]
      /\ linked' \in BOOLEAN
  BY DEF AskLinkedRisk
<1>4. /\ TrySend("risk", s) \in Seq(Request) /\ Len(TrySend("risk", s)) <= Capacity["intel"]
      /\ Loading("risk", s) \in State("risk")
  BY <1>1, Sending
<1>5. /\ queue' \in [Channel -> Seq(Request)]
      /\ queue'["intel"] = TrySend("risk", s) /\ queue'["focus"] = queue["focus"]
  BY <1>1, <1>2, <1>3, <1>4
<1>6. \A c \in Channel : Len(queue'[c]) <= Capacity[c]
  BY <1>1, <1>2, <1>4, <1>5
<1>7. /\ middle \in [Panel -> UNION {State(q) : q \in Panel}]
      /\ \A q \in Panel : middle[q] = IF q = "focus" THEN new ELSE panel[q]
      /\ \A q \in Panel : middle[q] \in State(q)
  BY <1>1, PanelState DEF TypeOK
<1> HIDE DEF middle
<1>8. /\ panel' \in [Panel -> UNION {State(q) : q \in Panel}]
      /\ \A q \in Panel : panel'[q] = IF q = "risk" THEN Loading("risk", s) ELSE middle[q]
      /\ \A q \in Panel : panel'[q] \in State(q)
  BY <1>1, <1>3, <1>4, <1>7, PanelState
<1>9. AskedFor("risk", s)
  BY <1>1, <1>5, <1>8, Sending DEF AskedFor
<1>10. panel'["focus"] = new /\ \A q \in Panel \ {"focus", "risk"} : Untouched(q)
  BY <1>1, <1>7, <1>8 DEF Untouched
<1> QED BY <1>3, <1>5, <1>6, <1>8, <1>9, <1>10 DEF AskedTypes

LEMMA AskFocusTypes ==
  ASSUME TypeOK, NEW new \in State("focus"), NEW s \in Symbol, NEW t \in Timeframe,
         AskFocus(new, s, t)
  PROVE  /\ AskedTypes /\ AskedFor("risk", s) /\ panel'["focus"] = new
         /\ queue'["focus"] = TrySend("focus", [symbol |-> s, timeframe |-> t])
         /\ \A q \in Panel \ {"focus", "risk"} : Untouched(q)
<1>1. /\ ChannelOf["risk"] = "intel" /\ ChannelOf["focus"] = "focus" /\ Channel = {"focus", "intel"}
      /\ s \in Askable("risk") /\ [symbol |-> s, timeframe |-> t] \in Askable("focus")
      /\ "risk" \in Panel /\ "focus" \in Panel
  BY Panels DEF Channel
<1> DEFINE middle == [panel EXCEPT !["focus"] = new]
<1>3. /\ queue' = [focus |-> TrySend("focus", [symbol |-> s, timeframe |-> t]),
                   intel |-> TrySend("risk", s)]
      /\ panel' = [middle EXCEPT !["risk"] = Loading("risk", s)]
      /\ linked' \in BOOLEAN
  BY DEF AskFocus
<1>4. /\ TrySend("risk", s) \in Seq(Request) /\ Len(TrySend("risk", s)) <= Capacity["intel"]
      /\ Loading("risk", s) \in State("risk")
      /\ TrySend("focus", [symbol |-> s, timeframe |-> t]) \in Seq(Request)
      /\ Len(TrySend("focus", [symbol |-> s, timeframe |-> t])) <= Capacity["focus"]
  BY <1>1, Sending
<1>5. /\ queue' \in [Channel -> Seq(Request)]
      /\ queue'["intel"] = TrySend("risk", s)
      /\ queue'["focus"] = TrySend("focus", [symbol |-> s, timeframe |-> t])
  BY <1>1, <1>3, <1>4
<1>6. \A c \in Channel : Len(queue'[c]) <= Capacity[c]
  BY <1>1, <1>4, <1>5
<1>7. /\ middle \in [Panel -> UNION {State(q) : q \in Panel}]
      /\ \A q \in Panel : middle[q] = IF q = "focus" THEN new ELSE panel[q]
      /\ \A q \in Panel : middle[q] \in State(q)
  BY <1>1, PanelState DEF TypeOK
<1> HIDE DEF middle
<1>8. /\ panel' \in [Panel -> UNION {State(q) : q \in Panel}]
      /\ \A q \in Panel : panel'[q] = IF q = "risk" THEN Loading("risk", s) ELSE middle[q]
      /\ \A q \in Panel : panel'[q] \in State(q)
  BY <1>1, <1>3, <1>4, <1>7, PanelState
<1>9. AskedFor("risk", s)
  BY <1>1, <1>5, <1>8, Sending DEF AskedFor
<1>10. panel'["focus"] = new /\ \A q \in Panel \ {"focus", "risk"} : Untouched(q)
  BY <1>1, <1>7, <1>8 DEF Untouched
<1> QED BY <1>3, <1>5, <1>6, <1>8, <1>9, <1>10 DEF AskedTypes
-----------------------------------------------------------------------------
(* Keys *)

\* What a panel shows and waits for is as before; it asks for the same, or has
\* nothing to ask for yet.
Still(p) ==
  /\ panel'[p].shown = panel[p].shown /\ panel'[p].loading = panel[p].loading
  /\ panel'[p].failed = panel[p].failed /\ panel'[p].refused = panel[p].refused
  /\ \/ panel'[p].asked = panel[p].asked
     \/ p = "focus" /\ panel[p].asked.symbol = Nothing /\ panel'[p].asked.symbol = Nothing

\* A channel is as before, or a panel was asked for what joins it.
Grows(c) ==
  \/ queue'[c] = queue[c]
  \/ \E p \in Panel : \E subject \in Askable(p) :
       /\ ChannelOf[p] = c /\ AskedFor(p, subject)
       /\ queue'[c] = Append(queue[c], [panel |-> p, subject |-> subject])

\* The channel of panel p is as before, or another panel's request joins it.
Passes(p) ==
  \/ queue'[ChannelOf[p]] = queue[ChannelOf[p]]
  \/ \E o \in Panel \ {p} : \E subject \in Askable(o) :
       queue'[ChannelOf[p]] = Append(queue[ChannelOf[p]], [panel |-> o, subject |-> subject])

\* The risk panel belongs to the focus view only if it was left alone, or both
\* are asked for the same symbol.
Links ==
  \/ ~ linked'
  \/ linked' = linked /\ Untouched("risk") /\ Passes("risk")
  \/ \E subject \in Askable("focus") : AskedFor("focus", subject)
  \/ Untouched("focus") /\ AskedFor("risk", panel["focus"].asked.symbol)

Effect ==
  /\ AskedTypes /\ Links
  /\ \A p \in Panel : Still(p) \/ \E subject \in Askable(p) : AskedFor(p, subject)
  /\ \A c \in Channel : Grows(c)

LEMMA UntouchedIsStill == \A p : Untouched(p) => Still(p)
  BY DEF Untouched, Still

LEMMA AskEffect ==
  ASSUME TypeOK, NEW p \in Panel \ {"focus"}, NEW subject \in Subject[p], Ask(p, subject)
  PROVE  Effect
<1>1. /\ AskedTypes /\ AskedFor(p, subject) /\ queue'["focus"] = queue["focus"]
      /\ \A q \in Panel \ {p} : Untouched(q)
      /\ subject \in Askable(p)
  BY AskTypes, Panels
<1>2. Grows("intel") /\ Grows("focus") /\ Channel = {"focus", "intel"}
  <2>1. ChannelOf[p] = "intel"
    BY Panels
  <2>2. \/ queue'["intel"] = queue["intel"]
        \/ queue'["intel"] = Append(queue["intel"], [panel |-> p, subject |-> subject])
    BY <1>1, <2>1 DEF AskedFor
  <2> QED BY <1>1, <2>1, <2>2 DEF Grows, Channel
<1>3. Links
  <2>1. CASE p = "risk"
    BY <2>1 DEF Links, Ask
  <2>2. CASE p # "risk"
    <3>1. linked' = linked /\ Untouched("risk")
      BY <1>1, <2>2, Panels DEF Ask, TypeOK
    <3>2. ChannelOf["risk"] = "intel" /\ ChannelOf[p] = "intel"
      BY Panels
    <3>3. Passes("risk")
      BY <1>1, <2>2, <3>2 DEF AskedFor, Passes
    <3> QED BY <3>1, <3>3 DEF Links
  <2> QED BY <2>1, <2>2
<1> QED BY <1>1, <1>2, <1>3, UntouchedIsStill DEF Effect

\* Asking for a risk: the request joins its channel, or is refused.
LEMMA RiskGrows ==
  ASSUME NEW s \in Symbol, s \in Askable("risk"), AskedFor("risk", s)
  PROVE  Grows("intel")
<1>1. ChannelOf["risk"] = "intel" /\ "risk" \in Panel
  BY Panels
<1>2. CASE HasRoom("risk")
  <2>1. queue'["intel"] = Append(queue["intel"], [panel |-> "risk", subject |-> s])
    BY <1>1, <1>2 DEF AskedFor
  <2> QED BY <1>1, <2>1 DEF Grows
<1>3. CASE ~ HasRoom("risk")
  <2>1. queue'["intel"] = queue["intel"]
    BY <1>1, <1>3 DEF AskedFor
  <2> QED BY <2>1 DEF Grows
<1> QED BY <1>2, <1>3

LEMMA AskLinkedEffect ==
  ASSUME TypeOK, NEW s \in Symbol, s = panel["focus"].asked.symbol, AskLinkedRisk(panel["focus"], s)
  PROVE  Effect
<1>1. panel["focus"] \in State("focus") /\ s \in Askable("risk")
  <2>1. "focus" \in Panel /\ s \in Subject["risk"] /\ Askable("risk") = Subject["risk"]
    BY Panels
  <2> QED BY <2>1 DEF TypeOK
<1>2. /\ AskedTypes /\ AskedFor("risk", s) /\ queue'["focus"] = queue["focus"]
      /\ panel'["focus"] = panel["focus"]
      /\ \A q \in Panel \ {"focus", "risk"} : Untouched(q)
  BY <1>1, AskLinkedTypes
<1>3. Grows("intel") /\ Grows("focus") /\ Channel = {"focus", "intel"}
  <2>1. Grows("intel")
    BY <1>1, <1>2, RiskGrows
  <2>2. Grows("focus")
    BY <1>2 DEF Grows
  <2> QED BY <2>1, <2>2 DEF Channel
<1>4. \A q \in Panel : Still(q) \/ \E subject \in Askable(q) : AskedFor(q, subject)
  <2>1. Untouched("focus")
    BY <1>2 DEF Untouched
  <2> QED BY <1>1, <1>2, <2>1, UntouchedIsStill
<1>5. Links
  BY <1>2 DEF Links, Untouched
<1> QED BY <1>2, <1>3, <1>4, <1>5 DEF Effect

LEMMA AskFocusEffect ==
  ASSUME TypeOK, NEW new \in State("focus"), NEW s \in Symbol, NEW t \in Timeframe,
         AskFocus(new, s, t),
         new.asked = [symbol |-> s, timeframe |-> t], new.loading,
         new.refused = ~ HasRoom("focus"), new.shown = panel["focus"].shown,
         new.failed => panel["focus"].failed
  PROVE  Effect
<1> DEFINE subject == [symbol |-> s, timeframe |-> t]
<1>1. subject \in Askable("focus") /\ s \in Askable("risk") /\ "focus" \in Panel /\ "risk" \in Panel
  BY Panels
<1>2. /\ AskedTypes /\ AskedFor("risk", s) /\ panel'["focus"] = new
      /\ queue'["focus"] = TrySend("focus", subject)
      /\ \A q \in Panel \ {"focus", "risk"} : Untouched(q)
  BY AskFocusTypes
<1>3. /\ ChannelOf["focus"] = "focus"
      /\ HasRoom("focus") => TrySend("focus", subject) = Append(queue["focus"], [panel |-> "focus", subject |-> subject])
      /\ ~ HasRoom("focus") => TrySend("focus", subject) = queue["focus"]
  <2>1. ChannelOf["focus"] = "focus"
    BY Panels
  <2>2. /\ HasRoom("focus") => TrySend("focus", subject) = Append(queue[ChannelOf["focus"]], [panel |-> "focus", subject |-> subject])
        /\ ~ HasRoom("focus") => TrySend("focus", subject) = queue[ChannelOf["focus"]]
    BY <1>1, Sending
  <2> QED BY <2>1, <2>2
<1> HIDE DEF subject
<1>4. AskedFor("focus", subject)
  BY <1>2, <1>3 DEF AskedFor, subject
<1>5. Grows("intel") /\ Grows("focus") /\ Channel = {"focus", "intel"}
  <2>1. Grows("focus")
    <3>1. CASE HasRoom("focus")
      <4>1. queue'["focus"] = Append(queue["focus"], [panel |-> "focus", subject |-> subject])
        BY <1>2, <1>3, <3>1 DEF subject
      <4> QED BY <1>1, <1>3, <1>4, <4>1 DEF Grows
    <3>2. CASE ~ HasRoom("focus")
      BY <1>2, <1>3, <3>2 DEF Grows
    <3> QED BY <3>1, <3>2
  <2>2. Grows("intel")
    BY <1>1, <1>2, RiskGrows
  <2> QED BY <2>1, <2>2 DEF Channel
<1>6. \A q \in Panel : Still(q) \/ \E x \in Askable(q) : AskedFor(q, x)
  BY <1>1, <1>2, <1>4, UntouchedIsStill
<1>7. Links
  BY <1>1, <1>4 DEF Links
<1> QED BY <1>2, <1>5, <1>6, <1>7 DEF Effect

LEMMA NothingEffect ==
  ASSUME TypeOK, AskNothing
  PROVE  Effect
<1>1. \A q \in Panel : Untouched(q)
  BY DEF AskNothing, Untouched
<1>2. Links
  BY <1>1, Panels DEF AskNothing, Links, Passes
<1> QED BY <1>1, <1>2, UntouchedIsStill DEF TypeOK, AskNothing, Effect, AskedTypes, Grows

LEMMA FocusState ==
  ASSUME TypeOK, NEW s \in Symbol, NEW t \in Timeframe, NEW b \in BOOLEAN
  PROVE  LET new == [Loading("focus", [symbol |-> s, timeframe |-> t]) EXCEPT !.failed = b]
         IN  /\ new \in State("focus") /\ new.asked = [symbol |-> s, timeframe |-> t] /\ new.loading
             /\ new.refused = ~ HasRoom("focus") /\ new.shown = panel["focus"].shown
             /\ new.failed = b
<1> DEFINE subject == [symbol |-> s, timeframe |-> t]
           loading == Loading("focus", subject)
<1>1. /\ loading \in State("focus") /\ loading.asked = subject /\ loading.loading
      /\ loading.refused = ~ HasRoom("focus") /\ loading.shown = panel["focus"].shown
  BY Panels, Sending
<1> HIDE DEF loading
<1> QED BY <1>1 DEF State, loading

LEMMA KeyEffect ==
  ASSUME TypeOK, Key
  PROVE  /\ Effect /\ view' \in 1 .. 9 /\ keys' \in 0 .. MaxKeys
         /\ UNCHANGED << fetch, drained, results >>
<1> USE Panels DEF Focus, Board, Detail, Risk
<1>1. Press => keys' \in 0 .. MaxKeys /\ UNCHANGED << fetch, drained, results >>
  BY TerminalAssumption DEF Press, TypeOK
<1>p. /\ panel["focus"] \in State("focus") /\ panel["focus"].asked \in Subject["focus"]
      /\ panel["board"].asked \in Subject["board"] /\ panel["detail"].asked \in Subject["detail"]
      /\ panel["board"].shown \in Subject["board"] \cup {Nothing}
      /\ view \in 1 .. 9
  BY DEF TypeOK, State
<1>r. AskRisk => Effect
  <2> SUFFICES ASSUME NEW s \in Symbol, Ask("risk", s) PROVE Effect
    BY DEF AskRisk
  <2> QED BY AskEffect
<1>b. \A subject \in Subject["board"] : Ask("board", subject) => Effect
  BY AskEffect
<1>d. \A subject \in Subject["detail"] : Ask("detail", subject) => Effect
  BY AskEffect
<1>2. ASSUME NEW d \in Digit, OpenView(d)
      PROVE  Effect /\ view' \in 1 .. 9 /\ Press
  <2>1. Press /\ view' = d /\ d \in 1 .. 9
    BY <1>2, TerminalAssumption DEF OpenView
  <2>2. Ask("board", panel["board"].asked) \/ AskRisk \/ AskNothing
    BY <1>2 DEF OpenView
  <2> QED BY <1>b, <1>p, <1>r, <2>1, <2>2, NothingEffect
<1>3. ASSUME Cycle PROVE Effect /\ view' \in 1 .. 9 /\ Press
  <2>1. Press /\ view' \in 1 .. 9 /\ (AskRisk \/ AskNothing)
    BY <1>3, <1>p DEF Cycle
  <2> QED BY <1>r, <2>1, NothingEffect
<1>4. ASSUME NEW s \in Symbol, FocusOn(s) PROVE Effect /\ view' \in 1 .. 9 /\ Press
  <2> DEFINE t == panel["focus"].asked.timeframe
             new == Loading("focus", [symbol |-> s, timeframe |-> t])
  <2>1. t \in Timeframe /\ [symbol |-> s, timeframe |-> t] \in Askable("focus")
    BY <1>p
  <2>2. /\ new \in State("focus") /\ new.asked = [symbol |-> s, timeframe |-> t] /\ new.loading
        /\ new.refused = ~ HasRoom("focus") /\ new.shown = panel["focus"].shown
        /\ ~ new.failed
    BY <2>1, Sending
  <2>3. AskFocus(new, s, t)
    BY <1>4 DEF FocusOn
  <2> HIDE DEF t, new
  <2>4. Effect
    BY <2>1, <2>2, <2>3, AskFocusEffect
  <2> QED BY <1>4, <2>4 DEF FocusOn
<1>5. ASSUME CycleTimeframe PROVE Effect /\ view' \in 1 .. 9 /\ Press
  <2> DEFINE s == panel["focus"].asked.symbol
             t == NextTimeframe[panel["focus"].asked.timeframe]
  <2>1. t \in Timeframe /\ s \in Symbol \cup {Nothing}
    BY <1>p DEF NextTimeframe, Timeframe
  <2>2. Press /\ view' \in 1 .. 9
    BY <1>5, <1>p DEF CycleTimeframe
  <2>3. CASE s = Nothing
    <3> DEFINE new == [panel["focus"] EXCEPT !.asked.timeframe = t]
    <3>1. panel' = [panel EXCEPT !["focus"] = new] /\ UNCHANGED << queue, linked >>
      BY <1>5, <2>3 DEF CycleTimeframe
    <3>2. /\ new \in State("focus") /\ new.asked.symbol = Nothing
          /\ new.shown = panel["focus"].shown /\ new.loading = panel["focus"].loading
          /\ new.failed = panel["focus"].failed /\ new.refused = panel["focus"].refused
      BY <1>p, <2>1, <2>3 DEF State
    <3> HIDE DEF new
    <3>3. /\ panel' \in [Panel -> UNION {State(q) : q \in Panel}]
          /\ \A q \in Panel : panel'[q] = IF q = "focus" THEN new ELSE panel[q]
          /\ \A q \in Panel : panel'[q] \in State(q)
      BY <3>1, <3>2, PanelState DEF TypeOK
    <3>4. \A q \in Panel : Still(q)
      BY <2>3, <3>2, <3>3 DEF Still
    <3>5. Links
      BY <3>1, <3>3 DEF Links, Passes, Untouched
    <3>6. Effect
      BY <3>1, <3>3, <3>4, <3>5 DEF TypeOK, Effect, AskedTypes, Grows
    <3> QED BY <2>2, <3>6
  <2>4. CASE s # Nothing
    <3> DEFINE new == [Loading("focus", [symbol |-> s, timeframe |-> t])
                         EXCEPT !.failed = panel["focus"].failed]
    <3>1. AskFocus(new, s, t)
      BY <1>5, <2>4 DEF CycleTimeframe
    <3>2. s \in Symbol /\ panel["focus"].failed \in BOOLEAN
      BY <1>p, <2>1, <2>4 DEF State
    <3>3. /\ new \in State("focus") /\ new.asked = [symbol |-> s, timeframe |-> t] /\ new.loading
          /\ new.refused = ~ HasRoom("focus") /\ new.shown = panel["focus"].shown
          /\ new.failed = panel["focus"].failed
      BY <2>1, <3>2, FocusState
    <3> HIDE DEF new, s, t
    <3>4. Effect
      BY <2>1, <3>1, <3>2, <3>3, AskFocusEffect
    <3> QED BY <2>2, <3>4
  <2> QED BY <2>3, <2>4
<1>6. ASSUME Refresh PROVE Effect /\ view' \in 1 .. 9 /\ Press
  <2>1. Press /\ view' \in 1 .. 9
    BY <1>6, <1>p DEF Refresh
  <2>2. \/ panel["detail"].asked # Nothing /\ Ask("detail", panel["detail"].asked)
        \/ Ask("board", panel["board"].asked)
        \/ AskRisk
        \/ /\ panel["focus"].asked.symbol # Nothing
           /\ AskLinkedRisk(panel["focus"], panel["focus"].asked.symbol)
    BY <1>6 DEF Refresh
  <2>3. ASSUME panel["focus"].asked.symbol # Nothing,
               AskLinkedRisk(panel["focus"], panel["focus"].asked.symbol)
        PROVE  Effect
    <3>1. panel["focus"].asked.symbol \in Symbol
      BY <1>p, <2>3
    <3> QED BY <2>3, <3>1, AskLinkedEffect
  <2> QED BY <1>b, <1>d, <1>p, <1>r, <2>1, <2>2, <2>3
<1>7. ASSUME ChangeBoard PROVE Effect /\ view' \in 1 .. 9 /\ Press
  <2>1. Press /\ view' \in 1 .. 9
    BY <1>7, <1>p DEF ChangeBoard
  <2>2. PICK subject \in Subject["board"] : Ask("board", subject)
    <3>1. /\ [severity |-> NextSeverity[panel["board"].asked.severity], page |-> 0] \in Subject["board"]
          /\ [panel["board"].asked EXCEPT !.page = 0] \in Subject["board"]
      <4>1. \A x \in Severity : NextSeverity[x] \in Severity
        BY DEF NextSeverity, Severity
      <4>2. 0 \in 0 .. LastPage
        BY TerminalAssumption
      <4>3. Subject["board"] = [severity : Severity, page : 0 .. LastPage]
            /\ panel["board"].asked \in Subject["board"]
        BY <1>p
      <4> QED BY <4>1, <4>2, <4>3
    <3>2. ASSUME panel["board"].shown # Nothing, panel["board"].shown.page < LastPage
          PROVE  [panel["board"].asked EXCEPT !.page = panel["board"].shown.page + 1] \in Subject["board"]
      <4>1. panel["board"].shown.page + 1 \in 0 .. LastPage
        BY <1>p, <3>2, TerminalAssumption
      <4> QED BY <1>p, <4>1
    <3> QED BY <1>7, <1>p, <3>1, <3>2 DEF ChangeBoard
  <2> QED BY <1>b, <2>1, <2>2
<1>8. ASSUME SelectRisk PROVE Effect /\ view' \in 1 .. 9 /\ Press
  BY <1>8, <1>p, <1>r DEF SelectRisk
<1>9. ASSUME NEW e \in Event, OpenEvent(e) PROVE Effect /\ view' \in 1 .. 9 /\ Press
  BY <1>9, <1>d DEF OpenEvent
<1> QED BY <1>1, <1>2, <1>3, <1>4, <1>5, <1>6, <1>7, <1>8, <1>9 DEF Key
-----------------------------------------------------------------------------
(* The fetchers and the results *)

LEMMA HeadTail ==
  ASSUME NEW S, NEW q \in Seq(S), q # << >>
  PROVE  /\ Head(q) = q[1] /\ Head(q) \in S /\ Len(q) \in Nat /\ 1 \in 1 .. Len(q)
         /\ Tail(q) \in Seq(S) /\ Len(Tail(q)) = Len(q) - 1
         /\ \A i \in 1 .. Len(Tail(q)) : Tail(q)[i] = q[i + 1] /\ i + 1 \in 1 .. Len(q)
  OBVIOUS

LEMMA Appended ==
  ASSUME NEW S, NEW q \in Seq(S), NEW x \in S
  PROVE  /\ Append(q, x) \in Seq(S) /\ Len(q) \in Nat /\ Len(Append(q, x)) = Len(q) + 1
         /\ Append(q, x)[Len(q) + 1] = x
         /\ \A i \in 1 .. Len(q) : Append(q, x)[i] = q[i] /\ q[i] \in S
  OBVIOUS

\* A request leaves its channel; the fetcher was free.
LEMMA ReceiveTypes ==
  ASSUME TypeOK, NEW c \in Channel, Receive(c)
  PROVE  /\ TypeOK' /\ queue[c] \in Seq(Request) /\ queue[c] # << >>
         /\ fetch'[c] = Head(queue[c]) /\ queue'[c] = Tail(queue[c])
         /\ \A d \in Channel \ {c} : fetch'[d] = fetch[d] /\ queue'[d] = queue[d]
<1>1. /\ queue[c] \in Seq(Request) /\ queue[c] # << >>
      /\ fetch' = [fetch EXCEPT ![c] = Head(queue[c])]
      /\ queue' = [queue EXCEPT ![c] = Tail(queue[c])]
  BY DEF TypeOK, Receive
<1>2. /\ Head(queue[c]) \in Request /\ Tail(queue[c]) \in Seq(Request) /\ Len(queue[c]) \in Nat
      /\ Len(Tail(queue[c])) = Len(queue[c]) - 1
  BY <1>1, HeadTail
<1>3. /\ fetch'[c] = Head(queue[c]) /\ queue'[c] = Tail(queue[c])
      /\ \A d \in Channel \ {c} : fetch'[d] = fetch[d] /\ queue'[d] = queue[d]
  BY <1>1 DEF TypeOK
<1>4. \A d \in Channel : Len(queue'[d]) <= Capacity[d]
  BY <1>2, <1>3, Capacities DEF TypeOK
<1>5. fetch' \in [Channel -> Request \cup {Nothing}] /\ queue' \in [Channel -> Seq(Request)]
  BY <1>1, <1>2 DEF TypeOK
<1> QED BY <1>1, <1>3, <1>4, <1>5 DEF TypeOK, Receive

\* The newest of the requests for the focus view.
Newest == IF queue["focus"] = << >> THEN fetch["focus"] ELSE queue["focus"][Len(queue["focus"])]

LEMMA DrainTypes ==
  ASSUME TypeOK, Drain
  PROVE  /\ TypeOK' /\ fetch["focus"] # Nothing /\ Newest \in Request
         /\ fetch'["focus"] = Newest /\ queue'["focus"] = << >>
         /\ fetch'["intel"] = fetch["intel"] /\ queue'["intel"] = queue["intel"]
<1>1. /\ fetch["focus"] \in Request /\ fetch["focus"] # Nothing
      /\ Channel = {"focus", "intel"} /\ queue["focus"] \in Seq(Request)
      /\ fetch' = [fetch EXCEPT !["focus"] = Last(<< fetch["focus"] >> \o queue["focus"])]
      /\ queue' = [queue EXCEPT !["focus"] = << >>]
  BY DEF TypeOK, Drain, Channel
<1>2. Newest \in Request /\ Last(<< fetch["focus"] >> \o queue["focus"]) = Newest
  <2> DEFINE q == queue["focus"]
             r == fetch["focus"]
  <2>1. q \in Seq(Request) /\ r \in Request /\ Newest = IF q = << >> THEN r ELSE q[Len(q)]
    BY <1>1 DEF Newest
  <2> HIDE DEF q, r
  <2>2. << r >> \in Seq(Request) /\ Len(<< r >>) = 1 /\ << r >>[1] = r
    BY <2>1
  <2>3. /\ << r >> \o q \in Seq(Request) /\ Len(<< r >> \o q) = 1 + Len(q) /\ Len(q) \in Nat
        /\ \A i \in 1 .. 1 + Len(q) : (<< r >> \o q)[i] = IF i <= 1 THEN << r >>[i] ELSE q[i - 1]
    BY <2>1, <2>2
  <2>4. Last(<< r >> \o q) = (<< r >> \o q)[1 + Len(q)]
    BY <2>3 DEF Last
  <2>5. CASE q = << >>
    <3>1. Len(q) = 0
      BY <2>5
    <3> QED BY <2>1, <2>2, <2>3, <2>4, <2>5, <3>1 DEF q, r
  <2>6. CASE q # << >>
    <3>1. Len(q) >= 1 /\ q[Len(q)] \in Request
      BY <2>1, <2>6
    <3>2. (<< r >> \o q)[1 + Len(q)] = q[Len(q)]
      BY <2>3, <3>1
    <3> QED BY <2>1, <2>4, <2>6, <3>1, <3>2 DEF q, r
  <2> QED BY <2>5, <2>6
<1>3. /\ fetch'["focus"] = Newest /\ queue'["focus"] = << >>
      /\ fetch'["intel"] = fetch["intel"] /\ queue'["intel"] = queue["intel"]
  BY <1>1, <1>2 DEF TypeOK
<1>4. fetch' \in [Channel -> Request \cup {Nothing}]
  BY <1>1, <1>2 DEF TypeOK
<1>5. queue' \in [Channel -> Seq(Request)]
  BY <1>1 DEF TypeOK
<1>6. \A d \in Channel : Len(queue'[d]) <= Capacity[d]
  <2>1. Len(queue'["focus"]) = 0
    BY <1>3
  <2> QED BY <1>1, <1>3, <2>1, Capacities DEF TypeOK
<1> QED BY <1>1, <1>2, <1>3, <1>4, <1>5, <1>6 DEF TypeOK, Drain

LEMMA AnswerTypes ==
  ASSUME TypeOK, NEW c \in Channel, Answer(c)
  PROVE  /\ TypeOK' /\ fetch[c] \in Request /\ fetch'[c] = Nothing
         /\ UNCHANGED << panel, linked, queue >>
         /\ \A d \in Channel \ {c} : fetch'[d] = fetch[d]
         /\ \E ok \in BOOLEAN : results' = Append(results, [request |-> fetch[c], ok |-> ok])
<1>1. fetch[c] # Nothing /\ \E ok \in BOOLEAN : Deliver(c, ok)
  BY DEF Answer, AnswerFocus, AnswerIntel, AnswerRisk, Fetching
<1>2. PICK ok \in BOOLEAN : Deliver(c, ok)
  BY <1>1
<1>3. fetch[c] \in Request
  BY <1>1 DEF TypeOK
<1> DEFINE result == [request |-> fetch[c], ok |-> ok]
<1>4. result \in Result /\ results \in Seq(Result)
  BY <1>3 DEF Result, TypeOK
<1>5. /\ results' = Append(results, result) /\ Len(results) < EventCapacity
      /\ fetch' = [fetch EXCEPT ![c] = Nothing] /\ drained' \in BOOLEAN
      /\ UNCHANGED << view, panel, linked, queue, keys >>
  BY <1>2 DEF Deliver
<1> HIDE DEF result
<1>6. Append(results, result) \in Seq(Result) /\ Len(Append(results, result)) = Len(results) + 1
      /\ Len(results) \in Nat
  BY <1>4, Appended
<1>7. results' \in Seq(Result) /\ Len(results') <= EventCapacity
  BY <1>5, <1>6, TerminalAssumption
<1>8. /\ fetch' \in [Channel -> Request \cup {Nothing}] /\ fetch'[c] = Nothing
      /\ \A d \in Channel \ {c} : fetch'[d] = fetch[d]
  BY <1>5 DEF TypeOK
<1> QED BY <1>3, <1>5, <1>7, <1>8 DEF TypeOK, result

\* A result for panel o is over: it failed, or its subject is shown.
Over(o, subject) ==
  /\ ~ panel'[o].loading /\ panel'[o].refused = panel[o].refused
  /\ \/ /\ panel'[o].failed /\ panel'[o].shown = panel[o].shown
        /\ panel'[o].asked = panel[o].asked
     \/ /\ ~ panel'[o].failed /\ panel'[o].shown = subject
        /\ panel'[o].asked = IF o = "risk" THEN subject ELSE panel[o].asked

\* It leaves the other panels alone, or its bundle asks for a risk.
Others(o) ==
  \A q \in Panel \ {o} :
     \/ Untouched(q)
     \/ q = "risk" /\ \E s \in Askable("risk") : AskedFor("risk", s)

\* It leaves the strip of the focus view alone, or asks for it again.
LinkedBy(o, subject) ==
  \/ /\ linked' = linked /\ (o = "focus" => panel'[o].failed)
     /\ o # "risk" => Untouched("risk") /\ Passes("risk")
  \/ o = "focus" /\ AskedFor("risk", subject.symbol)

LEMMA ApplyTypes ==
  ASSUME TypeOK, Apply
  PROVE  /\ TypeOK' /\ results # << >> /\ results' = Tail(results) /\ fetch' = fetch
         /\ \A c \in Channel : Grows(c)
         /\ LET p == results[1].request.panel
                subject == results[1].request.subject
            IN  /\ p \in Panel /\ subject \in Askable(p)
                /\ Over(p, subject) /\ Others(p) /\ LinkedBy(p, subject)
<1> DEFINE p == results[1].request.panel
           subject == results[1].request.subject
<1>1. /\ results \in Seq(Result) /\ results # << >> /\ Len(results) <= EventCapacity
      /\ results' = Tail(results) /\ UNCHANGED << view, fetch, drained, keys >>
  BY DEF TypeOK, Apply
<1>2. /\ Head(results) = results[1] /\ results[1] \in Result
      /\ results' \in Seq(Result) /\ Len(results') = Len(results) - 1 /\ Len(results) \in Nat
  BY <1>1, HeadTail
<1>3. p \in Panel /\ subject \in Askable(p) /\ subject \in Subject[p]
  BY <1>2, RequestIs, Panels DEF Result
<1>4. \/ ApplyFailure(p)
      \/ p = "focus" /\ ApplyFocus(subject)
      \/ p = "risk" /\ ApplyRisk(subject)
      \/ p \in {"board", "detail"} /\ ApplyIntel(p, subject)
  BY <1>2 DEF Apply
<1>5. Len(results') <= EventCapacity
  BY <1>1, <1>2, TerminalAssumption
<1> HIDE DEF p, subject
<1>6. AskedTypes => TypeOK'
  BY <1>1, <1>2, <1>5 DEF AskedTypes, TypeOK
\* One panel changes and nothing is asked for.
<1>7. ASSUME NEW new \in State(p), panel' = [panel EXCEPT ![p] = new], UNCHANGED << queue, linked >>
      PROVE  /\ AskedTypes /\ panel'[p] = new /\ Others(p) /\ \A c \in Channel : Grows(c)
             /\ linked' = linked /\ (p # "risk" => Untouched("risk") /\ Passes("risk"))
  <2>1. /\ panel' \in [Panel -> UNION {State(q) : q \in Panel}]
        /\ \A q \in Panel : panel'[q] = IF q = p THEN new ELSE panel[q]
        /\ \A q \in Panel : panel'[q] \in State(q)
    BY <1>3, <1>7, PanelState DEF TypeOK
  <2>2. Others(p)
    <3>1. \A q \in Panel \ {p} : Untouched(q)
      BY <2>1 DEF Untouched
    <3> QED BY <3>1 DEF Others
  <2>3. \A c \in Channel : Grows(c)
    BY <1>7 DEF Grows
  <2>4. linked' = linked /\ (p # "risk" => Untouched("risk") /\ Passes("risk"))
    BY <1>7, <2>1, Panels DEF Untouched, Passes
  <2> QED BY <1>3, <1>7, <2>1, <2>2, <2>3, <2>4 DEF AskedTypes, TypeOK
<1>8. CASE ApplyFailure(p)
  <2> DEFINE new == [panel[p] EXCEPT !.loading = FALSE, !.failed = TRUE]
  <2>1. panel[p] \in State(p)
    BY <1>3 DEF TypeOK
  <2>2. /\ new \in State(p) /\ ~ new.loading /\ new.failed /\ new.refused = panel[p].refused
        /\ new.shown = panel[p].shown /\ new.asked = panel[p].asked
    BY <2>1 DEF State
  <2>3. panel' = [panel EXCEPT ![p] = new] /\ UNCHANGED << queue, linked >>
    BY <1>3, <1>8 DEF ApplyFailure, TypeOK
  <2> HIDE DEF new
  <2>4. AskedTypes /\ panel'[p] = new /\ Others(p) /\ \A c \in Channel : Grows(c)
    BY <1>7, <2>2, <2>3
  <2>5. Over(p, subject)
    BY <2>2, <2>4 DEF Over
  <2>6. LinkedBy(p, subject)
    BY <1>7, <2>2, <2>3, <2>4 DEF LinkedBy
  <2> QED BY <1>1, <1>3, <1>6, <2>4, <2>5, <2>6 DEF p, subject
<1>s. /\ Shown(p, subject) \in State(p) /\ ~ Shown(p, subject).loading /\ ~ Shown(p, subject).failed
      /\ Shown(p, subject).refused = panel[p].refused
      /\ Shown(p, subject).shown = subject /\ Shown(p, subject).asked = panel[p].asked
  <2>1. panel[p] \in State(p)
    BY <1>3 DEF TypeOK
  <2> QED BY <1>3, <2>1 DEF State, Shown
<1>9. CASE p \in {"board", "detail"} /\ ApplyIntel(p, subject)
  <2>1. panel' = [panel EXCEPT ![p] = Shown(p, subject)] /\ UNCHANGED << queue, linked >>
    BY <1>9 DEF ApplyIntel
  <2>2. AskedTypes /\ panel'[p] = Shown(p, subject) /\ Others(p) /\ \A c \in Channel : Grows(c)
    BY <1>7, <1>s, <2>1
  <2>3. Over(p, subject)
    BY <1>9, <1>s, <2>2 DEF Over
  <2>4. LinkedBy(p, subject)
    BY <1>7, <1>9, <1>s, <2>1 DEF LinkedBy
  <2> QED BY <1>1, <1>3, <1>6, <2>2, <2>3, <2>4 DEF p, subject
<1>10. CASE p = "risk" /\ ApplyRisk(subject)
  <2> DEFINE new == [Shown(p, subject) EXCEPT !.asked = subject]
  <2>1. /\ new \in State(p) /\ ~ new.loading /\ ~ new.failed /\ new.refused = panel[p].refused
        /\ new.shown = subject /\ new.asked = subject
    BY <1>3, <1>s DEF State
  <2>2. panel' = [panel EXCEPT ![p] = new] /\ UNCHANGED << queue, linked >>
    BY <1>10 DEF ApplyRisk
  <2> HIDE DEF new
  <2>3. AskedTypes /\ panel'[p] = new /\ Others(p) /\ \A c \in Channel : Grows(c)
    BY <1>7, <2>1, <2>2
  <2>4. Over(p, subject)
    BY <1>10, <2>1, <2>3 DEF Over
  <2>5. LinkedBy(p, subject)
    BY <1>7, <1>10, <2>1, <2>2 DEF LinkedBy
  <2> QED BY <1>1, <1>3, <1>6, <2>3, <2>4, <2>5 DEF p, subject
<1>11. CASE p = "focus" /\ ApplyFocus(subject)
  <2>1. AskLinkedRisk(Shown("focus", subject), subject.symbol) /\ subject.symbol \in Symbol
    BY <1>3, <1>11, Panels DEF ApplyFocus
  <2>2. /\ AskedTypes /\ AskedFor("risk", subject.symbol) /\ queue'["focus"] = queue["focus"]
        /\ panel'[p] = Shown(p, subject)
        /\ \A q \in Panel \ {"focus", "risk"} : Untouched(q)
    BY <1>11, <1>s, <2>1, AskLinkedTypes
  <2>3. subject.symbol \in Askable("risk") /\ ChannelOf["risk"] = "intel" /\ "risk" \in Panel
    BY <2>1, Panels
  <2>4. \A c \in Channel : Grows(c)
    <3>1. \/ queue'["intel"] = queue["intel"]
          \/ queue'["intel"] = Append(queue["intel"], [panel |-> "risk", subject |-> subject.symbol])
      BY <2>2, <2>3 DEF AskedFor
    <3> QED BY <2>2, <2>3, <3>1 DEF Grows, Channel
  <2>5. Others(p)
    BY <1>11, <2>2, <2>3 DEF Others
  <2>6. Over(p, subject)
    BY <1>11, <1>s, <2>2 DEF Over
  <2>7. LinkedBy(p, subject)
    BY <1>11, <2>2 DEF LinkedBy
  <2> QED BY <1>1, <1>3, <1>6, <2>2, <2>4, <2>5, <2>6, <2>7 DEF p, subject
<1> QED BY <1>4, <1>8, <1>9, <1>10, <1>11
-----------------------------------------------------------------------------
(* Types *)

LEMMA KeyTypes == TypeOK /\ Key => TypeOK'
<1> SUFFICES ASSUME TypeOK, Key PROVE TypeOK'
  OBVIOUS
<1>1. Effect /\ view' \in 1 .. 9 /\ keys' \in 0 .. MaxKeys /\ UNCHANGED << fetch, drained, results >>
  BY KeyEffect
<1> QED BY <1>1 DEF TypeOK, Effect, AskedTypes

LEMMA StillTypes == TypeOK /\ UNCHANGED vars => TypeOK'
  BY DEF TypeOK, vars, fetchVars

LEMMA InitTypes == SessionInit => SessionTypeOK
<1> SUFFICES ASSUME SessionInit PROVE SessionTypeOK
  OBVIOUS
<1>1. Init /\ {locked, idle, typed} \subseteq BOOLEAN
  BY DEF SessionInit
<1> DEFINE chart == [symbol |-> Nothing, timeframe |-> "5d"]
           list  == [severity |-> "", page |-> 0]
<1>2. /\ chart \in Subject["focus"] /\ list \in Subject["board"]
      /\ Nothing \in Subject["detail"] /\ Nothing \in Subject["risk"]
  <2>1. "5d" \in Timeframe /\ "" \in Severity
    BY DEF Timeframe, Severity
  <2>2. 0 \in 0 .. LastPage
    BY TerminalAssumption
  <2>3. chart \in [symbol : Symbol \cup {Nothing}, timeframe : Timeframe]
    BY <2>1
  <2>4. list \in [severity : Severity, page : 0 .. LastPage]
    BY <2>1, <2>2
  <2> HIDE DEF chart, list
  <2> QED BY <2>3, <2>4, Panels
<1>3. \A p \in Panel : \A subject \in Subject[p] : Unasked(subject) \in State(p)
  BY DEF Unasked, State
<1> DEFINE start == [focus |-> Unasked(chart), board |-> Unasked(list),
                     detail |-> Unasked(Nothing), risk |-> Unasked(Nothing)]
<1>4. \A p \in Panel : start[p] \in State(p)
  <2>1. /\ start["focus"] = Unasked(chart) /\ start["board"] = Unasked(list)
        /\ start["detail"] = Unasked(Nothing) /\ start["risk"] = Unasked(Nothing)
    OBVIOUS
  <2> HIDE DEF start, chart, list
  <2>2. /\ start["focus"] \in State("focus") /\ start["board"] \in State("board")
        /\ start["detail"] \in State("detail") /\ start["risk"] \in State("risk")
    BY <1>2, <1>3, <2>1, Panels
  <2> QED BY <2>2, Panels
<1>5. DOMAIN start = Panel /\ start = [p \in Panel |-> start[p]]
  BY Panels
<1>6. panel = start
  BY <1>1 DEF Init
<1> HIDE DEF start
<1>7. panel \in [Panel -> UNION {State(p) : p \in Panel}] /\ \A p \in Panel : panel[p] \in State(p)
  BY <1>4, <1>5, <1>6
<1>8. /\ queue \in [Channel -> Seq(Request)] /\ results \in Seq(Result)
      /\ fetch \in [Channel -> Request \cup {Nothing}]
  <2>1. << >> \in Seq(Request) /\ << >> \in Seq(Result)
    OBVIOUS
  <2> QED BY <1>1, <2>1 DEF Init
<1>9. (\A c \in Channel : Len(queue[c]) <= Capacity[c]) /\ Len(results) <= EventCapacity
  <2>1. \A c \in Channel : Len(queue[c]) = 0
    BY <1>1 DEF Init
  <2>2. Len(results) = 0
    BY <1>1 DEF Init
  <2> QED BY <2>1, <2>2, Capacities, TerminalAssumption
<1>10. view \in 1 .. 9 /\ linked \in BOOLEAN /\ drained \in BOOLEAN /\ keys \in 0 .. MaxKeys
  <2>1. view = 1 /\ keys = 0
    BY <1>1 DEF Init
  <2>2. linked \in BOOLEAN /\ drained \in BOOLEAN
    BY <1>1 DEF Init
  <2> QED BY <2>1, <2>2, TerminalAssumption
<1> QED BY <1>1, <1>7, <1>8, <1>9, <1>10 DEF TypeOK, SessionTypeOK

LEMMA NextTypes == SessionTypeOK /\ [SessionNext]_sessionVars => SessionTypeOK'
<1> SUFFICES ASSUME TypeOK, {locked, idle, typed} \subseteq BOOLEAN, [SessionNext]_sessionVars
             PROVE  TypeOK' /\ {locked, idle, typed}' \subseteq BOOLEAN
  BY DEF SessionTypeOK
<1>1. CASE Type
  BY <1>1, KeyTypes DEF Type
<1>2. CASE Unlock
  <2>1. keys' \in 0 .. MaxKeys
    BY <1>2, TerminalAssumption DEF Unlock, Press, TypeOK
  <2> QED BY <1>2, <2>1 DEF Unlock, Press, TypeOK
<1>3. CASE TimePasses
  BY <1>3, StillTypes DEF TimePasses
<1>4. CASE EndFrame
  BY <1>4, StillTypes DEF EndFrame
<1>5. CASE (FetcherStep \/ Apply) /\ UNCHANGED lockVars
  BY <1>5, ReceiveTypes, AnswerTypes, DrainTypes, ApplyTypes DEF FetcherStep, lockVars
<1>6. CASE UNCHANGED sessionVars
  BY <1>6, StillTypes DEF sessionVars, lockVars
<1> QED BY <1>1, <1>2, <1>3, <1>4, <1>5, <1>6 DEF SessionNext

\* Requests and panels keep their types, and the channels their capacity.
THEOREM TypeCorrect == SessionSpec => []SessionTypeOK
  BY InitTypes, NextTypes, PTL DEF SessionSpec
-----------------------------------------------------------------------------
(* The latest of the requests for a panel *)

Has(q, p) == \E i \in 1 .. Len(q) : q[i].panel = p

LastFor(q, p, r) ==
  \E i \in 1 .. Len(q) :
     /\ q[i] = r /\ r.panel = p
     /\ \A j \in i + 1 .. Len(q) : q[j].panel # p

LEMMA LastAppended ==
  ASSUME NEW q \in Seq(Request), NEW x \in Request, NEW p, NEW r
  PROVE  /\ Has(Append(q, x), p) <=> Has(q, p) \/ x.panel = p
         /\ LastFor(Append(q, x), p, r) => IF x.panel = p THEN r = x ELSE LastFor(q, p, r)
<1> DEFINE new == Append(q, x)
           n == Len(q)
<1>1. /\ n \in Nat /\ Len(new) = n + 1 /\ new[n + 1] = x
      /\ \A i \in 1 .. n : new[i] = q[i]
  BY Appended
<1> HIDE DEF new
<1>2. Has(new, p) <=> Has(q, p) \/ x.panel = p
  <2>1. ASSUME Has(new, p) PROVE Has(q, p) \/ x.panel = p
    BY <1>1, <2>1 DEF Has
  <2>2. ASSUME Has(q, p) PROVE Has(new, p)
    BY <1>1, <2>2 DEF Has
  <2>3. ASSUME x.panel = p PROVE Has(new, p)
    <3>1. n + 1 \in 1 .. Len(new) /\ new[n + 1].panel = p
      BY <1>1, <2>3
    <3> QED BY <3>1 DEF Has
  <2> QED BY <2>1, <2>2, <2>3
<1>3. ASSUME LastFor(new, p, r) PROVE IF x.panel = p THEN r = x ELSE LastFor(q, p, r)
  <2>1. PICK i \in 1 .. n + 1 : /\ new[i] = r /\ r.panel = p
                                /\ \A j \in i + 1 .. n + 1 : new[j].panel # p
    BY <1>1, <1>3 DEF LastFor
  <2>2. CASE i = n + 1
    BY <1>1, <2>1, <2>2
  <2>3. CASE i # n + 1
    <3>1. i \in 1 .. n /\ q[i] = r /\ n + 1 \in i + 1 .. n + 1
      BY <1>1, <2>1, <2>3
    <3>2. x.panel # p
      BY <1>1, <2>1, <3>1
    <3>3. \A j \in i + 1 .. n : q[j].panel # p
      BY <1>1, <2>1, <3>1
    <3> QED BY <2>1, <3>1, <3>2, <3>3 DEF LastFor
  <2> QED BY <2>2, <2>3
<1> QED BY <1>2, <1>3 DEF new

LEMMA LastOfTail ==
  ASSUME NEW q \in Seq(Request), q # << >>, NEW p, NEW r
  PROVE  /\ Has(q, p) <=> q[1].panel = p \/ Has(Tail(q), p)
         /\ LastFor(Tail(q), p, r) => LastFor(q, p, r)
         /\ q[1].panel = p /\ ~ Has(Tail(q), p) => LastFor(q, p, q[1])
<1> DEFINE t == Tail(q)
           n == Len(t)
<1>1. /\ n \in Nat /\ Len(q) = n + 1
      /\ \A i \in 1 .. n : t[i] = q[i + 1] /\ i + 1 \in 1 .. Len(q)
  BY HeadTail
<1> HIDE DEF t
<1>2. \A j \in 2 .. n + 1 : q[j] = t[j - 1] /\ j - 1 \in 1 .. n
  <2> SUFFICES ASSUME NEW j \in 2 .. n + 1 PROVE q[j] = t[j - 1] /\ j - 1 \in 1 .. n
    OBVIOUS
  <2>1. j - 1 \in 1 .. n /\ (j - 1) + 1 = j
    BY <1>1
  <2> QED BY <1>1, <2>1
<1>3. Has(q, p) <=> q[1].panel = p \/ Has(t, p)
  <2>1. ASSUME Has(q, p), q[1].panel # p PROVE Has(t, p)
    <3>1. PICK i \in 1 .. n + 1 : q[i].panel = p
      BY <1>1, <2>1 DEF Has
    <3>2. i \in 2 .. n + 1
      BY <1>1, <2>1, <3>1
    <3> QED BY <1>2, <3>1, <3>2 DEF Has
  <2>2. ASSUME Has(t, p) PROVE Has(q, p)
    BY <1>1, <2>2 DEF Has
  <2>3. ASSUME q[1].panel = p PROVE Has(q, p)
    <3>1. 1 \in 1 .. Len(q)
      BY <1>1
    <3> QED BY <2>3, <3>1 DEF Has
  <2> QED BY <2>1, <2>2, <2>3
<1>4. ASSUME LastFor(t, p, r) PROVE LastFor(q, p, r)
  <2>1. PICK i \in 1 .. n : t[i] = r /\ r.panel = p /\ \A j \in i + 1 .. n : t[j].panel # p
    BY <1>4 DEF LastFor
  <2>2. \A j \in (i + 1) + 1 .. n + 1 : q[j].panel # p
    <3> SUFFICES ASSUME NEW j \in (i + 1) + 1 .. n + 1 PROVE q[j].panel # p
      OBVIOUS
    <3>1. j \in 2 .. n + 1 /\ j - 1 \in i + 1 .. n
      BY <1>1
    <3> QED BY <1>2, <2>1, <3>1
  <2> QED BY <1>1, <2>1, <2>2 DEF LastFor
<1>5. ASSUME q[1].panel = p, ~ Has(t, p) PROVE LastFor(q, p, q[1])
  <2>1. \A j \in 1 + 1 .. Len(q) : q[j].panel # p
    BY <1>1, <1>2, <1>5 DEF Has
  <2>2. 1 \in 1 .. Len(q)
    BY <1>1
  <2> QED BY <1>5, <2>1, <2>2 DEF LastFor
<1> QED BY <1>3, <1>4, <1>5 DEF t

\* The requests whose results are on their way to the screen.
Done == [i \in 1 .. Len(results) |-> results[i].request]

\* r is the last request for p of those under way: a channel, its fetcher and
\* the results hold them from the youngest to the oldest.
Fetched(p) == fetch[ChannelOf[p]] # Nothing /\ fetch[ChannelOf[p]].panel = p

Latest(p, r) ==
  LET q == queue[ChannelOf[p]]
  IN \/ LastFor(q, p, r)
     \/ ~ Has(q, p) /\ Fetched(p) /\ r = fetch[ChannelOf[p]]
     \/ ~ Has(q, p) /\ ~ Fetched(p) /\ LastFor(Done, p, r)

LEMMA OutstandingIs ==
  ASSUME TypeOK, NEW p \in Panel
  PROVE  Outstanding(p) <=> Has(queue[ChannelOf[p]], p) \/ Fetched(p) \/ Has(Done, p)
<1>1. results \in Seq(Result)
  BY DEF TypeOK
<1>2. Len(Done) = Len(results) /\ \A i \in 1 .. Len(results) : Done[i] = results[i].request
  BY <1>1 DEF Done
<1> HIDE DEF Done
<1> QED BY <1>2 DEF Outstanding, Has, Fetched

LEMMA DoneTypes == TypeOK => Done \in Seq(Request) /\ Len(Done) = Len(results)
<1> SUFFICES ASSUME results \in Seq(Result) PROVE Done \in Seq(Request) /\ Len(Done) = Len(results)
  BY DEF TypeOK
<1>1. Len(results) \in Nat /\ \A i \in 1 .. Len(results) : results[i].request \in Request
  <2>1. Len(results) \in Nat /\ \A i \in 1 .. Len(results) : results[i] \in Result
    OBVIOUS
  <2>2. \A x \in Result : x.request \in Request
    BY DEF Result
  <2> QED BY <2>1, <2>2
<1>2. Done \in [1 .. Len(results) -> Request]
  BY <1>1 DEF Done
<1> HIDE DEF Done
<1> QED BY <1>1, <1>2

LEMMA DoneAppended ==
  ASSUME TypeOK, NEW x \in Result, results' = Append(results, x)
  PROVE  Done' = Append(Done, x.request)
<1>1. results \in Seq(Result)
  BY DEF TypeOK
<1>2. /\ Len(results) \in Nat /\ Len(results') = Len(results) + 1
      /\ results'[Len(results) + 1] = x
      /\ \A i \in 1 .. Len(results) : results'[i] = results[i]
  BY <1>1, Appended
<1>3. Done' = [i \in 1 .. Len(results') |-> results'[i].request]
  BY DEF Done
<1>4. Done \in Seq(Request) /\ Len(Done) = Len(results)
  BY DoneTypes
<1>5. Append(Done, x.request) = [i \in 1 .. Len(results) + 1 |->
                                   IF i = Len(results) + 1 THEN x.request ELSE Done[i]]
  BY <1>4
<1>6. \A i \in 1 .. Len(results) : Done[i] = results[i].request
  BY DEF Done
<1> QED BY <1>2, <1>3, <1>5, <1>6

LEMMA DoneTail ==
  ASSUME TypeOK, results # << >>, results' = Tail(results)
  PROVE  Done # << >> /\ Done' = Tail(Done) /\ Done[1] = results[1].request
<1>1. results \in Seq(Result)
  BY DEF TypeOK
<1>2. /\ Len(results) \in Nat /\ Len(results') = Len(results) - 1 /\ 1 \in 1 .. Len(results)
      /\ \A i \in 1 .. Len(results') : results'[i] = results[i + 1] /\ i + 1 \in 1 .. Len(results)
  BY <1>1, HeadTail
<1>3. Done' = [i \in 1 .. Len(results') |-> results'[i].request]
  BY DEF Done
<1>4. Done \in Seq(Request) /\ Len(Done) = Len(results)
  BY DoneTypes
<1>5. Done # << >>
  BY <1>2, <1>4
<1>6. Tail(Done) = [i \in 1 .. Len(results) - 1 |-> Done[i + 1]]
  <2> DEFINE d == Done
  <2>1. d \in Seq(Request) /\ d # << >> /\ Len(d) = Len(results)
    BY <1>4, <1>5
  <2> HIDE DEF d
  <2>2. Tail(d) = [i \in 1 .. Len(d) - 1 |-> d[i + 1]]
    <3>1. /\ Tail(d) \in Seq(Request) /\ Len(Tail(d)) = Len(d) - 1
          /\ \A i \in 1 .. Len(Tail(d)) : Tail(d)[i] = d[i + 1]
      BY <2>1, HeadTail
    <3> DEFINE t == Tail(d)
    <3> HIDE DEF t
    <3>2. t = [i \in 1 .. Len(t) |-> t[i]]
      <4>0. t \in Seq(Request)
        BY <3>1 DEF t
      <4>1. t \in [1 .. Len(t) -> Request]
        BY <4>0
      <4> QED BY <4>1
    <3> QED BY <3>1, <3>2 DEF t
  <2> QED BY <2>1, <2>2 DEF d
<1>7. \A i \in 1 .. Len(results) : Done[i] = results[i].request
  BY DEF Done
<1> QED BY <1>2, <1>3, <1>5, <1>6, <1>7

LEMMA OutstandingNext ==
  TypeOK' => \A p \in Panel :
    Outstanding(p)' <=> Has(queue'[ChannelOf[p]], p) \/ Fetched(p)' \/ Has(Done', p)
<1>1. TypeOK => \A p \in Panel :
        Outstanding(p) <=> Has(queue[ChannelOf[p]], p) \/ Fetched(p) \/ Has(Done, p)
  BY OutstandingIs
<1>2. (TypeOK => \A p \in Panel :
        Outstanding(p) <=> Has(queue[ChannelOf[p]], p) \/ Fetched(p) \/ Has(Done, p))'
  BY <1>1, PTL
<1> QED BY <1>2
-----------------------------------------------------------------------------
(* Requests under way *)

\* A channel and its fetcher hold requests of the channel's panels.
Sorted ==
  \A c \in Channel :
     /\ \A i \in 1 .. Len(queue[c]) : ChannelOf[queue[c][i].panel] = c
     /\ fetch[c] # Nothing => ChannelOf[fetch[c].panel] = c

\* The requests of all panels move on, and none is lost that is the latest.
MovesOn ==
  \A p \in Panel :
     /\ Outstanding(p)' <=> Outstanding(p)
     /\ \A r : Latest(p, r)' => Latest(p, r)

LEMMA ReceiveMoves ==
  ASSUME TypeOK, Sorted, NEW c \in Channel, Receive(c)
  PROVE  MovesOn /\ Sorted'
<1>1. /\ TypeOK' /\ queue[c] \in Seq(Request) /\ queue[c] # << >> /\ fetch[c] = Nothing
      /\ fetch'[c] = Head(queue[c]) /\ queue'[c] = Tail(queue[c])
      /\ \A d \in Channel \ {c} : fetch'[d] = fetch[d] /\ queue'[d] = queue[d]
      /\ Done' = Done
  BY ReceiveTypes DEF Receive, Done
<1> DEFINE q == queue[c]
<1>2. /\ q \in Seq(Request) /\ q # << >> /\ fetch'[c] = q[1] /\ queue'[c] = Tail(q)
      /\ q[1] # Nothing /\ 1 \in 1 .. Len(q)
      /\ \A i \in 1 .. Len(Tail(q)) : Tail(q)[i] = q[i + 1] /\ i + 1 \in 1 .. Len(q)
  BY <1>1, HeadTail, RequestIs
<1>3. ASSUME NEW p \in Panel
      PROVE  Outstanding(p)' <=> Outstanding(p)
  <2>1. /\ Outstanding(p) <=> Has(queue[ChannelOf[p]], p) \/ Fetched(p) \/ Has(Done, p)
        /\ Outstanding(p)' <=> Has(queue'[ChannelOf[p]], p) \/ Fetched(p)' \/ Has(Done', p)
    BY <1>1, OutstandingIs, OutstandingNext
  <2>2. CASE ChannelOf[p] = c
    <3>1. Has(q, p) <=> q[1].panel = p \/ Has(Tail(q), p)
      BY <1>2, LastOfTail
    <3>2. ~ Fetched(p) /\ (Fetched(p)' <=> q[1].panel = p)
      BY <1>1, <1>2, <2>2 DEF Fetched
    <3> QED BY <1>1, <1>2, <2>1, <2>2, <3>1, <3>2
  <2>3. CASE ChannelOf[p] # c
    <3>1. ChannelOf[p] \in Channel \ {c}
      BY <2>3, Panels
    <3>2. Fetched(p)' <=> Fetched(p)
      BY <1>1, <3>1 DEF Fetched
    <3> QED BY <1>1, <2>1, <3>1, <3>2
  <2> QED BY <2>2, <2>3
<1>4. ASSUME NEW p \in Panel, NEW r, Latest(p, r)'
      PROVE  Latest(p, r)
  <2>1. CASE ChannelOf[p] = c
    <3>1. /\ Has(q, p) <=> q[1].panel = p \/ Has(Tail(q), p)
          /\ LastFor(Tail(q), p, r) => LastFor(q, p, r)
          /\ q[1].panel = p /\ ~ Has(Tail(q), p) => LastFor(q, p, q[1])
      BY <1>2, LastOfTail
    <3>2. ~ Fetched(p) /\ (Fetched(p)' <=> q[1].panel = p)
      BY <1>1, <1>2, <2>1 DEF Fetched
    <3>3. \/ LastFor(Tail(q), p, r)
          \/ ~ Has(Tail(q), p) /\ Fetched(p)' /\ r = q[1]
          \/ ~ Has(Tail(q), p) /\ ~ Fetched(p)' /\ LastFor(Done, p, r)
      BY <1>1, <1>2, <1>4, <2>1 DEF Latest
    <3>4. \/ LastFor(q, p, r)
          \/ ~ Has(q, p) /\ ~ Fetched(p) /\ LastFor(Done, p, r)
      BY <3>1, <3>2, <3>3
    <3> QED BY <2>1, <3>4 DEF Latest
  <2>2. CASE ChannelOf[p] # c
    <3>1. ChannelOf[p] \in Channel \ {c}
      BY <2>2, Panels
    <3>2. Fetched(p)' <=> Fetched(p)
      BY <1>1, <3>1 DEF Fetched
    <3> QED BY <1>1, <1>4, <3>1, <3>2 DEF Latest
  <2> QED BY <2>1, <2>2
<1>5. Sorted'
  <2>1. ASSUME NEW i \in 1 .. Len(Tail(q)) PROVE ChannelOf[Tail(q)[i].panel] = c
    BY <1>2 DEF Sorted
  <2>2. ChannelOf[q[1].panel] = c
    BY <1>2 DEF Sorted
  <2> HIDE DEF q
  <2>3. ASSUME NEW d \in Channel \ {c}
        PROVE  /\ \A i \in 1 .. Len(queue'[d]) : ChannelOf[queue'[d][i].panel] = d
               /\ fetch'[d] # Nothing => ChannelOf[fetch'[d].panel] = d
    BY <1>1 DEF Sorted
  <2>4. /\ \A i \in 1 .. Len(queue'[c]) : ChannelOf[queue'[c][i].panel] = c
        /\ ChannelOf[fetch'[c].panel] = c
    BY <1>2, <2>1, <2>2
  <2> QED BY <2>3, <2>4 DEF Sorted
<1> QED BY <1>3, <1>4, <1>5 DEF MovesOn

LEMMA DrainMoves ==
  ASSUME TypeOK, Sorted, Drain
  PROVE  MovesOn /\ Sorted'
<1>1. /\ TypeOK' /\ fetch["focus"] # Nothing /\ Newest \in Request /\ Newest # Nothing
      /\ fetch'["focus"] = Newest /\ queue'["focus"] = << >>
      /\ fetch'["intel"] = fetch["intel"] /\ queue'["intel"] = queue["intel"]
      /\ Done' = Done /\ Channel = {"focus", "intel"} /\ queue["focus"] \in Seq(Request)
  BY DrainTypes, RequestIs DEF Drain, Done, Channel, TypeOK
<1> DEFINE q == queue["focus"]
           n == Len(q)
<1>2. q \in Seq(Request) /\ n \in Nat /\ Newest = IF q = << >> THEN fetch["focus"] ELSE q[n]
  BY <1>1 DEF Newest
<1>3. /\ \A i \in 1 .. n : q[i].panel = "focus"
      /\ fetch["focus"].panel = "focus"
  <2>1. /\ \A i \in 1 .. n : q[i] \in Request /\ ChannelOf[q[i].panel] = "focus"
        /\ fetch["focus"] \in Request /\ ChannelOf[fetch["focus"].panel] = "focus"
    BY <1>1, <1>2 DEF Sorted, TypeOK
  <2>2. \A p \in Panel : ChannelOf[p] = "focus" => p = "focus"
    BY Panels
  <2> QED BY <2>1, <2>2, RequestIs
<1>4. q # << >> => n \in 1 .. n
  BY <1>2
<1> HIDE DEF q
<1>5. Newest.panel = "focus"
  BY <1>2, <1>3, <1>4
<1>6. ~ Has(<< >>, "focus") /\ \A r : ~ LastFor(<< >>, "focus", r)
  BY DEF Has, LastFor
<1>7. ASSUME NEW p \in Panel
      PROVE  /\ Outstanding(p) <=> Has(queue[ChannelOf[p]], p) \/ Fetched(p) \/ Has(Done, p)
             /\ Outstanding(p)' <=> Has(queue'[ChannelOf[p]], p) \/ Fetched(p)' \/ Has(Done', p)
  BY <1>1, OutstandingIs, OutstandingNext
<1>8. ASSUME NEW p \in Panel \ {"focus"}
      PROVE  (Outstanding(p)' <=> Outstanding(p)) /\ \A r : Latest(p, r)' => Latest(p, r)
  <2>1. ChannelOf[p] = "intel"
    BY Panels
  <2>2. Fetched(p)' <=> Fetched(p)
    BY <1>1, <2>1 DEF Fetched
  <2> QED BY <1>1, <1>7, <2>1, <2>2 DEF Latest
<1>9. /\ "focus" \in Panel /\ ChannelOf["focus"] = "focus"
      /\ Fetched("focus") /\ Fetched("focus")'
  BY <1>1, <1>3, <1>5, Panels DEF Fetched
<1>10. Outstanding("focus")' <=> Outstanding("focus")
  BY <1>7, <1>9
<1>11. ASSUME NEW r, Latest("focus", r)' PROVE Latest("focus", r)
  <2>1. r = Newest
    BY <1>1, <1>6, <1>9, <1>11 DEF Latest
  <2>2. CASE q = << >>
    <3>1. r = fetch["focus"] /\ ~ Has(q, "focus")
      BY <1>2, <1>6, <2>1, <2>2
    <3> QED BY <1>9, <3>1 DEF Latest, q
  <2>3. CASE q # << >>
    <3>1. r = q[n] /\ n \in 1 .. n /\ \A j \in n + 1 .. n : q[j].panel # "focus"
      BY <1>2, <1>4, <2>1, <2>3
    <3>2. LastFor(q, "focus", r)
      BY <1>3, <3>1 DEF LastFor
    <3> QED BY <1>9, <3>2 DEF Latest, q
  <2> QED BY <2>2, <2>3
<1>12. Sorted'
  <2>1. \A i \in 1 .. Len(<< >>) : FALSE
    OBVIOUS
  <2> QED BY <1>1, <1>5, <1>9, <2>1 DEF Sorted
<1> QED BY <1>8, <1>10, <1>11, <1>12 DEF MovesOn

LEMMA AnswerMoves ==
  ASSUME TypeOK, Sorted, NEW c \in Channel, Answer(c)
  PROVE  MovesOn /\ Sorted'
<1>1. /\ TypeOK' /\ fetch[c] \in Request /\ fetch[c] # Nothing /\ fetch'[c] = Nothing
      /\ queue' = queue /\ \A d \in Channel \ {c} : fetch'[d] = fetch[d]
      /\ \E ok \in BOOLEAN : results' = Append(results, [request |-> fetch[c], ok |-> ok])
  BY AnswerTypes, RequestIs
<1> DEFINE x == fetch[c]
<1>2. Done' = Append(Done, x)
  <2>1. PICK ok \in BOOLEAN : results' = Append(results, [request |-> x, ok |-> ok])
    BY <1>1
  <2>2. [request |-> x, ok |-> ok] \in Result
    BY <1>1 DEF Result
  <2> QED BY <2>1, <2>2, DoneAppended
<1>3. Done \in Seq(Request) /\ x \in Request /\ x.panel \in Panel /\ ChannelOf[x.panel] = c
  BY <1>1, DoneTypes, RequestIs DEF Sorted
<1>4. ASSUME NEW p \in Panel
      PROVE  /\ Has(Done', p) <=> Has(Done, p) \/ x.panel = p
             /\ \A r : LastFor(Done', p, r) => IF x.panel = p THEN r = x ELSE LastFor(Done, p, r)
             /\ Fetched(p) <=> (Fetched(p)' \/ x.panel = p)
             /\ x.panel = p => ~ Fetched(p)' /\ x = fetch[ChannelOf[p]]
             /\ x.panel # p /\ Fetched(p) => fetch'[ChannelOf[p]] = fetch[ChannelOf[p]]
  <2>1. /\ Has(Done', p) <=> Has(Done, p) \/ x.panel = p
        /\ \A r : LastFor(Done', p, r) => IF x.panel = p THEN r = x ELSE LastFor(Done, p, r)
    BY <1>2, <1>3, LastAppended
  <2>2. CASE ChannelOf[p] = c
    BY <1>1, <1>3, <2>1, <2>2 DEF Fetched
  <2>3. CASE ChannelOf[p] # c
    <3>1. ChannelOf[p] \in Channel \ {c}
      BY <2>3, Panels
    <3>2. (Fetched(p)' <=> Fetched(p)) /\ x.panel # p
      BY <1>1, <1>3, <2>3, <3>1 DEF Fetched
    <3> QED BY <1>1, <2>1, <3>1, <3>2
  <2> QED BY <2>2, <2>3
<1>5. ASSUME NEW p \in Panel
      PROVE  Outstanding(p)' <=> Outstanding(p)
  <2>1. /\ Outstanding(p) <=> Has(queue[ChannelOf[p]], p) \/ Fetched(p) \/ Has(Done, p)
        /\ Outstanding(p)' <=> Has(queue'[ChannelOf[p]], p) \/ Fetched(p)' \/ Has(Done', p)
    BY <1>1, OutstandingIs, OutstandingNext
  <2> HIDE DEF x
  <2> QED BY <1>1, <1>4, <2>1
<1>6. ASSUME NEW p \in Panel, NEW r, Latest(p, r)'
      PROVE  Latest(p, r)
  <2>1. \/ LastFor(queue[ChannelOf[p]], p, r)
        \/ ~ Has(queue[ChannelOf[p]], p) /\ Fetched(p)' /\ r = fetch'[ChannelOf[p]]
        \/ ~ Has(queue[ChannelOf[p]], p) /\ ~ Fetched(p)' /\ LastFor(Done', p, r)
    BY <1>1, <1>6 DEF Latest
  <2> HIDE DEF x
  <2>2. \/ LastFor(queue[ChannelOf[p]], p, r)
        \/ ~ Has(queue[ChannelOf[p]], p) /\ Fetched(p) /\ r = fetch[ChannelOf[p]]
        \/ ~ Has(queue[ChannelOf[p]], p) /\ ~ Fetched(p) /\ LastFor(Done, p, r)
    BY <1>4, <2>1
  <2> QED BY <2>2 DEF Latest
<1>7. Sorted'
  BY <1>1 DEF Sorted
<1> QED BY <1>5, <1>6, <1>7 DEF MovesOn
-----------------------------------------------------------------------------
(* Asking adds the latest request *)

LEMMA QueueAppended ==
  ASSUME TypeOK, NEW p \in Panel, NEW subject \in Askable(p), AskedFor(p, subject), HasRoom(p)
  PROVE  /\ Has(queue'[ChannelOf[p]], p)
         /\ \A r : LastFor(queue'[ChannelOf[p]], p, r) => r = [panel |-> p, subject |-> subject]
<1> DEFINE q == queue[ChannelOf[p]]
           x == [panel |-> p, subject |-> subject]
<1>1. q \in Seq(Request) /\ x \in Request /\ x.panel = p /\ queue'[ChannelOf[p]] = Append(q, x)
  BY Panels, RequestIs DEF TypeOK, AskedFor
<1> HIDE DEF q, x
<1>2. /\ Has(Append(q, x), p) <=> Has(q, p) \/ x.panel = p
      /\ \A r : LastFor(Append(q, x), p, r) => IF x.panel = p THEN r = x ELSE LastFor(q, p, r)
  BY <1>1, LastAppended
<1> QED BY <1>1, <1>2 DEF x

\* A panel that is asked for something is behind its request, or was refused.
LEMMA AskedMoves ==
  ASSUME TypeOK, TypeOK', NEW p \in Panel, NEW subject \in Askable(p), AskedFor(p, subject)
  PROVE  \/ panel'[p].refused
         \/ Outstanding(p)' /\ \A r : Latest(p, r)' => r.subject = panel'[p].asked
<1>1. CASE HasRoom(p)
  <2>1. /\ Has(queue'[ChannelOf[p]], p)
        /\ \A r : LastFor(queue'[ChannelOf[p]], p, r) => r = [panel |-> p, subject |-> subject]
    BY <1>1, QueueAppended
  <2>2. Outstanding(p)'
    BY <2>1, OutstandingNext
  <2>3. ASSUME NEW r, Latest(p, r)' PROVE r = [panel |-> p, subject |-> subject]
    BY <2>1, <2>3 DEF Latest
  <2> QED BY <2>2, <2>3 DEF AskedFor
<1>2. CASE ~ HasRoom(p)
  BY <1>2 DEF AskedFor
<1> QED BY <1>1, <1>2

LEMMA GrowsPasses ==
  ASSUME NEW p \in Panel, \A c \in Channel : Grows(c),
         \A subject \in Askable(p) : ~ AskedFor(p, subject)
  PROVE  Passes(p)
<1>1. Grows(ChannelOf[p])
  BY Panels
<1> QED BY <1>1 DEF Grows, Passes

\* The requests of the other panels do not notice.
LEMMA OthersQueue ==
  ASSUME TypeOK, NEW p \in Panel, Passes(p), fetch' = fetch
  PROVE  /\ Has(queue'[ChannelOf[p]], p) <=> Has(queue[ChannelOf[p]], p)
         /\ \A r : LastFor(queue'[ChannelOf[p]], p, r) => LastFor(queue[ChannelOf[p]], p, r)
         /\ Fetched(p)' <=> Fetched(p)
<1> DEFINE q == queue[ChannelOf[p]]
<1>1. q \in Seq(Request)
  BY Panels DEF TypeOK
<1>2. Fetched(p)' <=> Fetched(p)
  BY DEF Fetched
<1>3. CASE queue'[ChannelOf[p]] = q
  BY <1>2, <1>3
<1>4. ASSUME NEW o \in Panel \ {p}, NEW subject \in Askable(o),
             queue'[ChannelOf[p]] = Append(q, [panel |-> o, subject |-> subject])
      PROVE  /\ Has(queue'[ChannelOf[p]], p) <=> Has(q, p)
             /\ \A r : LastFor(queue'[ChannelOf[p]], p, r) => LastFor(q, p, r)
  <2> DEFINE x == [panel |-> o, subject |-> subject]
  <2>1. x \in Request /\ x.panel # p
    BY RequestIs
  <2> HIDE DEF q, x
  <2>2. /\ Has(Append(q, x), p) <=> Has(q, p) \/ x.panel = p
        /\ \A r : LastFor(Append(q, x), p, r) => IF x.panel = p THEN r = x ELSE LastFor(q, p, r)
    BY <1>1, <2>1, LastAppended
  <2> QED BY <1>4, <2>1, <2>2 DEF x
<1> QED BY <1>2, <1>3, <1>4 DEF Passes

LEMMA GrowsSorted ==
  ASSUME TypeOK, Sorted, \A c \in Channel : Grows(c), fetch' = fetch
  PROVE  Sorted'
<1> SUFFICES ASSUME NEW c \in Channel
             PROVE  \A i \in 1 .. Len(queue'[c]) : ChannelOf[queue'[c][i].panel] = c
  BY DEF Sorted
<1> DEFINE q == queue[c]
<1>1. q \in Seq(Request) /\ \A i \in 1 .. Len(q) : ChannelOf[q[i].panel] = c
  BY DEF TypeOK, Sorted
<1>2. CASE queue'[c] = q
  BY <1>1, <1>2
<1>3. ASSUME NEW p \in Panel, NEW subject \in Askable(p), ChannelOf[p] = c,
             queue'[c] = Append(q, [panel |-> p, subject |-> subject])
      PROVE  \A i \in 1 .. Len(queue'[c]) : ChannelOf[queue'[c][i].panel] = c
  <2> DEFINE x == [panel |-> p, subject |-> subject]
  <2>1. x \in Request /\ ChannelOf[x.panel] = c
    BY <1>3, RequestIs
  <2> HIDE DEF q, x
  <2>2. /\ Len(q) \in Nat /\ Len(Append(q, x)) = Len(q) + 1 /\ Append(q, x)[Len(q) + 1] = x
        /\ \A i \in 1 .. Len(q) : Append(q, x)[i] = q[i]
    BY <1>1, <2>1, Appended
  <2>3. \A i \in 1 .. Len(Append(q, x)) : i = Len(q) + 1 \/ i \in 1 .. Len(q)
    BY <2>2
  <2>4. \A i \in 1 .. Len(Append(q, x)) : ChannelOf[Append(q, x)[i].panel] = c
    BY <1>1, <2>1, <2>2, <2>3
  <2> QED BY <1>3, <2>4 DEF x
<1> QED BY <1>2, <1>3 DEF Grows
-----------------------------------------------------------------------------
(* The invariant *)

\* Unless it did not fit into its channel, the latest request for a view under
\* way is for what the view asked for, and the answer to it is what is shown
\* when none is.  The focus view starts without a symbol and requests none then.
Tracks(p) ==
  /\ p = "focus" /\ panel[p].asked.symbol = Nothing => ~ Outstanding(p) /\ panel[p].shown = Nothing
  /\ ~ panel[p].refused =>
       /\ \A r : Latest(p, r) => r.subject = panel[p].asked
       /\ ~ Outstanding(p) /\ panel[p].shown # Nothing /\ ~ panel[p].failed =>
            panel[p].shown = panel[p].asked

Backed(p) == panel[p].loading => Outstanding(p) \/ panel[p].refused

\* When the last bundle is in, the strip of the focus view waits for the risk of
\* the symbol in focus, or has it.
Strip ==
  (/\ linked /\ ~ Outstanding("focus")
   /\ ~ panel["focus"].failed /\ ~ panel["focus"].refused /\ ~ panel["risk"].refused)
  => /\ \A r : Latest("risk", r) => r.subject = panel["focus"].asked.symbol
     /\ ~ Outstanding("risk") /\ ~ panel["risk"].failed =>
          panel["risk"].asked = panel["focus"].asked.symbol

IInv ==
  /\ Sorted /\ Strip
  /\ RiskNamesItsSymbol
  /\ \A p \in Panel : Backed(p)
  /\ \A p \in Panel \ {"risk"} : Tracks(p)

LEMMA LatestIsOutstanding ==
  ASSUME TypeOK, NEW p \in Panel, NEW r, Latest(p, r)
  PROVE  Outstanding(p)
<1>1. \A q : LastFor(q, p, r) => Has(q, p)
  BY DEF LastFor, Has
<1> QED BY <1>1, OutstandingIs DEF Latest

\* Moving requests along disturbs none of this.
LEMMA MovesKeep ==
  ASSUME TypeOK, TypeOK', IInv, MovesOn, Sorted', UNCHANGED << panel, linked >>
  PROVE  IInv'
<1>1. RiskNamesItsSymbol'
  BY DEF IInv, RiskNamesItsSymbol
<1>2. \A p \in Panel : Backed(p)'
  BY DEF IInv, MovesOn, Backed
<1>3. \A p \in Panel \ {"risk"} : Tracks(p)'
  BY DEF IInv, MovesOn, Tracks
<1>4. Strip'
  <2>1. "focus" \in Panel /\ "risk" \in Panel
    BY Panels
  <2> QED BY <2>1 DEF IInv, MovesOn, Strip
<1> QED BY <1>1, <1>2, <1>3, <1>4 DEF IInv

\* A panel that was not asked for anything keeps what it had.
LEMMA StillKeeps ==
  ASSUME TypeOK, TypeOK', NEW p \in Panel, Still(p),
         Outstanding(p)' <=> Outstanding(p), \A r : Latest(p, r)' => Latest(p, r)
  PROVE  (Backed(p) => Backed(p)') /\ (Tracks(p) => Tracks(p)')
<1>1. Backed(p) => Backed(p)'
  BY DEF Backed, Still
<1>2. ASSUME Tracks(p) PROVE Tracks(p)'
  <2>1. CASE panel'[p].asked = panel[p].asked
    BY <1>2, <2>1 DEF Tracks, Still
  <2>2. CASE p = "focus" /\ panel[p].asked.symbol = Nothing /\ panel'[p].asked.symbol = Nothing
    <3>1. ~ Outstanding(p) /\ panel'[p].shown = Nothing
      BY <1>2, <2>2 DEF Tracks, Still
    <3>2. \A r : ~ Latest(p, r)'
      BY <3>1, LatestIsOutstanding
    <3> QED BY <3>1, <3>2 DEF Tracks
  <2> QED BY <2>1, <2>2 DEF Still
<1> QED BY <1>1, <1>2

LEMMA AskedKeeps ==
  ASSUME TypeOK, TypeOK', NEW p \in Panel, NEW subject \in Askable(p), AskedFor(p, subject)
  PROVE  Backed(p)' /\ Tracks(p)'
<1>1. \/ panel'[p].refused
      \/ Outstanding(p)' /\ \A r : Latest(p, r)' => r.subject = panel'[p].asked
  BY AskedMoves
<1>2. p = "focus" => panel'[p].asked.symbol # Nothing
  BY Panels, TerminalAssumption DEF AskedFor
<1> QED BY <1>1, <1>2 DEF Backed, Tracks

LEMMA EffectKeeps ==
  ASSUME TypeOK, TypeOK', IInv, Effect, UNCHANGED << fetch, results >>
  PROVE  IInv'
<1>1. /\ \A p \in Panel : Still(p) \/ \E subject \in Askable(p) : AskedFor(p, subject)
      /\ \A c \in Channel : Grows(c)
      /\ Done' = Done
  BY DEF Effect, Done
<1>m. ASSUME NEW p \in Panel, Passes(p)
      PROVE  (Outstanding(p)' <=> Outstanding(p)) /\ \A r : Latest(p, r)' => Latest(p, r)
  <2>1. /\ Has(queue'[ChannelOf[p]], p) <=> Has(queue[ChannelOf[p]], p)
        /\ \A r : LastFor(queue'[ChannelOf[p]], p, r) => LastFor(queue[ChannelOf[p]], p, r)
        /\ Fetched(p)' <=> Fetched(p)
    BY <1>m, OthersQueue
  <2>2. Outstanding(p)' <=> Outstanding(p)
    BY <1>1, <2>1, OutstandingIs, OutstandingNext
  <2>3. \A r : Latest(p, r)' => Latest(p, r)
    BY <1>1, <2>1 DEF Latest
  <2> QED BY <2>2, <2>3
<1>2. ASSUME NEW p \in Panel, \A subject \in Askable(p) : ~ AskedFor(p, subject)
      PROVE  Still(p) /\ (Outstanding(p)' <=> Outstanding(p)) /\ \A r : Latest(p, r)' => Latest(p, r)
  BY <1>1, <1>2, <1>m, GrowsPasses
<1>3. ASSUME NEW p \in Panel PROVE Backed(p)' /\ (p # "risk" => Tracks(p)')
  <2>1. CASE \E subject \in Askable(p) : AskedFor(p, subject)
    BY <2>1, AskedKeeps
  <2>2. CASE \A subject \in Askable(p) : ~ AskedFor(p, subject)
    <3>1. Backed(p) /\ (p # "risk" => Tracks(p))
      BY DEF IInv
    <3> QED BY <1>2, <2>2, <3>1, StillKeeps
  <2> QED BY <2>1, <2>2
<1>4. RiskNamesItsSymbol'
  <2>1. "risk" \in Panel
    BY Panels
  <2>2. Still("risk") \/ panel'["risk"].loading
    BY <1>1, <2>1 DEF AskedFor
  <2> QED BY <2>2 DEF IInv, RiskNamesItsSymbol, Still
<1>5. Sorted'
  BY <1>1, GrowsSorted DEF IInv
<1>6. Strip'
  <2>1. /\ Strip /\ Links /\ "focus" \in Panel /\ "risk" \in Panel
        /\ panel["focus"].asked.symbol \in Symbol \cup {Nothing}
        /\ Askable("risk") = Symbol \cup {Nothing}
    <3>1. "focus" \in Panel /\ "risk" \in Panel /\ Askable("risk") = Symbol \cup {Nothing}
      BY Panels
    <3>2. panel["focus"] \in State("focus")
      BY <3>1 DEF TypeOK
    <3>3. panel["focus"].asked \in [symbol : Symbol \cup {Nothing}, timeframe : Timeframe]
      BY <3>2, Panels DEF State
    <3> QED BY <3>1, <3>3 DEF IInv, Effect
  <2>2. CASE \E subject \in Askable("focus") : AskedFor("focus", subject)
    BY <2>1, <2>2, AskedMoves DEF Strip
  <2>3. CASE Untouched("focus") /\ AskedFor("risk", panel["focus"].asked.symbol)
    <3>1. \/ panel'["risk"].refused
          \/ Outstanding("risk")' /\ \A r : Latest("risk", r)' => r.subject = panel'["risk"].asked
      BY <2>1, <2>3, AskedMoves
    <3>2. panel'["risk"].asked = panel'["focus"].asked.symbol
      BY <2>3 DEF AskedFor, Untouched
    <3> QED BY <3>1, <3>2 DEF Strip
  <2>4. ASSUME linked' = linked, Untouched("risk"), Passes("risk"),
               \A subject \in Askable("focus") : ~ AskedFor("focus", subject)
        PROVE  Strip'
    <3>1. (Outstanding("risk")' <=> Outstanding("risk")) /\ \A r : Latest("risk", r)' => Latest("risk", r)
      BY <1>m, <2>1, <2>4
    <3>2. Still("focus") /\ (Outstanding("focus")' <=> Outstanding("focus"))
      BY <1>2, <2>1, <2>4
    <3>3. panel'["focus"].asked.symbol = panel["focus"].asked.symbol
      BY <3>2 DEF Still
    <3>4. /\ panel'["risk"] = panel["risk"]
          /\ panel'["focus"].failed = panel["focus"].failed /\ panel'["focus"].refused = panel["focus"].refused
      BY <2>4, <3>2 DEF Untouched, Still
    <3> QED BY <2>1, <2>4, <3>1, <3>2, <3>3, <3>4 DEF Strip
  <2>5. ~ linked' => Strip'
    BY DEF Strip
  <2> QED BY <2>1, <2>2, <2>3, <2>4, <2>5 DEF Links
<1> QED BY <1>3, <1>4, <1>5, <1>6 DEF IInv

\* So does applying the oldest result: if it answers the last request of its
\* panel, it shows what that panel asked for.
LEMMA ApplyKeeps ==
  ASSUME TypeOK, IInv, Apply
  PROVE  IInv'
<1>0. PICK o, subject :
        /\ o \in Panel /\ subject \in Askable(o)
        /\ o = results[1].request.panel /\ subject = results[1].request.subject
        /\ Over(o, subject) /\ Others(o) /\ LinkedBy(o, subject)
  BY ApplyTypes
<1>1. /\ o \in Panel /\ subject \in Askable(o)
      /\ o = results[1].request.panel /\ subject = results[1].request.subject
      /\ ~ panel'[o].loading /\ panel'[o].refused = panel[o].refused
      /\ \A p \in Panel \ {o} :
           \/ Untouched(p)
           \/ p = "risk" /\ \E s \in Askable("risk") : AskedFor("risk", s)
  BY <1>0 DEF Over, Others
<1>2. \/ /\ panel'[o].failed /\ panel'[o].shown = panel[o].shown
         /\ panel'[o].asked = panel[o].asked
      \/ /\ ~ panel'[o].failed /\ panel'[o].shown = subject
         /\ panel'[o].asked = IF o = "risk" THEN subject ELSE panel[o].asked
  BY <1>0 DEF Over
<1>3. /\ TypeOK' /\ results # << >> /\ results' = Tail(results) /\ fetch' = fetch
      /\ \A c \in Channel : Grows(c)
  BY ApplyTypes
<1>4. /\ Done \in Seq(Request) /\ Done # << >> /\ Done' = Tail(Done)
      /\ Done[1].panel = o /\ Done[1].subject = subject
  BY <1>1, <1>3, DoneTypes, DoneTail
<1>5. ASSUME NEW p \in Panel
      PROVE  /\ Has(Done, p) <=> o = p \/ Has(Done', p)
             /\ \A r : LastFor(Done', p, r) => LastFor(Done, p, r)
             /\ o = p /\ ~ Has(Done', p) => LastFor(Done, p, Done[1])
  BY <1>4, LastOfTail
<1>m. ASSUME NEW p \in Panel, Passes(p)
      PROVE  /\ Outstanding(p) <=> o = p \/ Outstanding(p)'
             /\ \A r : Latest(p, r)' => Latest(p, r)
             /\ o = p /\ ~ Outstanding(p)' => Latest(p, Done[1])
  <2>1. /\ Has(queue'[ChannelOf[p]], p) <=> Has(queue[ChannelOf[p]], p)
        /\ \A r : LastFor(queue'[ChannelOf[p]], p, r) => LastFor(queue[ChannelOf[p]], p, r)
        /\ Fetched(p)' <=> Fetched(p)
    BY <1>3, <1>m, OthersQueue
  <2>2. /\ Outstanding(p) <=> Has(queue[ChannelOf[p]], p) \/ Fetched(p) \/ Has(Done, p)
        /\ Outstanding(p)' <=> Has(queue'[ChannelOf[p]], p) \/ Fetched(p)' \/ Has(Done', p)
    BY <1>3, OutstandingIs, OutstandingNext
  <2>3. Outstanding(p) <=> o = p \/ Outstanding(p)'
    BY <1>5, <2>1, <2>2
  <2>4. \A r : Latest(p, r)' => Latest(p, r)
    BY <1>3, <1>5, <2>1 DEF Latest
  <2>5. o = p /\ ~ Outstanding(p)' => Latest(p, Done[1])
    BY <1>5, <2>1, <2>2 DEF Latest
  <2> QED BY <2>3, <2>4, <2>5
<1>6. ASSUME NEW p \in Panel, \A x \in Askable(p) : ~ AskedFor(p, x)
      PROVE  /\ Outstanding(p) <=> o = p \/ Outstanding(p)'
             /\ \A r : Latest(p, r)' => Latest(p, r)
             /\ o = p /\ ~ Outstanding(p)' => Latest(p, Done[1])
  BY <1>3, <1>6, <1>m, GrowsPasses
<1>7. /\ Outstanding(o)
      /\ \A r : Latest(o, r)' => Latest(o, r)
      /\ ~ Outstanding(o)' => Latest(o, Done[1])
  <2>1. \A x \in Askable(o) : ~ AskedFor(o, x)
    BY <1>1 DEF AskedFor
  <2> QED BY <1>1, <1>6, <2>1
<1>8. ASSUME NEW p \in Panel \ {o} PROVE Backed(p)' /\ (p # "risk" => Tracks(p)')
  <2>1. CASE \E x \in Askable(p) : AskedFor(p, x)
    BY <1>3, <2>1, AskedKeeps
  <2>2. CASE \A x \in Askable(p) : ~ AskedFor(p, x)
    <3>1. Backed(p) /\ (p # "risk" => Tracks(p)) /\ Still(p)
      BY <1>1, <2>2, UntouchedIsStill DEF IInv
    <3>2. (Outstanding(p)' <=> Outstanding(p)) /\ \A r : Latest(p, r)' => Latest(p, r)
      BY <1>6, <2>2
    <3> QED BY <1>3, <3>1, <3>2, StillKeeps
  <2> QED BY <2>1, <2>2
<1>9. Backed(o)'
  BY <1>1 DEF Backed
<1>10. ASSUME o # "risk" PROVE Tracks(o)'
  <2>1. Tracks(o) /\ panel'[o].asked = panel[o].asked
    BY <1>1, <1>2, <1>10 DEF IInv
  <2>2. ~ (o = "focus" /\ panel'[o].asked.symbol = Nothing)
    BY <1>7, <2>1 DEF Tracks
  <2>3. ASSUME ~ panel'[o].refused
        PROVE  /\ \A r : Latest(o, r)' => r.subject = panel'[o].asked
               /\ ~ Outstanding(o)' /\ ~ panel'[o].failed => panel'[o].shown = panel'[o].asked
    <3>1. \A r : Latest(o, r) => r.subject = panel'[o].asked
      BY <1>1, <2>1, <2>3 DEF Tracks
    <3>2. ~ Outstanding(o)' => subject = panel'[o].asked
      BY <1>4, <1>7, <3>1
    <3> QED BY <1>2, <1>7, <3>1, <3>2
  <2> QED BY <2>2, <2>3 DEF Tracks
<1>11. RiskNamesItsSymbol'
  <2>1. CASE o = "risk"
    BY <1>2, <2>1 DEF RiskNamesItsSymbol
  <2>2. CASE o # "risk"
    <3>1. Untouched("risk") \/ panel'["risk"].loading
      BY <1>1, <2>2, Panels DEF AskedFor
    <3> QED BY <3>1 DEF IInv, RiskNamesItsSymbol, Untouched
  <2> QED BY <2>1, <2>2
<1>12. Sorted'
  BY <1>3, GrowsSorted DEF IInv
<1>13. Strip'
  <2>1. "focus" \in Panel /\ "risk" \in Panel /\ Strip
    BY Panels DEF IInv
  <2>2. CASE \E x \in Askable("focus") : AskedFor("focus", x)
    BY <1>3, <2>1, <2>2, AskedMoves DEF Strip
  <2>3. CASE o = "focus" /\ AskedFor("risk", subject.symbol)
    <3>1. subject.symbol \in Askable("risk") /\ panel'["focus"].asked = panel["focus"].asked
      BY <1>1, <1>2, <2>3, Panels
    <3>2. \/ panel'["risk"].refused
          \/ Outstanding("risk")' /\ \A r : Latest("risk", r)' => r.subject = subject.symbol
      BY <1>3, <2>1, <2>3, <3>1, AskedMoves DEF AskedFor
    <3>3. ~ Outstanding("focus")' /\ ~ panel'["focus"].refused => subject = panel'["focus"].asked
      <4>1. Tracks("focus")
        BY <2>1 DEF IInv
      <4> QED BY <1>1, <1>4, <1>7, <2>3, <3>1, <4>1 DEF Tracks
    <3> QED BY <3>2, <3>3 DEF Strip
  <2>4. CASE o = "focus" /\ panel'["focus"].failed
    BY <2>4 DEF Strip
  <2>5. ASSUME o # "focus", linked' = linked, o # "risk" => Untouched("risk") /\ Passes("risk"),
               \A x \in Askable("focus") : ~ AskedFor("focus", x)
        PROVE  Strip'
    <3>1. panel'["focus"] = panel["focus"] /\ (Outstanding("focus")' <=> Outstanding("focus"))
      BY <1>1, <1>6, <2>1, <2>5 DEF Untouched
    <3>2. CASE o = "risk"
      <4>1. ASSUME linked, ~ Outstanding("focus"), ~ panel["focus"].failed,
                   ~ panel["focus"].refused, ~ panel["risk"].refused
            PROVE  /\ \A r : Latest("risk", r)' => r.subject = panel["focus"].asked.symbol
                   /\ ~ Outstanding("risk")' => subject = panel["focus"].asked.symbol
        BY <1>4, <1>7, <2>1, <3>2, <4>1 DEF Strip
      <4>2. ~ panel'["risk"].failed => panel'["risk"].asked = subject
        BY <1>2, <3>2
      <4>3. panel'["risk"].refused = panel["risk"].refused
        BY <1>1, <3>2
      <4> QED BY <2>5, <3>1, <4>1, <4>2, <4>3 DEF Strip
    <3>3. CASE o # "risk"
      <4>1. /\ panel'["risk"] = panel["risk"]
            /\ (Outstanding("risk")' <=> Outstanding("risk")) /\ \A r : Latest("risk", r)' => Latest("risk", r)
        BY <1>m, <2>1, <2>5, <3>3 DEF Untouched
      <4> QED BY <2>1, <2>5, <3>1, <4>1 DEF Strip
    <3> QED BY <3>2, <3>3
  <2> QED BY <1>0, <2>2, <2>3, <2>4, <2>5 DEF LinkedBy
<1> QED BY <1>8, <1>9, <1>10, <1>11, <1>12, <1>13 DEF IInv

LEMMA InitInv == SessionInit => IInv
<1> SUFFICES ASSUME SessionInit PROVE IInv
  OBVIOUS
<1>1. /\ TypeOK /\ results = << >>
      /\ \A c \in Channel : queue[c] = << >> /\ fetch[c] = Nothing
  BY InitTypes DEF SessionInit, Init, SessionTypeOK
<1>2. Sorted
  <2>1. \A i \in 1 .. Len(<< >>) : FALSE
    OBVIOUS
  <2> QED BY <1>1, <2>1 DEF Sorted
<1>3. ASSUME NEW p \in Panel
      PROVE  /\ panel[p].shown = Nothing /\ ~ panel[p].loading
             /\ p = "risk" => panel[p].asked = Nothing
  <2> DEFINE chart == [symbol |-> Nothing, timeframe |-> "5d"]
             list  == [severity |-> "", page |-> 0]
  <2>1. /\ panel["focus"] = Unasked(chart) /\ panel["board"] = Unasked(list)
        /\ panel["detail"] = Unasked(Nothing) /\ panel["risk"] = Unasked(Nothing)
    BY DEF SessionInit, Init
  <2>2. \A x : Unasked(x).shown = Nothing /\ ~ Unasked(x).loading /\ Unasked(x).asked = x
    BY DEF Unasked
  <2> HIDE DEF chart, list
  <2> QED BY <2>1, <2>2, Panels
<1>4. ASSUME NEW p \in Panel PROVE ~ Outstanding(p)
  <2>1. queue[ChannelOf[p]] = << >> /\ fetch[ChannelOf[p]] = Nothing
    BY <1>1, Panels
  <2>2. \A i \in 1 .. Len(<< >>) : FALSE
    OBVIOUS
  <2> QED BY <1>1, <2>1, <2>2 DEF Outstanding
<1>5. \A p \in Panel : Backed(p) /\ Tracks(p)
  BY <1>1, <1>3, <1>4, LatestIsOutstanding DEF Backed, Tracks
<1>6. RiskNamesItsSymbol
  BY <1>3, Panels DEF RiskNamesItsSymbol
<1>7. Strip
  BY DEF SessionInit, Init, Strip
<1> QED BY <1>2, <1>5, <1>6, <1>7 DEF IInv

LEMMA NextInv ==
  SessionTypeOK /\ SessionTypeOK' /\ IInv /\ [SessionNext]_sessionVars => IInv'
<1> SUFFICES ASSUME TypeOK, TypeOK', IInv, [SessionNext]_sessionVars
             PROVE  IInv'
  BY DEF SessionTypeOK
\* Steps of the lock and of the clock leave the requests alone.
<1>k. ASSUME UNCHANGED << panel, linked, queue, fetch, results >> PROVE IInv'
  <2>1. Done' = Done /\ \A p : Outstanding(p)' <=> Outstanding(p)
    BY <1>k DEF Done, Outstanding
  <2>2. \A p, r : Latest(p, r)' <=> Latest(p, r)
    BY <1>k, <2>1 DEF Latest, Fetched
  <2>3. Sorted'
    BY <1>k DEF IInv, Sorted
  <2> QED BY <1>k, <2>1, <2>2, <2>3, MovesKeep DEF MovesOn
<1>1. CASE Type
  <2>1. Effect /\ UNCHANGED << fetch, results >>
    BY <1>1, KeyEffect DEF Type
  <2> QED BY <2>1, EffectKeeps
<1>2. CASE Unlock
  BY <1>k, <1>2 DEF Unlock, Press
<1>3. CASE TimePasses
  BY <1>k, <1>3 DEF TimePasses, vars, fetchVars
<1>4. CASE EndFrame
  BY <1>k, <1>4 DEF EndFrame, vars, fetchVars
<1>5. ASSUME NEW c \in Channel, Receive(c) PROVE IInv'
  <2>1. MovesOn /\ Sorted' /\ UNCHANGED << panel, linked >>
    BY <1>5, ReceiveMoves DEF IInv, Receive
  <2> QED BY <2>1, MovesKeep
<1>6. ASSUME NEW c \in Channel, Answer(c) PROVE IInv'
  <2>1. MovesOn /\ Sorted' /\ UNCHANGED << panel, linked >>
    BY <1>6, AnswerMoves, AnswerTypes DEF IInv
  <2> QED BY <2>1, MovesKeep
<1>7. CASE Drain
  <2>1. MovesOn /\ Sorted' /\ UNCHANGED << panel, linked >>
    BY <1>7, DrainMoves DEF IInv, Drain
  <2> QED BY <2>1, MovesKeep
<1>8. CASE Apply
  BY <1>8, ApplyKeeps
<1>9. CASE UNCHANGED sessionVars
  BY <1>k, <1>9 DEF sessionVars, vars, fetchVars
<1> QED BY <1>1, <1>2, <1>3, <1>4, <1>5, <1>6, <1>7, <1>8, <1>9 DEF SessionNext, FetcherStep

LEMMA Invariant == SessionSpec => [](SessionTypeOK /\ IInv)
<1>1. SessionSpec => []SessionTypeOK
  BY TypeCorrect
<1>2. SessionInit => IInv
  BY InitInv
<1>3. SessionTypeOK /\ SessionTypeOK' /\ IInv /\ [SessionNext]_sessionVars => IInv'
  BY NextInv
<1> QED BY <1>1, <1>2, <1>3, PTL DEF SessionSpec
-----------------------------------------------------------------------------
(* What the terminal promises *)

\* No view goes on saying "loading" when nothing is on its way for it, unless
\* try_send refused its request: through stale answers, failures, skipped
\* requests and the lock.
THEOREM LoadingBacked == SessionSpec => []LoadingIsBacked
<1>1. IInv => LoadingIsBacked
  BY DEF IInv, Backed, LoadingIsBacked
<1> QED BY <1>1, Invariant, PTL

\* The risk panel never puts the numbers of one symbol under another's name.
THEOREM RiskNamed == SessionSpec => []RiskNamesItsSymbol
<1>1. IInv => RiskNamesItsSymbol
  BY DEF IInv
<1> QED BY <1>1, Invariant, PTL

\* When the answers have come in, each view shows what was asked for last.
THEOREM LatestShown == SessionSpec => []LatestIsShown
<1>1. IInv => LatestIsShown
  <2> SUFFICES ASSUME IInv, NEW p \in Panel, panel[p].shown # Nothing, ~ Outstanding(p),
                      ~ panel[p].failed, ~ panel[p].refused
               PROVE  panel[p].shown = panel[p].asked
    BY DEF LatestIsShown
  <2>1. CASE p = "risk"
    BY <2>1 DEF IInv, Backed, RiskNamesItsSymbol
  <2>2. CASE p # "risk"
    BY <2>2 DEF IInv, Tracks
  <2> QED BY <2>1, <2>2
<1> QED BY <1>1, Invariant, PTL

\* The strip of the focus view ends up with the symbol in focus, although two
\* tasks fetch the two and every bundle asks for a risk of its own.
THEOREM StripFollows == SessionSpec => []StripFollowsFocus
<1>1. IInv => StripFollowsFocus
  <2>1. "focus" \in Panel /\ "risk" \in Panel
    BY Panels
  <2> QED BY <2>1 DEF IInv, Strip, StripFollowsFocus, Quiet
<1> QED BY <1>1, Invariant, PTL
-----------------------------------------------------------------------------
(* What the requests under way are for *)

IsIn(q, r) == \E i \in 1 .. Len(q) : q[i] = r

\* Request r waits in a channel, is being fetched, or has its result.
Sent(r) ==
  \/ \E c \in Channel : IsIn(queue[c], r) \/ fetch[c] = r
  \/ IsIn(Done, r)

LEMMA UnderwayIs ==
  ASSUME TypeOK, NEW p \in Panel, NEW s
  PROVE  s \in Underway(p) <=> \E r \in Request : Sent(r) /\ r.panel = p /\ r.subject = s
<1> DEFINE requests == (UNION {ToSet(queue[c]) : c \in Channel})
                       \cup {fetch[c] : c \in {d \in Channel : fetch[d] # Nothing}}
                       \cup {results[i].request : i \in 1 .. Len(results)}
<1>1. Underway(p) = {r.subject : r \in {x \in requests : x.panel = p}}
  BY DEF Underway
<1>2. /\ \A c \in Channel : queue[c] \in Seq(Request) /\ fetch[c] \in Request \cup {Nothing}
      /\ Nothing \notin Request
      /\ Done \in Seq(Request) /\ Len(Done) = Len(results)
      /\ \A i \in 1 .. Len(results) : Done[i] = results[i].request
  BY NothingAssumption, DoneTypes DEF TypeOK, Done
<1> HIDE DEF Done
<1>3. ASSUME NEW r PROVE r \in requests <=> r \in Request /\ Sent(r)
  <2>1. ASSUME NEW c \in Channel PROVE r \in ToSet(queue[c]) <=> IsIn(queue[c], r)
    BY <1>2 DEF ToSet, IsIn
  <2>2. ASSUME NEW c \in Channel, IsIn(queue[c], r) PROVE r \in Request
    BY <1>2, <2>2 DEF IsIn
  <2>3. IsIn(Done, r) => r \in Request
    BY <1>2 DEF IsIn
  <2>4. (\E i \in 1 .. Len(results) : results[i].request = r) <=> IsIn(Done, r)
    BY <1>2 DEF IsIn
  <2>5. r \in requests <=> \/ \E c \in Channel : r \in ToSet(queue[c])
                           \/ \E c \in Channel : fetch[c] # Nothing /\ fetch[c] = r
                           \/ \E i \in 1 .. Len(results) : results[i].request = r
    OBVIOUS
  <2> HIDE DEF requests
  <2> QED BY <1>2, <2>1, <2>2, <2>3, <2>4, <2>5 DEF Sent
<1> HIDE DEF requests
<1> QED BY <1>1, <1>3

LEMMA UnderwayNext ==
  TypeOK' => \A p \in Panel : \A s :
    s \in Underway(p)' <=> \E r \in Request : Sent(r)' /\ r.panel = p /\ r.subject = s
<1>1. TypeOK => \A p \in Panel : \A s :
        s \in Underway(p) <=> \E r \in Request : Sent(r) /\ r.panel = p /\ r.subject = s
  BY UnderwayIs
<1>2. (TypeOK => \A p \in Panel : \A s :
        s \in Underway(p) <=> \E r \in Request : Sent(r) /\ r.panel = p /\ r.subject = s)'
  BY <1>1, PTL
<1> QED BY <1>2

\* A panel waits for an answer exactly if a request is under way.
LEMMA OutstandingUnderway ==
  ASSUME TypeOK, Sorted, NEW p \in Panel
  PROVE  Outstanding(p) <=> Underway(p) # {}
<1>1. Outstanding(p) <=> Has(queue[ChannelOf[p]], p) \/ Fetched(p) \/ Has(Done, p)
  BY OutstandingIs
<1>2. /\ \A c \in Channel : queue[c] \in Seq(Request) /\ fetch[c] \in Request \cup {Nothing}
      /\ Nothing \notin Request /\ Done \in Seq(Request) /\ ChannelOf[p] \in Channel
  BY NothingAssumption, DoneTypes, Panels DEF TypeOK
<1>3. Underway(p) # {} <=> \E r \in Request : Sent(r) /\ r.panel = p
  BY UnderwayIs
<1> HIDE DEF Done
<1>4. ASSUME NEW q \in Seq(Request) PROVE Has(q, p) <=> \E r \in Request : IsIn(q, r) /\ r.panel = p
  BY DEF Has, IsIn
<1>5. ASSUME NEW c \in Channel, c # ChannelOf[p], NEW r \in Request, r.panel = p
      PROVE  ~ IsIn(queue[c], r) /\ fetch[c] # r
  BY <1>2, <1>5 DEF Sorted, IsIn
<1>6. Fetched(p) <=> \E r \in Request : fetch[ChannelOf[p]] = r /\ r.panel = p
  BY <1>2 DEF Fetched
<1>7. \A r \in Request : r.panel = p =>
        (Sent(r) <=> IsIn(queue[ChannelOf[p]], r) \/ fetch[ChannelOf[p]] = r \/ IsIn(Done, r))
  BY <1>2, <1>5 DEF Sent
<1>8. /\ Has(queue[ChannelOf[p]], p) <=> \E r \in Request : IsIn(queue[ChannelOf[p]], r) /\ r.panel = p
      /\ Has(Done, p) <=> \E r \in Request : IsIn(Done, r) /\ r.panel = p
  BY <1>2, <1>4
<1> QED BY <1>1, <1>3, <1>6, <1>7, <1>8

Less == {pair \in Nat \X Nat : pair[1] < pair[2]}

LEMMA LessWF == IsWellFoundedOn(Less, Nat)
  BY NatLessThanWellFounded DEF OpToRel, Less

\* One of the requests for a panel is the last.
LEMMA LastExists ==
  ASSUME NEW q \in Seq(Request), NEW p, Has(q, p)
  PROVE  \E r \in Request : LastFor(q, p, r) /\ IsIn(q, r)
<1> DEFINE n == Len(q)
           T == {k \in Nat : k < n /\ q[n - k].panel = p}
<1>1. PICK i \in 1 .. n : q[i].panel = p
  BY DEF Has
<1>2. n \in Nat /\ \A j \in 1 .. n : q[j] \in Request
  OBVIOUS
<1> HIDE DEF n
<1>3. n - i \in T
  <2>1. n - i \in Nat /\ n - i < n /\ n - (n - i) = i
    BY <1>1, <1>2
  <2> QED BY <1>1, <2>1
<1>4. PICK k \in T : \A j \in T : ~ (<< j, k >> \in Less)
  <2>1. T \subseteq Nat /\ T # {}
    BY <1>3
  <2> HIDE DEF T
  <2> QED BY <2>1, LessWF, WFMin
<1>5. \A j \in T : ~ (j < k)
  BY <1>4 DEF Less
<1>6. n - k \in 1 .. n /\ q[n - k].panel = p
  BY <1>2, <1>4
<1>7. ASSUME NEW j \in (n - k) + 1 .. n, q[j].panel = p PROVE FALSE
  <2>1. n - j \in Nat /\ n - j < n /\ n - (n - j) = j /\ n - j < k
    BY <1>2, <1>4
  <2>2. n - j \in T
    BY <1>7, <2>1
  <2> QED BY <1>5, <2>1, <2>2
<1> HIDE DEF T
<1>8. \A j \in (n - k) + 1 .. n : q[j].panel # p
  BY <1>7
<1> QED BY <1>2, <1>6, <1>8 DEF LastFor, IsIn, n
-----------------------------------------------------------------------------
(* How steps change what is under way *)

\* Every request that was sent is still; no others are.
SameSent == \A r \in Request : Sent(r)' <=> Sent(r)

LEMMA InTail ==
  ASSUME NEW q \in Seq(Request), q # << >>, NEW r
  PROVE  IsIn(q, r) <=> q[1] = r \/ IsIn(Tail(q), r)
<1> DEFINE t == Tail(q)
<1>1. /\ Len(q) \in Nat /\ Len(t) = Len(q) - 1 /\ 1 \in 1 .. Len(q)
      /\ \A i \in 1 .. Len(t) : t[i] = q[i + 1] /\ i + 1 \in 1 .. Len(q)
  BY HeadTail
<1> HIDE DEF t
<1>2. ASSUME NEW i \in 1 .. Len(q), q[i] = r, i # 1 PROVE IsIn(t, r)
  <2>1. i - 1 \in 1 .. Len(t) /\ (i - 1) + 1 = i
    BY <1>1, <1>2
  <2>2. t[i - 1] = r
    BY <1>1, <1>2, <2>1
  <2> QED BY <2>1, <2>2 DEF IsIn
<1>3. (IsIn(t, r) => IsIn(q, r)) /\ (q[1] = r => IsIn(q, r))
  BY <1>1 DEF IsIn
<1> QED BY <1>2, <1>3 DEF IsIn, t

LEMMA InAppended ==
  ASSUME NEW q \in Seq(Request), NEW x \in Request, NEW r
  PROVE  IsIn(Append(q, x), r) <=> IsIn(q, r) \/ x = r
<1> DEFINE new == Append(q, x)
<1>1. /\ Len(q) \in Nat /\ Len(new) = Len(q) + 1 /\ new[Len(q) + 1] = x
      /\ \A i \in 1 .. Len(q) : new[i] = q[i]
  BY Appended
<1> HIDE DEF new
<1>2. IsIn(q, r) => IsIn(new, r)
  BY <1>1 DEF IsIn
<1>3. x = r => IsIn(new, r)
  <2>1. Len(q) + 1 \in 1 .. Len(new)
    BY <1>1
  <2> QED BY <1>1, <2>1 DEF IsIn
<1>4. \A i \in 1 .. Len(new) : i \in 1 .. Len(q) \/ i = Len(q) + 1
  BY <1>1
<1> QED BY <1>1, <1>2, <1>3, <1>4 DEF IsIn, new

LEMMA ReceiveSent ==
  ASSUME TypeOK, NEW c \in Channel, Receive(c)
  PROVE  SameSent
<1>1. /\ queue[c] \in Seq(Request) /\ queue[c] # << >> /\ fetch[c] = Nothing
      /\ fetch'[c] = Head(queue[c]) /\ queue'[c] = Tail(queue[c])
      /\ \A d \in Channel \ {c} : fetch'[d] = fetch[d] /\ queue'[d] = queue[d]
      /\ Done' = Done
  BY ReceiveTypes DEF Receive, Done
<1>2. Head(queue[c]) = queue[c][1]
  BY <1>1, HeadTail
<1> HIDE DEF Done
<1> SUFFICES ASSUME NEW r \in Request PROVE Sent(r)' <=> Sent(r)
  BY DEF SameSent
<1>3. IsIn(queue[c], r) <=> queue[c][1] = r \/ IsIn(Tail(queue[c]), r)
  BY <1>1, InTail
<1>4. r # Nothing
  BY RequestIs
<1>5. \A d \in Channel : (IsIn(queue'[d], r) \/ fetch'[d] = r) <=> (IsIn(queue[d], r) \/ fetch[d] = r)
  BY <1>1, <1>2, <1>3, <1>4
<1>6. Sent(r)' <=> (\E d \in Channel : IsIn(queue'[d], r) \/ fetch'[d] = r) \/ IsIn(Done', r)
  BY DEF Sent, IsIn
<1> QED BY <1>1, <1>5, <1>6 DEF Sent

LEMMA AnswerSent ==
  ASSUME TypeOK, NEW c \in Channel, Answer(c)
  PROVE  SameSent
<1>1. /\ fetch[c] \in Request /\ fetch'[c] = Nothing
      /\ queue' = queue /\ \A d \in Channel \ {c} : fetch'[d] = fetch[d]
      /\ \E ok \in BOOLEAN : results' = Append(results, [request |-> fetch[c], ok |-> ok])
  BY AnswerTypes
<1> DEFINE x == fetch[c]
<1>2. Done' = Append(Done, x)
  <2>1. PICK ok \in BOOLEAN : results' = Append(results, [request |-> x, ok |-> ok])
    BY <1>1
  <2>2. [request |-> x, ok |-> ok] \in Result
    BY <1>1 DEF Result
  <2> QED BY <2>1, <2>2, DoneAppended
<1> SUFFICES ASSUME NEW r \in Request PROVE Sent(r)' <=> Sent(r)
  BY DEF SameSent
<1>3. IsIn(Done', r) <=> IsIn(Done, r) \/ x = r
  BY <1>1, <1>2, DoneTypes, InAppended
<1>4. r # Nothing
  BY RequestIs
<1>5. Sent(r)' <=> (\E d \in Channel : IsIn(queue'[d], r) \/ fetch'[d] = r) \/ IsIn(Done', r)
  BY DEF Sent, IsIn
<1> HIDE DEF Done
<1> QED BY <1>1, <1>3, <1>4, <1>5 DEF Sent

\* Draining gives up requests of the focus view, and one stays.
LEMMA DrainSent ==
  ASSUME TypeOK, Sorted, Drain
  PROVE  /\ \A r \in Request : Sent(r)' => Sent(r)
         /\ \A r \in Request : Sent(r) /\ r.panel # "focus" => Sent(r)'
         /\ \E r \in Request : Sent(r)' /\ r.panel = "focus"
<1>1. /\ fetch["focus"] # Nothing /\ Newest \in Request
      /\ fetch'["focus"] = Newest /\ queue'["focus"] = << >>
      /\ fetch'["intel"] = fetch["intel"] /\ queue'["intel"] = queue["intel"]
      /\ Done' = Done /\ Channel = {"focus", "intel"} /\ queue["focus"] \in Seq(Request)
      /\ fetch["focus"] \in Request
  BY DrainTypes DEF Drain, Done, Channel, TypeOK
<1> DEFINE q == queue["focus"]
           n == Len(q)
<1>2. q \in Seq(Request) /\ n \in Nat /\ Newest = IF q = << >> THEN fetch["focus"] ELSE q[n]
  BY <1>1 DEF Newest
<1>3. (\A i \in 1 .. n : q[i].panel = "focus") /\ fetch["focus"].panel = "focus"
  <2>1. /\ \A i \in 1 .. n : q[i] \in Request /\ ChannelOf[q[i].panel] = "focus"
        /\ ChannelOf[fetch["focus"].panel] = "focus"
    BY <1>1, <1>2 DEF Sorted
  <2>2. \A p \in Panel : ChannelOf[p] = "focus" => p = "focus"
    BY Panels
  <2> QED BY <1>1, <2>1, <2>2, RequestIs
<1>4. q # << >> => n \in 1 .. n
  BY <1>2
<1> HIDE DEF q, Done
<1>5. Newest = fetch["focus"] \/ IsIn(q, Newest)
  BY <1>2, <1>4 DEF IsIn
<1>6. Newest.panel = "focus"
  BY <1>2, <1>3, <1>4
<1>7. \A r : ~ IsIn(<< >>, r)
  BY DEF IsIn
<1>8. \A r : IsIn(q, r) => r.panel = "focus"
  BY <1>3 DEF IsIn
<1>9. ASSUME NEW r
      PROVE  /\ Sent(r)' <=> Newest = r \/ IsIn(queue["intel"], r) \/ fetch["intel"] = r \/ IsIn(Done, r)
             /\ Sent(r) <=> \/ IsIn(q, r) \/ fetch["focus"] = r
                            \/ IsIn(queue["intel"], r) \/ fetch["intel"] = r \/ IsIn(Done, r)
  <2>1. Sent(r)' <=> (\E d \in Channel : IsIn(queue'[d], r) \/ fetch'[d] = r) \/ IsIn(Done', r)
    BY DEF Sent, IsIn
  <2>2. Sent(r) <=> (\E d \in Channel : IsIn(queue[d], r) \/ fetch[d] = r) \/ IsIn(Done, r)
    BY DEF Sent
  <2> QED BY <1>1, <1>7, <2>1, <2>2 DEF q
<1> QED BY <1>1, <1>3, <1>5, <1>6, <1>8, <1>9

\* Request r waits in a channel or is being fetched.
Waiting(r) == \E c \in Channel : IsIn(queue[c], r) \/ fetch[c] = r

\* What joins the channels for a panel is what it was asked for.
LEMMA WaitingGrows ==
  ASSUME TypeOK, \A c \in Channel : Grows(c), fetch' = fetch,
         NEW r \in Request
  PROVE  /\ Waiting(r) => Waiting(r)'
         /\ Waiting(r)' => \/ Waiting(r)
                           \/ \E p \in Panel : \E x \in Askable(p) :
                                /\ r = [panel |-> p, subject |-> x]
                                /\ AskedFor(p, x) /\ HasRoom(p)
<1>1. ASSUME NEW c \in Channel
      PROVE  /\ IsIn(queue[c], r) => IsIn(queue'[c], r)
             /\ IsIn(queue'[c], r) => \/ IsIn(queue[c], r)
                                      \/ \E p \in Panel : \E x \in Askable(p) :
                                           /\ r = [panel |-> p, subject |-> x]
                                           /\ AskedFor(p, x) /\ HasRoom(p)
  <2>1. CASE queue'[c] = queue[c]
    BY <2>1
  <2>2. ASSUME NEW p \in Panel, NEW x \in Askable(p), AskedFor(p, x), ChannelOf[p] = c,
               queue'[c] = Append(queue[c], [panel |-> p, subject |-> x])
        PROVE  /\ IsIn(queue[c], r) => IsIn(queue'[c], r)
               /\ IsIn(queue'[c], r) => \/ IsIn(queue[c], r)
                                        \/ r = [panel |-> p, subject |-> x] /\ HasRoom(p)
    <3>1. queue[c] \in Seq(Request) /\ [panel |-> p, subject |-> x] \in Request
      BY RequestIs DEF TypeOK
    <3>2. ~ HasRoom(p) => queue'[c] = queue[c]
      BY <2>2 DEF AskedFor
    <3> QED BY <2>2, <3>1, <3>2, InAppended
  <2> QED BY <2>1, <2>2 DEF Grows
<1>2. Waiting(r)' <=> \E c \in Channel : IsIn(queue'[c], r) \/ fetch'[c] = r
  BY DEF Waiting, IsIn
<1> QED BY <1>1, <1>2 DEF Waiting

LEMMA SentIs == \A r : /\ Sent(r) <=> Waiting(r) \/ IsIn(Done, r)
                       /\ Sent(r)' <=> Waiting(r)' \/ IsIn(Done', r)
  BY DEF Sent, Waiting, IsIn
-----------------------------------------------------------------------------
(* The views keep the promises of RequestView *)

View(p) == INSTANCE RequestView WITH
  Subject <- Subject[p], asked <- panel[p].asked, shown <- panel[p].shown,
  loading <- panel[p].loading, failed <- panel[p].failed, refused <- panel[p].refused,
  underway <- Underway(p)

Step(p) == View(p)!Next \/ UNCHANGED View(p)!vars

\* A focus view without a symbol has not been refused anything.
Chosen == panel["focus"].asked.symbol = Nothing => ~ panel["focus"].refused

\* Unless it was refused, the last request of a view that waits is under way.
Awaits(p) == Underway(p) # {} /\ ~ panel[p].refused => panel[p].asked \in Underway(p)

LEMMA LatestExists ==
  ASSUME TypeOK, NEW p \in Panel, Outstanding(p)
  PROVE  \E r \in Request : Latest(p, r) /\ Sent(r) /\ r.panel = p
<1>1. Has(queue[ChannelOf[p]], p) \/ Fetched(p) \/ Has(Done, p)
  BY OutstandingIs
<1>2. /\ queue[ChannelOf[p]] \in Seq(Request) /\ fetch[ChannelOf[p]] \in Request \cup {Nothing}
      /\ Done \in Seq(Request) /\ ChannelOf[p] \in Channel
  BY DoneTypes, Panels DEF TypeOK
<1> HIDE DEF Done
<1>3. CASE Has(queue[ChannelOf[p]], p)
  <2>1. PICK r \in Request : LastFor(queue[ChannelOf[p]], p, r) /\ IsIn(queue[ChannelOf[p]], r)
    BY <1>2, <1>3, LastExists
  <2> QED BY <1>2, <2>1 DEF Latest, LastFor, Sent
<1>4. CASE ~ Has(queue[ChannelOf[p]], p) /\ Fetched(p)
  <2>1. fetch[ChannelOf[p]] \in Request
    BY <1>2, <1>4 DEF Fetched
  <2> QED BY <1>2, <1>4, <2>1 DEF Latest, Fetched, Sent
<1>5. CASE ~ Has(queue[ChannelOf[p]], p) /\ ~ Fetched(p)
  <2>1. PICK r \in Request : LastFor(Done, p, r) /\ IsIn(Done, r)
    BY <1>1, <1>2, <1>5, LastExists
  <2> QED BY <1>5, <2>1 DEF Latest, LastFor, Sent
<1> QED BY <1>3, <1>4, <1>5

LEMMA ViewsAwait ==
  TypeOK /\ IInv => \A p \in Panel \ {"risk"} :
    Awaits(p) /\ (Outstanding(p) <=> Underway(p) # {})
<1> SUFFICES ASSUME TypeOK, IInv, NEW p \in Panel \ {"risk"}
             PROVE  Awaits(p) /\ (Outstanding(p) <=> Underway(p) # {})
  OBVIOUS
<1>1. Outstanding(p) <=> Underway(p) # {}
  BY OutstandingUnderway DEF IInv
<1>2. ASSUME Outstanding(p), ~ panel[p].refused PROVE panel[p].asked \in Underway(p)
  <2>1. PICK r \in Request : Latest(p, r) /\ Sent(r) /\ r.panel = p
    BY <1>2, LatestExists
  <2>2. r.subject = panel[p].asked
    BY <1>2, <2>1 DEF IInv, Tracks
  <2> QED BY <2>1, <2>2, UnderwayIs
<1> QED BY <1>1, <1>2 DEF Awaits

LEMMA ViewsAwaitNext ==
  TypeOK' /\ IInv' => \A p \in Panel \ {"risk"} :
    Awaits(p)' /\ (Outstanding(p)' <=> Underway(p)' # {})
<1>1. (TypeOK /\ IInv => \A p \in Panel \ {"risk"} :
        Awaits(p) /\ (Outstanding(p) <=> Underway(p) # {}))'
  BY ViewsAwait, PTL
<1> QED BY <1>1

\* A panel that is left alone, and keeps its requests, takes no step; the focus
\* view may change the timeframe it will start with.
LEMMA StillSteps ==
  ASSUME TypeOK, TypeOK', IInv, Chosen, NEW p \in Panel \ {"risk"}, Still(p),
         Underway(p)' = Underway(p)
  PROVE  Step(p)
<1>1. CASE panel'[p].asked = panel[p].asked
  BY <1>1 DEF Still, Step, View!vars
<1>2. CASE p = "focus" /\ panel[p].asked.symbol = Nothing
  <2>1. Tracks(p) /\ Backed(p) /\ ~ panel[p].refused
    BY <1>2 DEF IInv, Chosen
  <2>2. ~ Outstanding(p) /\ panel[p].shown = Nothing /\ ~ panel[p].loading
    BY <1>2, <2>1 DEF Tracks, Backed
  <2>3. Underway(p) = {}
    BY <2>2, ViewsAwait
  <2>4. panel'[p].asked \in Subject[p]
    <3>1. panel'[p] \in State(p)
      BY DEF TypeOK
    <3> QED BY <3>1 DEF State
  <2>5. View(p)!Choose
    BY <2>1, <2>2, <2>3, <2>4 DEF Still, View!Choose
  <2> QED BY <2>5 DEF Step, View!Next
<1> QED BY <1>1, <1>2 DEF Still

LEMMA SameElements ==
  ASSUME NEW A, NEW B, \A x : x \in A <=> x \in B
  PROVE  A = B
  OBVIOUS

LEMMA SameUnderway ==
  ASSUME TypeOK, TypeOK', NEW p \in Panel,
         \A r \in Request : r.panel = p => (Sent(r)' <=> Sent(r))
  PROVE  Underway(p)' = Underway(p)
<1>1. \A s : s \in Underway(p)' <=> s \in Underway(p)
  BY UnderwayIs, UnderwayNext
<1> QED BY <1>1, SameElements

\* Fetching and skipping: the latest request stays.
LEMMA MoveSteps ==
  ASSUME TypeOK, TypeOK', SameSent, UNCHANGED panel, NEW p \in Panel \ {"risk"}
  PROVE  Step(p)
<1>1. Underway(p)' = Underway(p)
  BY SameUnderway DEF SameSent
<1> QED BY <1>1 DEF Step, View!vars

LEMMA DrainSteps ==
  ASSUME TypeOK, TypeOK', IInv, IInv', Drain, NEW p \in Panel \ {"risk"}
  PROVE  Step(p)
<1>1. /\ \A r \in Request : Sent(r)' => Sent(r)
      /\ \A r \in Request : Sent(r) /\ r.panel # "focus" => Sent(r)'
      /\ \E r \in Request : Sent(r)' /\ r.panel = "focus"
  BY DrainSent DEF IInv
<1>2. panel' = panel
  BY DEF Drain
<1>3. CASE p # "focus"
  <2>1. Underway(p)' = Underway(p)
    BY <1>1, <1>3, SameUnderway
  <2> QED BY <1>2, <2>1 DEF Step, View!vars
<1>4. CASE p = "focus"
  <2>1. \A x : x \in Underway(p)' => x \in Underway(p)
    BY <1>1, UnderwayIs, UnderwayNext
  <2>2. Underway(p)' # {}
    BY <1>1, <1>4, UnderwayNext
  <2>3. panel[p].refused \/ panel[p].asked \in Underway(p)'
    BY <1>2, <2>2, ViewsAwaitNext DEF Awaits
  <2>4. View(p)!Skip
    BY <1>2, <2>1, <2>2, <2>3 DEF View!Skip, View!Kept
  <2> QED BY <2>4 DEF Step, View!Next
<1> QED BY <1>3, <1>4

\* Asking: the request joins those under way, or is refused.
LEMMA AskSteps ==
  ASSUME TypeOK, TypeOK', \A c \in Channel : Grows(c), UNCHANGED fetch,
         NEW p \in Panel \ {"risk"}, NEW subject \in Askable(p), AskedFor(p, subject),
         \A r \in Request : r.panel = p => (IsIn(Done', r) <=> IsIn(Done, r))
  PROVE  Step(p)
<1>1. /\ panel'[p].asked = subject /\ panel'[p].loading = TRUE
      /\ panel'[p].refused = ~ HasRoom(p) /\ panel'[p].shown = panel[p].shown
      /\ panel'[p].failed \in {panel[p].failed, FALSE}
  <2>1. panel[p] \in State(p) /\ panel'[p] \in State(p)
    BY DEF TypeOK
  <2>2. {panel[p].failed, panel'[p].failed, panel'[p].loading} \subseteq BOOLEAN
    BY <2>1 DEF State
  <2> QED BY <2>2 DEF AskedFor
<1> DEFINE request == [panel |-> p, subject |-> subject]
<1>2. request \in Request /\ subject \in Subject[p] /\ request.panel = p /\ request.subject = subject
  BY RequestIs, Panels
<1> HIDE DEF request
<1>3. HasRoom(p) => Sent(request)'
  <2>1. ASSUME HasRoom(p) PROVE IsIn(queue'[ChannelOf[p]], request)
    <3>1. queue[ChannelOf[p]] \in Seq(Request) /\ queue'[ChannelOf[p]] = Append(queue[ChannelOf[p]], request)
      BY <2>1, Panels DEF TypeOK, AskedFor, request
    <3> QED BY <1>2, <3>1, InAppended
  <2>2. ChannelOf[p] \in Channel
    BY Panels
  <2>3. Waiting(request)' <=> \E c \in Channel : IsIn(queue'[c], request) \/ fetch'[c] = request
    BY DEF Waiting, IsIn
  <2> QED BY <2>1, <2>2, <2>3, SentIs
<1>4. ASSUME NEW r \in Request, r.panel = p
      PROVE  Sent(r)' <=> Sent(r) \/ (HasRoom(p) /\ r = request)
  <2>1. /\ Waiting(r) => Waiting(r)'
        /\ Waiting(r)' => \/ Waiting(r)
                          \/ \E o \in Panel : \E x \in Askable(o) :
                               /\ r = [panel |-> o, subject |-> x]
                               /\ AskedFor(o, x) /\ HasRoom(o)
    BY WaitingGrows
  <2>2. ASSUME NEW o \in Panel, NEW x \in Askable(o), r = [panel |-> o, subject |-> x], AskedFor(o, x)
        PROVE  r = request /\ o = p
    BY <1>1, <1>4, <2>2 DEF AskedFor, request
  <2> QED BY <1>3, <1>4, <2>1, <2>2, SentIs
<1>5. Underway(p)' = IF HasRoom(p) THEN Underway(p) \cup {subject} ELSE Underway(p)
  <2>1. \A s : s \in Underway(p)' <=> s \in Underway(p) \/ (HasRoom(p) /\ s = subject)
    BY <1>2, <1>4, UnderwayIs, UnderwayNext
  <2> DEFINE new == IF HasRoom(p) THEN Underway(p) \cup {subject} ELSE Underway(p)
  <2>2. \A s : s \in new <=> s \in Underway(p) \/ (HasRoom(p) /\ s = subject)
    OBVIOUS
  <2> HIDE DEF new
  <2>3. Underway(p)' = new
    BY <2>1, <2>2, SameElements
  <2> QED BY <2>3 DEF new
<1>6. View(p)!Ask(subject)
  <2>1. HasRoom(p) \in BOOLEAN
    BY DEF HasRoom
  <2> QED BY <1>1, <1>5, <2>1 DEF View!Ask
<1> QED BY <1>2, <1>6 DEF Step, View!Next

\* A view that is not asked for anything keeps its requests.
LEMMA LeftSent ==
  ASSUME TypeOK, \A c \in Channel : Grows(c), UNCHANGED fetch,
         NEW p \in Panel, \A x \in Askable(p) : ~ AskedFor(p, x),
         NEW r \in Request, r.panel = p
  PROVE  Waiting(r)' <=> Waiting(r)
<1>1. /\ Waiting(r) => Waiting(r)'
      /\ Waiting(r)' => \/ Waiting(r)
                        \/ \E o \in Panel : \E x \in Askable(o) :
                             /\ r = [panel |-> o, subject |-> x]
                             /\ AskedFor(o, x) /\ HasRoom(o)
  BY WaitingGrows
<1>2. \A o : \A x : r = [panel |-> o, subject |-> x] => o = p
  OBVIOUS
<1> QED BY <1>1, <1>2

LEMMA EitherSteps ==
  ASSUME TypeOK, TypeOK', IInv, Chosen, \A c \in Channel : Grows(c), UNCHANGED fetch,
         NEW p \in Panel \ {"risk"}, Still(p) \/ \E x \in Askable(p) : AskedFor(p, x),
         \A r \in Request : r.panel = p => (IsIn(Done', r) <=> IsIn(Done, r))
  PROVE  Step(p)
<1>1. CASE \E x \in Askable(p) : AskedFor(p, x)
  BY <1>1, AskSteps
<1>2. CASE \A x \in Askable(p) : ~ AskedFor(p, x)
  <2>1. \A r \in Request : r.panel = p => (Sent(r)' <=> Sent(r))
    BY <1>2, LeftSent, SentIs
  <2>2. Underway(p)' = Underway(p)
    BY <2>1, SameUnderway
  <2> QED BY <1>2, <2>2, StillSteps
<1> QED BY <1>1, <1>2

\* A result is an answer to its panel, for the last request if it is the last.
LEMMA ApplySteps ==
  ASSUME TypeOK, IInv, IInv', Chosen, Apply, NEW p \in Panel \ {"risk"}
  PROVE  Step(p)
<1>0. PICK o, subject :
        /\ o \in Panel /\ subject \in Askable(o)
        /\ o = results[1].request.panel /\ subject = results[1].request.subject
        /\ Over(o, subject) /\ Others(o) /\ LinkedBy(o, subject)
  BY ApplyTypes
<1>1. /\ TypeOK' /\ results # << >> /\ results' = Tail(results) /\ fetch' = fetch
      /\ \A c \in Channel : Grows(c)
  BY ApplyTypes
<1>2. /\ Done \in Seq(Request) /\ Done # << >> /\ Done' = Tail(Done)
      /\ Done[1].panel = o /\ Done[1].subject = subject
  BY <1>0, <1>1, DoneTypes, DoneTail
<1>3. Done[1] \in Request
  <2> DEFINE d == Done
  <2>1. d \in Seq(Request) /\ d # << >>
    BY <1>2
  <2> HIDE DEF d
  <2>2. d[1] \in Request
    BY <2>1, HeadTail
  <2> QED BY <2>2 DEF d
<1>4. \A r : IsIn(Done, r) <=> Done[1] = r \/ IsIn(Done', r)
  BY <1>2, InTail
<1> HIDE DEF Done
<1>5. CASE p # o
  <2>1. Still(p)
    BY <1>0, <1>5, UntouchedIsStill DEF Others
  <2>2. \A r \in Request : r.panel = p => (IsIn(Done', r) <=> IsIn(Done, r))
    BY <1>2, <1>4, <1>5
  <2> QED BY <1>1, <2>1, <2>2, EitherSteps
<1>6. CASE p = o
  <2>1. /\ panel'[p].loading = FALSE /\ panel'[p].refused = panel[p].refused
        /\ \/ panel'[p].failed = TRUE /\ panel'[p].shown = panel[p].shown
           \/ panel'[p].failed = FALSE /\ panel'[p].shown = subject
        /\ panel'[p].asked = panel[p].asked
    <3>1. panel'[p] \in State(p)
      BY <1>1 DEF TypeOK
    <3>2. panel'[p].loading \in BOOLEAN /\ panel'[p].failed \in BOOLEAN
      BY <3>1 DEF State
    <3> QED BY <1>0, <1>6, <3>2 DEF Over
  <2>2. ASSUME NEW r \in Request, r.panel = p PROVE Sent(r) <=> Sent(r)' \/ r = Done[1]
    <3>1. \A x \in Askable(p) : ~ AskedFor(p, x)
      BY <2>1 DEF AskedFor
    <3>2. Waiting(r)' <=> Waiting(r)
      BY <1>1, <2>2, <3>1, LeftSent
    <3> QED BY <1>4, <3>2, SentIs
  <2>3. \A s : s \in Underway(p) <=> s \in Underway(p)' \/ s = subject
    BY <1>1, <1>2, <1>3, <1>6, <2>2, UnderwayIs, UnderwayNext
  <2>4. ASSUME Underway(p)' # {} PROVE View(p)!Answer(subject)
    <3>1. panel[p].refused \/ panel[p].asked \in Underway(p)'
      BY <1>1, <2>1, <2>4, ViewsAwaitNext DEF Awaits
    <3>2. Underway(p)' \in {Underway(p), Underway(p) \ {subject}}
      <4>1. CASE subject \in Underway(p)'
        <5>1. Underway(p)' = Underway(p)
          BY <2>3, <4>1, SameElements
        <5> QED BY <5>1
      <4>2. CASE subject \notin Underway(p)'
        <5> DEFINE rest == Underway(p) \ {subject}
        <5>1. \A s : s \in Underway(p)' <=> s \in rest
          BY <2>3, <4>2
        <5> HIDE DEF rest
        <5>2. Underway(p)' = rest
          BY <5>1, SameElements
        <5> QED BY <5>2 DEF rest
      <4> QED BY <4>1, <4>2
    <3> QED BY <2>1, <2>3, <2>4, <3>1, <3>2 DEF View!Answer, View!Kept
  <2>5. ASSUME Underway(p)' = {} PROVE View(p)!Answer(subject)
    <3>1. Underway(p) = {subject}
      <4>1. \A s : s \in Underway(p) <=> s \in {subject}
        BY <2>3, <2>5
      <4> QED BY <4>1, SameElements
    <3>2. panel[p].refused \/ subject = panel[p].asked
      BY <3>1, ViewsAwait DEF Awaits
    <3> QED BY <2>1, <2>3, <2>5, <3>1, <3>2 DEF View!Answer
  <2>6. View(p)!Answer(subject) /\ subject \in Subject[p]
    BY <1>0, <1>6, <2>4, <2>5, Panels
  <2> QED BY <2>6 DEF Step, View!Next
<1> QED BY <1>5, <1>6

LEMMA NextChosen ==
  TypeOK /\ TypeOK' /\ IInv /\ Chosen /\ [SessionNext]_sessionVars => Chosen'
<1> SUFFICES ASSUME TypeOK, IInv, Chosen, [SessionNext]_sessionVars PROVE Chosen'
  OBVIOUS
<1>k. panel' = panel => Chosen'
  BY DEF Chosen
<1>1. "focus" \in Panel /\ \A x \in Askable("focus") : x.symbol # Nothing
  BY Panels DEF Askable
<1>2. ASSUME Still("focus") \/ \E x \in Askable("focus") : AskedFor("focus", x) PROVE Chosen'
  BY <1>1, <1>2 DEF Chosen, Still, AskedFor
<1>3. CASE Type
  BY <1>1, <1>2, <1>3, KeyEffect DEF Type, Effect
<1>4. CASE Apply
  <2>1. PICK o, subject : Over(o, subject) /\ Others(o) /\ o \in Panel
    BY <1>4, ApplyTypes
  <2>2. CASE o # "focus"
    BY <1>1, <1>2, <2>1, <2>2, UntouchedIsStill DEF Others
  <2>3. CASE o = "focus"
    BY <2>1, <2>3 DEF Chosen, Over
  <2> QED BY <2>2, <2>3
<1>5. CASE Unlock \/ TimePasses \/ EndFrame \/ FetcherStep \/ UNCHANGED sessionVars
  <2>1. panel' = panel
    BY <1>5, AnswerTypes DEF Unlock, TimePasses, EndFrame, FetcherStep, sessionVars, vars, Press,
                             Receive, Drain
  <2> QED BY <1>k, <2>1
<1> QED BY <1>3, <1>4, <1>5 DEF SessionNext

LEMMA NextSteps ==
  ASSUME TypeOK, TypeOK', IInv, IInv', Chosen, [SessionNext]_sessionVars, NEW p \in Panel \ {"risk"}
  PROVE  Step(p)
<1>k. ASSUME UNCHANGED << panel, queue, fetch, results >> PROVE Step(p)
  <2>1. SameSent
    BY <1>k DEF SameSent, Sent, IsIn, Done
  <2> QED BY <1>k, <2>1, MoveSteps
<1>1. CASE Type
  <2>1. Effect /\ UNCHANGED << fetch, results >>
    BY <1>1, KeyEffect DEF Type
  <2>2. Done' = Done
    BY <2>1 DEF Done
  <2> HIDE DEF Done
  <2> QED BY <2>1, <2>2, EitherSteps DEF Effect
<1>2. CASE Unlock
  BY <1>k, <1>2 DEF Unlock, Press
<1>3. CASE TimePasses \/ EndFrame \/ UNCHANGED sessionVars
  BY <1>k, <1>3 DEF TimePasses, EndFrame, sessionVars, vars, fetchVars
<1>4. ASSUME NEW c \in Channel, Receive(c) PROVE Step(p)
  BY <1>4, ReceiveSent, MoveSteps DEF Receive
<1>5. ASSUME NEW c \in Channel, Answer(c) PROVE Step(p)
  BY <1>5, AnswerSent, AnswerTypes, MoveSteps
<1>6. CASE Drain
  BY <1>6, DrainSteps
<1>7. CASE Apply
  BY <1>7, ApplySteps
<1> QED BY <1>1, <1>2, <1>3, <1>4, <1>5, <1>6, <1>7 DEF SessionNext, FetcherStep

LEMMA InitViews ==
  SessionInit => Chosen /\ \A p \in Panel \ {"risk"} : View(p)!Init
<1> SUFFICES ASSUME SessionInit PROVE Chosen /\ \A p \in Panel \ {"risk"} : View(p)!Init
  OBVIOUS
<1>1. /\ TypeOK /\ IInv /\ results = << >> /\ Init
      /\ \A c \in Channel : queue[c] = << >> /\ fetch[c] = Nothing
  BY InitTypes, InitInv DEF SessionInit, Init, SessionTypeOK
<1>2. ASSUME NEW p \in Panel
      PROVE  /\ panel[p].shown = Nothing /\ panel[p].loading = FALSE
             /\ panel[p].failed = FALSE /\ panel[p].refused = FALSE
  <2> DEFINE chart == [symbol |-> Nothing, timeframe |-> "5d"]
             list  == [severity |-> "", page |-> 0]
  <2>1. /\ panel["focus"] = Unasked(chart) /\ panel["board"] = Unasked(list)
        /\ panel["detail"] = Unasked(Nothing) /\ panel["risk"] = Unasked(Nothing)
    BY <1>1 DEF Init
  <2>2. \A x : /\ Unasked(x).shown = Nothing /\ Unasked(x).loading = FALSE
               /\ Unasked(x).failed = FALSE /\ Unasked(x).refused = FALSE
    BY DEF Unasked
  <2> HIDE DEF chart, list
  <2> QED BY <2>1, <2>2, Panels
<1>3. ASSUME NEW p \in Panel \ {"risk"} PROVE View(p)!Init
  <2>1. ~ Outstanding(p)
    <3>1. queue[ChannelOf[p]] = << >> /\ fetch[ChannelOf[p]] = Nothing
      BY <1>1, Panels
    <3>2. \A i \in 1 .. Len(<< >>) : FALSE
      OBVIOUS
    <3> QED BY <1>1, <3>1, <3>2 DEF Outstanding
  <2>2. Underway(p) = {}
    BY <1>1, <2>1, ViewsAwait
  <2>3. panel[p].asked \in Subject[p]
    <3>1. panel[p] \in State(p)
      BY <1>1 DEF TypeOK
    <3> QED BY <3>1 DEF State
  <2> QED BY <1>2, <2>2, <2>3 DEF View!Init
<1> QED BY <1>2, <1>3, Panels DEF Chosen

\* The focus, board and detail views implement RequestView, for any symbols,
\* events, keys and channels of any size: a request is refused or joins those
\* under way, skipping one keeps the last, and only the answer to the last ends
\* the wait.
THEOREM ViewsImplemented == SessionSpec => ImplementsViews
<1>1. SessionSpec => [](TypeOK /\ IInv)
  <2>1. SessionTypeOK => TypeOK
    BY DEF SessionTypeOK
  <2> QED BY <2>1, Invariant, PTL
<1>2. SessionInit => /\ Chosen
                     /\ FocusView!Init /\ BoardView!Init /\ DetailView!Init
  BY InitViews, Panels DEF FocusView!Init, BoardView!Init, DetailView!Init, View!Init
<1>3. TypeOK /\ TypeOK' /\ IInv /\ Chosen /\ [SessionNext]_sessionVars => Chosen'
  BY NextChosen
<1>4. TypeOK /\ TypeOK' /\ IInv /\ IInv' /\ Chosen /\ [SessionNext]_sessionVars =>
        /\ [FocusView!Next]_(FocusView!vars)
        /\ [BoardView!Next]_(BoardView!vars)
        /\ [DetailView!Next]_(DetailView!vars)
  <2> SUFFICES ASSUME TypeOK, TypeOK', IInv, IInv', Chosen, [SessionNext]_sessionVars
               PROVE  /\ [FocusView!Next]_(FocusView!vars)
                      /\ [BoardView!Next]_(BoardView!vars)
                      /\ [DetailView!Next]_(DetailView!vars)
    OBVIOUS
  <2>1. Step("focus") /\ Step("board") /\ Step("detail")
    BY NextSteps, Panels
  <2>2. [FocusView!Next]_(FocusView!vars)
    BY <2>1 DEF Step, View!Next, View!vars, FocusView!Next, FocusView!vars,
      View!Choose, View!Ask, View!Skip, View!Answer, View!Kept,
      FocusView!Choose, FocusView!Ask, FocusView!Skip, FocusView!Answer, FocusView!Kept
  <2>3. [BoardView!Next]_(BoardView!vars)
    BY <2>1 DEF Step, View!Next, View!vars, BoardView!Next, BoardView!vars,
      View!Choose, View!Ask, View!Skip, View!Answer, View!Kept,
      BoardView!Choose, BoardView!Ask, BoardView!Skip, BoardView!Answer, BoardView!Kept
  <2>4. [DetailView!Next]_(DetailView!vars)
    BY <2>1 DEF Step, View!Next, View!vars, DetailView!Next, DetailView!vars,
      View!Choose, View!Ask, View!Skip, View!Answer, View!Kept,
      DetailView!Choose, DetailView!Ask, DetailView!Skip, DetailView!Answer, DetailView!Kept
  <2> QED BY <2>2, <2>3, <2>4
<1> QED BY <1>1, <1>2, <1>3, <1>4, PTL
        DEF SessionSpec, ImplementsViews, FocusView!Spec, BoardView!Spec, DetailView!Spec

\* Whatever keeps to RequestView keeps its promises: when the answers are in, a
\* view shows what was asked for last, an error or nothing yet, and is not
\* loading; until then the last request is under way, unless it was refused.
THEOREM RequestViewKeepsPromises ==
  ASSUME NEW p PROVE View(p)!Spec => [](View(p)!Settles /\ View(p)!Waits)
<1> DEFINE Promises == View(p)!Settles /\ View(p)!Waits
<1>1. View(p)!Init => Promises
  BY DEF View!Init, View!Settles, View!Waits
<1>2. Promises /\ [View(p)!Next]_(View(p)!vars) => Promises'
  <2> SUFFICES ASSUME Promises, [View(p)!Next]_(View(p)!vars) PROVE Promises'
    OBVIOUS
  <2>1. CASE View(p)!Choose
    BY <2>1 DEF View!Choose, View!Settles, View!Waits
  <2>2. ASSUME NEW x \in Subject[p], View(p)!Ask(x) PROVE Promises'
    BY <2>2 DEF View!Ask, View!Settles, View!Waits
  <2>3. CASE View(p)!Skip
    BY <2>3 DEF View!Skip, View!Kept, View!Settles, View!Waits
  <2>4. ASSUME NEW x \in Subject[p], View(p)!Answer(x) PROVE Promises'
    BY <2>4 DEF View!Answer, View!Kept, View!Settles, View!Waits
  <2>5. CASE UNCHANGED View(p)!vars
    BY <2>5 DEF View!vars, View!Settles, View!Waits
  <2> QED BY <2>1, <2>2, <2>3, <2>4, <2>5 DEF View!Next
<1> QED BY <1>1, <1>2, PTL DEF View!Spec

\* So the terminal's views keep them, in every state.
THEOREM ViewsKeepPromises ==
  SessionSpec => [](\A p \in Panel \ {"risk"} : View(p)!Settles /\ View(p)!Waits)
<1>1. TypeOK /\ IInv => \A p \in Panel \ {"risk"} : View(p)!Settles /\ View(p)!Waits
  <2> SUFFICES ASSUME TypeOK, IInv, NEW p \in Panel \ {"risk"}
               PROVE  View(p)!Settles /\ View(p)!Waits
    OBVIOUS
  <2>1. Awaits(p) /\ (Outstanding(p) <=> Underway(p) # {}) /\ Tracks(p) /\ Backed(p)
    BY ViewsAwait DEF IInv
  <2> QED BY <2>1 DEF Awaits, Tracks, Backed, View!Settles, View!Waits
<1>2. SessionTypeOK => TypeOK
  BY DEF SessionTypeOK
<1> QED BY <1>1, <1>2, Invariant, PTL
=============================================================================
