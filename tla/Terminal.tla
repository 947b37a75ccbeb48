------------------------------ MODULE Terminal ------------------------------
(***************************************************************************)
(* The views of rust/terminal-client that show fetched data, app.rs and    *)
(* main.rs: the keys ask for data through two bounded channels, a task per *)
(* channel fetches it from the gateway, and the results come back through  *)
(* one channel to the loop that also reads the keys and draws.             *)
(*                                                                         *)
(* A view is the digit of its key.  The signal table, its snapshots and    *)
(* the stream task are left out: the selected signal is any symbol.  So    *)
(* are quitting, overlays and the positions inside a view.  The session    *)
(* lock is in Session: a key here is one that the lock lets through.       *)
(***************************************************************************)
EXTENDS Integers, SequencesExt

CONSTANTS
  Symbol,         \* of the signal table
  Event,          \* news events a board may list
  Nothing,        \* an empty name, no data, no request
  LastPage,       \* the boards of the instance have pages 0 .. LastPage
  Digit,          \* the digit keys the user presses
  FocusCapacity,  \* of focus_tx (8), intel_tx (16)
  IntelCapacity,
  EventCapacity,  \* and of the channel of results (32)
  MaxKeys         \* bound on the keys pressed

ASSUME TerminalAssumption ==
  /\ Nothing \notin Symbol \cup Event
  /\ LastPage \in Nat
  /\ Digit \subseteq 1 .. 9
  /\ {FocusCapacity, IntelCapacity, EventCapacity} \subseteq Nat \ {0}
  /\ MaxKeys \in Nat

VARIABLES
  view,     \* the view on the screen
  panel,    \* what each view with fetched data asked for and shows
  linked,   \* history: the last risk request was made for the focus view
  queue,    \* the requests in focus_tx and intel_tx
  fetch,    \* the request each fetcher works on
  drained,  \* the focus fetcher has found its channel empty
  results,  \* the results on their way to the screen
  keys      \* the number of keys pressed so far

fetchVars == << queue, fetch, drained, results >>
vars      == << view, panel, linked, fetchVars, keys >>

Focus == 6
Board == 7
Detail == 8
Risk == 9

Timeframe == {"1d", "5d", "1mo"}
NextTimeframe == [t \in Timeframe |-> CASE t = "1d" -> "5d" [] t = "5d" -> "1mo" [] OTHER -> "1d"]

Severity == {"", "medium", "high", "critical"}
NextSeverity ==
  [s \in Severity |-> CASE s = "" -> "medium" [] s = "medium" -> "high"
                        [] s = "high" -> "critical" [] OTHER -> ""]

\* What a panel can be asked for; page 0 is the empty cursor.
Subject ==
  [focus  |-> [symbol : Symbol \cup {Nothing}, timeframe : Timeframe],
   board  |-> [severity : Severity, page : 0 .. LastPage],
   detail |-> Event \cup {Nothing},
   risk   |-> Symbol \cup {Nothing}]

Panel == DOMAIN Subject
Channel == {"focus", "intel"}
ChannelOf == [p \in Panel |-> IF p = "focus" THEN "focus" ELSE "intel"]
Capacity == [focus |-> FocusCapacity, intel |-> IntelCapacity]

\* A request of the focus view names a symbol.
Askable(p) == {x \in Subject[p] : p = "focus" => x.symbol # Nothing}

Request == UNION {[panel : {p}, subject : Askable(p)] : p \in Panel}

ASSUME NothingAssumption == Nothing \notin Request

Result == [request : Request, ok : BOOLEAN]

\* What a panel asked for last, what it shows, and how that goes.
State(p) ==
  [asked : Subject[p], shown : Subject[p] \cup {Nothing},
   loading : BOOLEAN, failed : BOOLEAN, refused : BOOLEAN]

TypeOK ==
  /\ view \in 1 .. 9
  /\ panel \in [Panel -> UNION {State(p) : p \in Panel}]
  /\ \A p \in Panel : panel[p] \in State(p)
  /\ linked \in BOOLEAN
  /\ queue \in [Channel -> Seq(Request)]
  /\ \A c \in Channel : Len(queue[c]) <= Capacity[c]
  /\ fetch \in [Channel -> Request \cup {Nothing}]
  /\ drained \in BOOLEAN
  /\ results \in Seq(Result)
  /\ Len(results) <= EventCapacity
  /\ keys \in 0 .. MaxKeys

Unasked(subject) ==
  [asked |-> subject, shown |-> Nothing, loading |-> FALSE, failed |-> FALSE, refused |-> FALSE]

Init ==
  /\ view = 1
  /\ panel = [focus  |-> Unasked([symbol |-> Nothing, timeframe |-> "5d"]),
              board  |-> Unasked([severity |-> "", page |-> 0]),
              detail |-> Unasked(Nothing),
              risk   |-> Unasked(Nothing)]
  /\ linked = FALSE
  /\ queue = [c \in Channel |-> << >>]
  /\ fetch = [c \in Channel |-> Nothing]
  /\ drained = FALSE
  /\ results = << >>
  /\ keys = 0
-----------------------------------------------------------------------------
(* Asking: try_send, whose error is ignored.                                *)

HasRoom(p) == Len(queue[ChannelOf[p]]) < Capacity[ChannelOf[p]]

Loading(p, subject) ==
  [panel[p] EXCEPT !.asked = subject, !.loading = TRUE, !.failed = FALSE,
                   !.refused = ~HasRoom(p)]

TrySend(p, subject) ==
  LET request == [panel |-> p, subject |-> subject]
  IN IF HasRoom(p) THEN Append(queue[ChannelOf[p]], request) ELSE queue[ChannelOf[p]]

\* request_intel_board, request_event_detail, request_ml_risk_for_symbol
Ask(p, subject) ==
  /\ panel' = [panel EXCEPT ![p] = Loading(p, subject)]
  /\ queue' = [queue EXCEPT !.intel = TrySend(p, subject)]
  /\ linked' = (linked /\ p # "risk")

\* request_portfolio_risk
AskRisk == \E s \in Symbol : Ask("risk", s)

\* The risk of the symbol in the focus view.
AskLinkedRisk(focusState, s) ==
  /\ panel' = [panel EXCEPT !.focus = focusState, !.risk = Loading("risk", s)]
  /\ queue' = [queue EXCEPT !.intel = TrySend("risk", s)]
  /\ linked' = TRUE

\* The focus view asks for its chart and that risk.
AskFocus(focusState, s, t) ==
  /\ panel' = [panel EXCEPT !.focus = focusState, !.risk = Loading("risk", s)]
  /\ queue' = [focus |-> TrySend("focus", [symbol |-> s, timeframe |-> t]),
               intel |-> TrySend("risk", s)]
  /\ linked' = TRUE

AskNothing == UNCHANGED << panel, queue, linked >>
-----------------------------------------------------------------------------
(* handle_key *)

Press ==
  /\ keys < MaxKeys
  /\ keys' = keys + 1
  /\ UNCHANGED << fetch, drained, results >>

\* 1 .. 9, and i and p, which are 7 and 9.
OpenView(d) ==
  /\ Press
  /\ view' = d
  /\ CASE d = Board -> Ask("board", panel.board.asked)
       [] d = Risk -> AskRisk
       [] OTHER -> AskNothing

\* Tab and BackTab, Right and Left.
Cycle ==
  /\ Press
  /\ view' \in {(view % 9) + 1, ((view + 7) % 9) + 1}
  /\ IF view' = Risk THEN AskRisk ELSE AskNothing

\* f in any view; [ and ] in the focus view.
FocusOn(s) ==
  /\ Press
  /\ view' = Focus
  /\ LET t == panel.focus.asked.timeframe
     IN AskFocus(Loading("focus", [symbol |-> s, timeframe |-> t]), s, t)

\* t in the focus view leaves an error of the last fetch where it is.
CycleTimeframe ==
  /\ view = Focus
  /\ Press
  /\ LET s == panel.focus.asked.symbol
         t == NextTimeframe[panel.focus.asked.timeframe]
     IN IF s = Nothing
        THEN /\ panel' = [panel EXCEPT !.focus.asked.timeframe = t]
             /\ UNCHANGED << queue, linked >>
        ELSE AskFocus([Loading("focus", [symbol |-> s, timeframe |-> t])
                         EXCEPT !.failed = panel.focus.failed], s, t)
  /\ UNCHANGED view

\* r; in the other views it goes to the stream task.
Refresh ==
  /\ Press
  /\ \/ view = Detail /\ panel.detail.asked # Nothing /\ Ask("detail", panel.detail.asked)
     \/ view = Board /\ Ask("board", panel.board.asked)
     \/ view = Risk /\ AskRisk
     \/ /\ view = Focus /\ panel.focus.asked.symbol # Nothing
        /\ AskLinkedRisk(panel.focus, panel.focus.asked.symbol)
  /\ UNCHANGED view

\* Enter or e on an event of the board.
OpenEvent(e) ==
  /\ view = Board
  /\ panel.board.shown # Nothing
  /\ Press
  /\ view' = Detail
  /\ Ask("detail", e)

\* v, b and x, n: a filter, the first page, the next page the board knows of.
ChangeBoard ==
  /\ view = Board
  /\ Press
  /\ \/ Ask("board", [severity |-> NextSeverity[panel.board.asked.severity], page |-> 0])
     \/ Ask("board", [panel.board.asked EXCEPT !.page = 0])
     \/ Ask("board", panel.board.asked)
     \/ /\ panel.board.shown # Nothing
        /\ panel.board.shown.page < LastPage
        /\ Ask("board", [panel.board.asked EXCEPT !.page = panel.board.shown.page + 1])
  /\ UNCHANGED view

\* Up and Down in the risk view select another signal.
SelectRisk ==
  /\ view = Risk
  /\ Press
  /\ AskRisk
  /\ UNCHANGED view

Key ==
  \/ \E d \in Digit : OpenView(d)
  \/ Cycle
  \/ \E s \in Symbol : FocusOn(s)
  \/ CycleTimeframe \/ Refresh \/ ChangeBoard \/ SelectRisk
  \/ \E e \in Event : OpenEvent(e)
-----------------------------------------------------------------------------
(* run_focus_fetcher and run_intel_fetcher *)

Receive(c) ==
  /\ fetch[c] = Nothing
  /\ queue[c] # << >>
  /\ fetch' = [fetch EXCEPT ![c] = Head(queue[c])]
  /\ queue' = [queue EXCEPT ![c] = Tail(@)]
  /\ UNCHANGED << view, panel, linked, drained, results, keys >>

\* Variant: the requests behind the first are dropped instead.
DrainKeepsFirst ==
  /\ fetch["focus"] # Nothing
  /\ ~drained
  /\ drained' = TRUE
  /\ queue' = [queue EXCEPT !.focus = << >>]
  /\ UNCHANGED << view, panel, linked, fetch, results, keys >>

\* The focus fetcher empties its channel and keeps only the latest request.
Drain ==
  /\ fetch["focus"] # Nothing
  /\ ~drained
  /\ drained' = TRUE
  /\ fetch' = [fetch EXCEPT !.focus = Last(<<@>> \o queue.focus)]
  /\ queue' = [queue EXCEPT !.focus = << >>]
  /\ UNCHANGED << view, panel, linked, results, keys >>

\* Variant: a failure is logged, not reported.
AnswerOrForget(c) ==
  /\ fetch[c] # Nothing
  /\ c = "focus" => drained
  /\ Len(results) < EventCapacity
  /\ \/ results' = Append(results, [request |-> fetch[c], ok |-> TRUE])
     \/ UNCHANGED results
  /\ fetch' = [fetch EXCEPT ![c] = Nothing]
  /\ drained' = (drained /\ c # "focus")
  /\ UNCHANGED << view, panel, linked, queue, keys >>

\* The result goes to the event loop; the send waits for room.
Deliver(c, ok) ==
  /\ Len(results) < EventCapacity
  /\ results' = Append(results, [request |-> fetch[c], ok |-> ok])
  /\ fetch' = [fetch EXCEPT ![c] = Nothing]
  /\ drained' = (drained /\ c # "focus")
  /\ UNCHANGED << view, panel, linked, queue, keys >>

Fetching(c, panels) == fetch[c] # Nothing /\ fetch[c].panel \in panels

\* A request is answered for what it asked, or it or the connection for it
\* fails: fetch_focus_bundle ...
AnswerFocus ==
  /\ Fetching("focus", {"focus"}) /\ drained
  /\ \E ok \in BOOLEAN : Deliver("focus", ok)

\* ... fetch_news_intel_board, fetch_event_intel ...
AnswerIntel ==
  /\ Fetching("intel", {"board", "detail"})
  /\ \E ok \in BOOLEAN : Deliver("intel", ok)

\* ... and fetch_ml_decision_support, then fetch_ml_calibration_status.
AnswerRisk ==
  /\ Fetching("intel", {"risk"})
  /\ \E decision, calibration \in BOOLEAN : Deliver("intel", decision /\ calibration)

Answer(c) == \/ c = "focus" /\ AnswerFocus
             \/ c = "intel" /\ (AnswerIntel \/ AnswerRisk)
-----------------------------------------------------------------------------
(* The results in the event loop. *)

Shown(p, subject) ==
  [panel[p] EXCEPT !.shown = subject, !.loading = FALSE, !.failed = FALSE]

\* apply_focus_bundle asks for the risk of the symbol that was fetched.
ApplyFocus(subject) == AskLinkedRisk(Shown("focus", subject), subject.symbol)

\* Variant: the numbers arrive, the name stays.
ApplyRiskUnnamed(subject) ==
  /\ panel' = [panel EXCEPT !.risk = Shown("risk", subject)]
  /\ UNCHANGED << queue, linked >>

\* apply_ml_risk replaces the symbol of the panel together with its data.
ApplyRisk(subject) ==
  /\ panel' = [panel EXCEPT !.risk = [Shown("risk", subject) EXCEPT !.asked = subject]]
  /\ UNCHANGED << queue, linked >>

\* apply_intel_board and apply_event_detail
ApplyIntel(p, subject) ==
  /\ panel' = [panel EXCEPT ![p] = Shown(p, subject)]
  /\ UNCHANGED << queue, linked >>

\* Variants: the error is shown, the view goes on loading; the reverse.
ApplyFailureLoading(p) ==
  /\ panel' = [panel EXCEPT ![p].failed = TRUE]
  /\ UNCHANGED << queue, linked >>

ApplyFailureSilent(p) ==
  /\ panel' = [panel EXCEPT ![p].loading = FALSE]
  /\ UNCHANGED << queue, linked >>

\* FocusFailed and the three mark_*_failed: the failure names no subject.
ApplyFailure(p) ==
  /\ panel' = [panel EXCEPT ![p].loading = FALSE, ![p].failed = TRUE]
  /\ UNCHANGED << queue, linked >>

Apply ==
  /\ results # << >>
  /\ results' = Tail(results)
  /\ LET p == Head(results).request.panel
         subject == Head(results).request.subject
         ok == Head(results).ok
     IN \/ ~ok /\ ApplyFailure(p)
        \/ ok /\ p = "focus" /\ ApplyFocus(subject)
        \/ ok /\ p = "risk" /\ ApplyRisk(subject)
        \/ ok /\ p \in {"board", "detail"} /\ ApplyIntel(p, subject)
  /\ UNCHANGED << view, fetch, drained, keys >>
-----------------------------------------------------------------------------
FetcherStep ==
  \/ \E c \in Channel : Receive(c) \/ Answer(c)
  \/ Drain

Next == Key \/ FetcherStep \/ Apply

Spec == Init /\ [][Next]_vars

\* Requests have a deadline of 12 s and connections one of 5 s (client.rs);
\* senders waiting for room are served in FIFO order; select! chooses fairly
\* between the frames, which do not block, and the results.
Fairness ==
  /\ \A c \in Channel : WF_vars(Receive(c)) /\ SF_vars(Answer(c))
  /\ WF_vars(Drain)
  /\ WF_vars(Apply)

FairSpec == Spec /\ Fairness
-----------------------------------------------------------------------------
\* A request for p, or its result, is under way.
Outstanding(p) ==
  \/ \E i \in 1 .. Len(queue[ChannelOf[p]]) : queue[ChannelOf[p]][i].panel = p
  \/ fetch[ChannelOf[p]] # Nothing /\ fetch[ChannelOf[p]].panel = p
  \/ \E i \in 1 .. Len(results) : results[i].request.panel = p

Quiet == \A p \in Panel : ~Outstanding(p)

\* A view says "loading" only while an answer is on its way, or when the last
\* request for it did not fit into its channel (try_send in app.rs).
LoadingIsBacked ==
  \A p \in Panel : panel[p].loading => Outstanding(p) \/ panel[p].refused

\* When the answers have come in, a view shows what was asked for last, through
\* stale answers, failed fetches and the requests the focus fetcher skipped
\* (run_focus_fetcher, run_intel_fetcher, App::apply_*).
LatestIsShown ==
  \A p \in Panel :
     LET v == panel[p]
     IN (v.shown # Nothing /\ ~Outstanding(p) /\ ~v.failed /\ ~v.refused) => v.shown = v.asked

\* The risk panel never puts the numbers of one symbol under the name of
\* another, also while older answers come in after the symbol has changed.
RiskNamesItsSymbol ==
  LET r == panel.risk IN (~r.loading /\ ~r.failed) => r.shown = r.asked

\* The strip of the focus view ends up with the symbol in focus, although the
\* two are fetched by different tasks and each bundle asks for a risk of its own.
StripFollowsFocus ==
  (/\ Quiet /\ linked
   /\ \A p \in {"focus", "risk"} : ~panel[p].failed /\ ~panel[p].refused)
  => panel.risk.asked = panel.focus.asked.symbol

\* Every view that loads comes to an end of it, unless its request was refused.
LoadingEnds ==
  \A p \in Panel : panel[p].loading ~> (~panel[p].loading \/ panel[p].refused)
-----------------------------------------------------------------------------
\* What the requests for p under way are for.
Underway(p) ==
  LET requests == (UNION {ToSet(queue[c]) : c \in Channel})
                  \cup {fetch[c] : c \in {d \in Channel : fetch[d] # Nothing}}
                  \cup {results[i].request : i \in 1 .. Len(results)}
  IN  {r.subject : r \in {x \in requests : x.panel = p}}

\* The views as RequestView sees them.
FocusView == INSTANCE RequestView WITH
  Subject <- Subject.focus, asked <- panel.focus.asked, shown <- panel.focus.shown,
  loading <- panel.focus.loading, failed <- panel.focus.failed,
  refused <- panel.focus.refused, underway <- Underway("focus")

BoardView == INSTANCE RequestView WITH
  Subject <- Subject.board, asked <- panel.board.asked, shown <- panel.board.shown,
  loading <- panel.board.loading, failed <- panel.board.failed,
  refused <- panel.board.refused, underway <- Underway("board")

DetailView == INSTANCE RequestView WITH
  Subject <- Subject.detail, asked <- panel.detail.asked, shown <- panel.detail.shown,
  loading <- panel.detail.loading, failed <- panel.detail.failed,
  refused <- panel.detail.refused, underway <- Underway("detail")

\* The focus, board and detail views keep the promises of RequestView: what was
\* asked for last stays under way until its answer is the last to come in, over
\* channels that refuse requests and a fetcher that skips them (App::handle_key,
\* App::apply_*, run_focus_fetcher, run_intel_fetcher).  The risk view takes the
\* name of each answer it shows.
ImplementsViews == FocusView!Spec /\ BoardView!Spec /\ DetailView!Spec

=============================================================================
