----------------------------- MODULE NewsEvents -----------------------------
(***************************************************************************)
(* The news events of the backend (src/quant_platform/news_intel.py): they *)
(* are not stored, but fetched, grouped and sorted again for every         *)
(* request, and a page is a slice of that list at an offset.  A reader     *)
(* pages through them as the intel board of the terminal does.             *)
(*                                                                         *)
(* An event has the severity of its latest article, 0 while the sources do *)
(* not give it (not published yet, out of the window, or its source does   *)
(* not answer).  Its contradiction, novelty and confidence, by which events *)
(* of one severity are sorted in this order, are one score: a higher score *)
(* stands for a triple that is sorted first.  Events are numbered in the   *)
(* order of their latest articles, the order _group_events finds them in.  *)
(***************************************************************************)
EXTENDS Naturals, Sequences, FiniteSets, SequencesExt

CONSTANTS
  Events,      \* number of news events
  Severities,  \* severities from low to critical: 4
  Scores,      \* scores that are told apart
  PageSize,    \* events on a page of the reader
  MaxChanges   \* bound: changes of the news

ASSUME NewsAssumption ==
  /\ {Events, Severities, Scores, PageSize} \subseteq Nat \ {0}
  /\ MaxChanges \in Nat

VARIABLES
  severity,  \* of every event, 0 if it is not listed
  score,     \* of every event, among those of its severity; 1 if it is not listed
  changes,   \* how often the news changed
  offset,    \* the reader's cursor; Done when there was no next page
  read,      \* events of the pages it has read, in order
  history    \* what happened to the list since the reader began

newsVars   == << severity, score, changes >>
readerVars == << offset, read, history >>
boardVars  == << newsVars, readerVars >>

Event == 1 .. Events

Done == Events + PageSize

Listed == {e \in Event : severity[e] # 0}

\* The key of the sort, descending; it is stable, and the articles come newest
\* first.
Before(d, e) == \/ severity[d] > severity[e]
                \/ severity[d] = severity[e] /\ score[d] > score[e]
                \/ severity[d] = severity[e] /\ score[d] = score[e] /\ d > e

\* _all_events: what is listed, sorted.
AllEvents ==
  CHOOSE list \in [1 .. Cardinality(Listed) -> Listed] :
    \A i, j \in 1 .. Cardinality(Listed) : i < j => Before(list[i], list[j])

\* The slice of list_events, and whether a next cursor comes with it.
HasNext(from, limit) == from + limit < Cardinality(Listed)

Page(from, limit) ==
  SubSeq(AllEvents, from + 1,
         IF HasNext(from, limit) THEN from + limit ELSE Cardinality(Listed))

\* Nothing came, went or changed its rank; all that is listed has stayed.
Quiet == [came |-> FALSE, went |-> FALSE, moved |-> FALSE, stayed |-> Listed]

NewsTypeOK ==
  /\ severity \in [Event -> 0 .. Severities]
  /\ score \in [Event -> 1 .. Scores]
  /\ changes \in 0 .. MaxChanges
  /\ offset \in 0 .. Done
  /\ read \in Seq(Event)
  /\ history \in [came : BOOLEAN, went : BOOLEAN, moved : BOOLEAN, stayed : SUBSET Event]

NewsInit ==
  /\ severity \in [Event -> 0 .. Severities]
  /\ score \in [Event -> 1 .. Scores]
  /\ \A e \in Event : severity[e] = 0 => score[e] = 1
  /\ changes = 0
  /\ offset = 0 /\ read = << >> /\ history = Quiet

\* An event is published, leaves the list, or gets another severity or score:
\* by an article that joins it or is gone, or by its age alone, whose novelty
\* is rounded and ends at 0.
NewsChange ==
  \E e \in Event, new \in 0 .. Severities, place \in 1 .. Scores :
     /\ changes < MaxChanges
     /\ << new, place >> # << severity[e], score[e] >>
     /\ new = 0 => place = 1
     /\ severity' = [severity EXCEPT ![e] = new]
     /\ score' = [score EXCEPT ![e] = place]
     /\ changes' = changes + 1
     /\ history' = [came   |-> history.came  \/ severity[e] = 0,
                    went   |-> history.went  \/ new = 0,
                    moved  |-> history.moved \/ (severity[e] # 0 /\ new # 0),
                    stayed |-> IF new = 0 THEN history.stayed \ {e} ELSE history.stayed]
     /\ UNCHANGED << offset, read >>

\* The reader asks for the first page: the board is opened or refreshed.
OpenBoard ==
  /\ read' = Page(0, PageSize)
  /\ offset' = IF HasNext(0, PageSize) THEN PageSize ELSE Done
  /\ history' = Quiet
  /\ UNCHANGED newsVars

\* Variant: the cursor is one short.
NextPageOverlapping ==
  /\ offset \notin {0, Done}
  /\ read' = read \o Page(offset - 1, PageSize)
  /\ offset' = IF HasNext(offset, PageSize) THEN offset + PageSize ELSE Done
  /\ UNCHANGED << newsVars, history >>

\* n: the page at the cursor of the last one.
NextPage ==
  /\ offset \notin {0, Done}
  /\ read' = read \o Page(offset, PageSize)
  /\ offset' = IF HasNext(offset, PageSize) THEN offset + PageSize ELSE Done
  /\ UNCHANGED << newsVars, history >>

ReaderStep == OpenBoard \/ NextPage
-----------------------------------------------------------------------------
\* How many events stand before e on the list.
Rank(e) == Cardinality({d \in Listed : Before(d, e)})

\* Paging repeats no event, unless one was published or changed its severity
\* or score after the first page (offsets then point too far to the front); and
\* paging to the end misses no event that was there all the time, unless one
\* left the list or changed its severity or score (offsets then point too far
\* to the end).
PagingIsExact ==
  /\ (~ history.came /\ ~ history.moved) => IsInjective(read)
  /\ (offset = Done /\ ~ history.went /\ ~ history.moved) => history.stayed \subseteq ToSet(read)
=============================================================================
