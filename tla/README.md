# Formal models of Terminal_Stock_Predict

TLA+ models of the quantitative prediction platform: two audit stores, a kill switch, the prediction
service with its calibration monitor, the gRPC gateway in front of it with its two streams, and the terminal client with its fetching
views, its signal feed and its session lock. TLC checks them on small instances, TLAPS proves the most important results
for every value of the constants.

Paths below are relative to the repository (`src/` in PROJECT.json).

## The system

| process | code | state it keeps |
|---|---|---|
| Python platform service (`ThreadingHTTPServer`, one thread per request) | `src/quant_platform/` | SQLite audit table, NDJSON stream, checkpoint file; in memory: kill-switch level, last known good prediction, audit buffer, credential slots, calibration window, champion/challenger |
| Rust gateway (tonic, one task per request) | `rust/vps1-serving/src/` | Postgres audit table, S3 manifests and checkpoints; in memory: last hash and buffer of the audit writer |
| Terminal client (ratatui, one UI loop and four tasks) | `rust/terminal-client/src/` | view state, bounded channels, SQLite cache of the last snapshot and history |

A prediction goes terminal -> gateway `Predict` -> HTTP `POST /v1/predict` -> `PlatformService.predict`,
which looks at the kill switch, creates a checkpoint, computes, remembers and audits; the gateway then writes
an audit event of its own and answers. An operator's `SetKillSwitch` takes the same way.

### Inventory

**Rust audit writer** (`audit.rs`). State: `AuditState {last_hash, buffered, last_flush_unix}` behind one tokio
mutex; table `audit_events`; manifest objects, `checkpoints/latest.json`, dated checkpoints. Operations:
`new` (reloads the last hash), `write_event` (hash, INSERT, remember, perhaps flush), `flush_buffer_locked` (three
puts, then clear), `status` (walks the chain). Hard: every `.await` can fail, be dropped with the handler or be
the last thing the process does. Correct when: the chain verifies; what was acknowledged is stored; a
checkpoint never names what is not archived; checkpoints only move forward; nothing is dropped from the buffer unarchived;
no error path keeps the mutex.

**Python audit store** (`audit.py`). State: SQLite connection shared by all threads (`check_same_thread=False`),
`_last_event_hash`, `_buffer`, NDJSON file, checkpoint file. Operations: `append`, `flush_object_store`,
`create_checkpoint`, `verify_chain`, `ops_summary`. Hard: no lock at all; one transaction shared by
the threads, which a failing statement of any of them may roll back; a checkpoint file that is emptied before it is filled; restarts. Correct when: as above, and the NDJSON stream receives every
row once (dual write).

**Kill switch** (`kill_switch.py`). State: level, reason, time. Operations: `activate_soft`, `activate_hard`,
`clear_soft`, `deactivate_hard` (two distinct approvers). Correct when: a hard kill ends with two persons only.

**Prediction and kill-switch service** (`service.py`). State: last known good prediction, and the components above.
Operations: `predict`, `set_kill_switch`, the calibration update and status, decision support, and read-only or delegating ones
(`ops_status`, `ops_audit`, news, market, credentials, canary). Hard: the level is read twice, for the decision and for `kill_switch_active` of the answer, while operators change it; remember before
audit; an audit that raises after the effect; the samples change while they are read. Correct when: each prediction is explained by a level in
effect while it ran; nothing is answered unaudited; the audit tells the level in effect; a calibration pairs each probability with its own label.

**Gateway handlers** (`gateway.rs`, `backend.rs`). Stateless but for the audit writer. Nine unary handlers forward to the
backend; seven of them (not the focus bundle, not the status) write an audit event before they answer. Hard: a client deadline drops the
handler at any await; the backend acts although nobody waits; the audit may be switched off (`RUST_AUDIT_ENABLED`, which defaults to false). Correct when: an Ok was served and is audited on both sides; no event without a served
request; SetKillSwitch fails closed (`docs/rust-rewrite.md`).

**Gateway streams** (`gateway.rs`). `SubscribeSignals` and `SubscribeEventAlerts` spawn a task per subscription behind a bounded channel of
8 and 32. Hard: the gateway learns late or never that a subscriber has left, and its task only from its next send after that; a request to the backend has no time limit; the level is read before the predictions; an event is marked as
seen around a send that waits. Correct when: an orphaned task ends; an event is alerted once and arrives.

**Gateway start-up** (`main.rs`, `config.rs`, `mtls.rs`). Reads environment and certificates, serves. No behaviour after that.

**Credentials** (`credentials.py`). Two slots per provider, `rotate`, `status`. Hard: the overlap window.
**Canary gate** (`canary.py`). A pure decision over samples.
**Decision support** (`ml_decision_support.py`). Calibration deque shared by threads, walk-forward folds, champion/challenger.
**News intelligence** (`news_intel.py`). No state: the list is fetched, grouped and sorted again for each request; a page is a slice at an
offset. Correct when: paging repeats and misses nothing while the list stays.
**News feed, market data** (`news_feed.py`, `market_data.py`). Stateless fetches.
**HTTP routing, alerts, configuration** (`main.py`, `alerts.py`, `config.py`, `models.py`). Mapping of paths and exceptions.
**Terminal client** (`app.rs`, `main.rs`, `client.rs`, `ui.rs`). Key handling, session lock, loading flags, signal
stream with a polling fallback, two fetch tasks behind channels of 8 and 16 requests, one channel of 32 results, SQLite cache. Hard: `try_send` into a full
channel, results of earlier requests, reconnects, a cache that fails. Correct when: a loading flag always falls; a result belongs to the view; the table of
signals survives a restart and never goes back in time; the banner tells the truth; the feed recovers by itself; a session left alone locks and a key resumes it.
**Control panel and deployment scripts** (`scripts/`, `deploy/`). Start and stop by pid file.

PROJECT.json lists each hazard of this code at its line, with the properties that cover it.

## Modules

| module | models | kind |
|---|---|---|
| `HashChain` | rows, hashes, chain walk shared by both stores | operators |
| `AuditLog` | an append-only log and a seal that moves forward or is lost while it is replaced | abstract specification |
| `RequestView` | what a view with fetched data promises: requests may be refused, skipped, overtaken and fail, but the last one stays under way until its answer is the last to come in | abstract specification |
| `AuditWriter` | `PostgresS3AuditWriter` | component, refines `AuditLog` |
| `AuditStore` | `AuditStore` | component, refines `AuditLog` |
| `KillSwitch` | `KillSwitch` | operators and the level |
| `Calibration` | `_CalibrationMonitor` | component without control of its own |
| `PlatformService` | `predict`, `set_kill_switch`, calibration and decision-support calls under request threads; extends `KillSwitch`, `Calibration` | composition |
| `Gateway` | the nine unary handlers; extends `KillSwitch`, instantiates `AuditWriter` | composition |
| `SignalFeed` | streaming task, its channel, `run_signal_stream`, the channel to `App`, screen and cache; instantiates `KillSwitch` | composition |
| `NewsEvents` | the list of news events and a reader that pages through it | component |
| `EventAlerts` | the tasks of `subscribe_event_alerts`, one per subscription; extends `NewsEvents` | composition |
| `Terminal` | keys, fetchers and results of the four views with fetched data | component; three of its views refine `RequestView` |
| `Session` | frames and the session lock around `Terminal` | composition |
| `HashChainProofs` | facts about chains used by both audit proofs | lemmas |
| `AuditWriterProofs`, `AuditStoreProofs`, `PlatformServiceProofs`, `GatewayProofs`, `SignalFeedProofs`, `EventAlertsProofs`, `TerminalProofs` | theorems | proofs |
| `MC*` | symmetry sets and key sets for TLC; the `.cfg` files give the constants | instances |

Operators marked *Variant* state a plausible mistake in the operator below them; they are part of no specification. Each property was checked to fail when
one such variant takes the place of the real operator.

### How state and actions correspond to the code

*Hashes.* SHA-256 is taken as collision free: the hash of a row is the sequence of contents it commits to, from
GENESIS. Signatures always match their hash and are left out. Payloads are opaque, so the round trip of a payload
through JSONB is not covered.

*AuditWriter.* A task is a gRPC handler. `Call` .. `LeaveQueue` .. `Lock` wait for the mutex; `InsertCommits` and
`InsertFails` are the INSERT; between COMMIT and reply the task is at "inserted", where `ReplyLost` stands for an error reply
or a handler dropped by its client's deadline. From the first such loss on the table holds a row the memory does not know; the history
variable `replyLost` remembers it, and the promises about the chain hold until then. `ReplyNotDue`/`ReplyDue` leave open whether the flush interval
has elapsed (`last_flush_unix` is abstracted to this choice). `PutManifest`, `PutLatest`, `PutDated` are the three puts, `Clear` the
end of the flush; `FlushFails` is a failing or dropped put in any of these places, whether S3 stored the object (then the put
action came first) or not. `CrashRestart` empties memory and runs `new`. A request that is under way when the process dies
is decided before the restarted process reads the table.

*AuditStore.* A thread executes one statement that touches shared state per step, because a switch can come between any
two. `rows` is the table as the connection sees it and `committed` the durable part (`Durable`); what lies between is the open transaction, shared by all threads. `CommitRaises` leaves the row in the open
transaction (the database is locked) or rolls the transaction back (disk full, I/O error), as a failing INSERT may too. `RollBack` takes the rows of other threads along; their `commit()` then
finds no transaction and says nothing (`Commit`), and their `append` goes on. The history variable `undone` collects these rows. `CallOpsAudit` is `ops_audit` (flush, then checkpoint). `FlushDue` and `FlushBuild` are the test of the buffer and its iteration:
in between another flush may empty it, and `lines[0]` raises (`BuildRaises`). `OpenCheckpoint` and `FillCheckpoint` are the two halves of `write_text`; `OpenRaises` and `FillRaises` leave the old file, an empty or a garbled one. A line
of the NDJSON stream is written as a whole or not at all; one that was written in part is not modelled. `disturbed` is a history variable: two calls were under way at once, or a COMMIT
left its row in the open transaction. Chain, archive order, dual write and refinement hold until then; that rows are rooted, durability of acknowledged events and archive-after-commit hold always, with `undone` as their exception.

*AuditLog.* `log` is the events, `seal` the prefix the checkpoint commits to, as a set: empty while there is none. `Seal` moves it forward, and to the whole log when it was lost (`Tear`). The Rust writer never tears it: an S3 object is replaced as a whole.

*PlatformService.* `level`, `lastKnownGood`, `pairs` are the shared attributes; predictions are not told apart, a sample is its number. Each
thread reads the level (`Block`, `LookUp`, `Pass`), under SOFT looks for a prediction to replay (`Replay`, `ReplayNothing`), computes and reads the level again for `kill_switch_active` (`Compute`, `flag`), reads the calibration, remembers, audits, answers; operators assign the
level (`Switch`), read the state back (`ReadBack`), audit, answer, any number of them at once. `AuditRaises` is an `append` that stored nothing or one that stored its event and failed in the flush. `status()` of the monitor takes two walks over the deque (`BeginProbs` .. `EndProbs`,
`BeginLabels` .. `EndLabels`): a walk that began before an append raises (`StatusRaises`), an append between the walks does not. `window` and `hadGood` are history
variables: the levels in effect since the prediction was asked for. So are `forgotten` (a restart dropped the level in effect, and no operator has set one since) and `astray` (the latest change crossed another, its event was not stored, or
the process was restarted since). Wrong role, MFA token, signature or unknown action are the refusing branch of `BeginKill`.

*Gateway.* `stage` is where a handler is, `server` what the backend makes of the request. The backend's three actions
do not look at whether a handler still waits. The actions of `AuditWriter` are taken over through the instance `W`, conjoined
with the handler's own step, so the gateway is a restriction of the writer's behaviour. Handlers with the same control share an action (`Forward`,
`ForwardIntel`, `ForwardMl`, `AnswerFocus`, `AnswerOps`). `enabled` is chosen at the start: a gateway without an audit (`NoopAuditWriter`, the default) answers what it would have
recorded (`RecordAudit`). The backend is one atomic step here; its inner interleavings are `PlatformService`.

*SignalFeed.* `task` is the gateway's task of a subscription, `draft` the snapshot it builds: captured_at and level first (`ReadStatus`), then the predictions, which a
hard kill refuses (`Predict`, `BuildFails`), then the audit (`Audit`), then a send that waits for room or fails because the receiver is gone (`Send`). A failed build sends its error, which waits for room as well (`SendError`); a request without an
answer holds the task for ever (`TaskHangs`). `open` says that the receiver still exists. The client's departure does not change it: the gateway's transport goes on taking what is sent (`SendToNobody`) until it notices (`Notice`), which nothing
guarantees, because the server sets no keepalive. `pc` is `run_signal_stream`:
connect, subscribe (the task may have been spawned when the reply is lost, `SubscribeFails`), read the stream, fall back to polling when the subscription fails, back off (`EndWait`). A snapshot that does not decode is reported and the stream goes on
(`DecodeFails`). `events` is the channel to `App`; `Nothing` in it stands for Degraded.
`ApplySnapshot` saves before it shows; `ApplyUnsaved` is a failing INSERT, or a DELETE that fails after it; `Restart` is `App::new` with what the cache holds. A snapshot is known by
the time it was begun and the level read then; the model has one clock, where the code stamps streamed snapshots with the gateway's and polled ones with the client's, so `NeverBackwards` speaks of the order of events and not of the
stamps of two clocks that differ. `connected` is what the code knows, that the client object exists: a half-open connection counts as one until it breaks. `orphaned` is a history variable: what a task audited after its receiver had gone.

*NewsEvents.* `severity` says which events the sources give now, and how severe they are; `score` stands for what sorts events of one severity (contradiction, novelty, confidence, in this order). `AllEvents` is the list sorted by both and then by
publication, `Page` the slice of `list_events`. `NewsChange` is anything the sources may do: publish an event, drop one, or change the rank of one by an article that joins it or by its age.
`history` remembers what happened since the reader opened the board. *EventAlerts.* Every tick a task fetches the first `AlertLimit` events, skips what does not match (`Matches`: severity, and by `Kept` confidence and contradiction) or was
seen, sends the rest (`Send` waits for room), and sleeps; a failed fetch is sent as the stream's last message.

*Terminal.* `panel` holds, per view with fetched data, what it was asked for, what it shows, its `loading` flag and
`error`; `asked` of the board is `intel_filters` (severity and cursor, a page number), of the risk view its symbol. Each action of `Key` is a group of
keys with the same effect; keys that change nothing fetched (overlays, positions, quitting) have no action. `Ask` is the `try_send`
whose error the code ignores: `refused` and `linked` (the last risk request came from the focus view) are history
variables. `Receive`, `Drain`, `Answer` are the two tasks of `main.rs`; `Apply` is one result in the event loop. The selected signal is any symbol,
which covers every snapshot of the table; the server answers for the subject it was asked about. `FocusView`, `BoardView` and `DetailView` are the views as `RequestView` sees them: the state of
the panel, and as `underway` the subjects of its requests in the channel, at the fetcher and among the results (`Underway`), whose order the abstraction forgets.

*Session.* A frame handles keys (`Type`, or `Unlock` when locked), ends with `check_idle_timeout` (`EndFrame`) and draws; results are applied between frames.
`idle` stands for IDLE_TIMEOUT_SECS without a key; `Unlock` leaves it alone, because `handle_key` returns before it sets `last_input_at`.

## Runs

All bounds are constants: `MaxRows` (no call starts when the table holds so many rows), `MaxUndone` (rows of other calls that are rolled back), `MaxSamples`, `MaxOperators`, `MaxOutcomes`, `MaxKeys`, `MaxBuilds`, `MaxSwitches`,
`MaxFailures`, `MaxChanges`.

| run | instance | what it shows |
|---|---|---|
| `writer` | 2 tasks, 2 contents, 2 rows, lost replies, crashes, failures, fairness | what was acknowledged is stored, no row is hashed over anything but GENESIS or an earlier row, checkpoints are backed, nothing but a crash or a lost reply leaves a row unarchived, every call returns; until a reply is lost, the chain verifies, manifests are runs of the table, and the writer refines `AuditLog` |
| `writer_fork` | with lost replies | **violation**: the chain forks |
| `store` | 2 threads, 2 contents, 2 rows, one of them undone by another call's failure, failing INSERT, COMMIT and files, crashes | rows hang on earlier rows, acknowledged is committed, archived only after commit, each but for undone rows; until `disturbed`: chain, NDJSON complete but for what a crash took, in order, without repetition; refines `AuditLog` |
| `store_fork` | 2 threads | **violation**: the chain forks |
| `service` | 2 threads, 2 operators, 3 outcomes in a deque of 2, failing audits, restarts | every decision and its `kill_switch_active` are explained, but for the two named exceptions; nothing unaudited; the audit tells the level unless `astray`; no probability lacks a label, and pairs shift only by what was evicted |
| `service_approval` | 1 thread | **violation**: `soft_off` ends a hard kill |
| `gateway` | 2 requests of any kind, with and without the gateway's audit, every failure | an Ok was served and is audited on both sides (on the backend's only, if the gateway has no audit); no event without a served request |
| `gateway_fail_closed` | only the gateway's audit fails | **violation**: the level stays changed |
| `terminal` | 3 keys, 2 symbols, 2 pages, channels of 1, 2 and 1, failing fetches, lock, fairness | a view says it loads only while an answer is under way; the focus, board and detail views implement `RequestView`; risk numbers carry their symbol; the strip follows the symbol in focus; loading ends; a session left alone locks |
| `terminal_lock` | 2 keys | **violation**: the frame that unlocks locks again |
| `feed` | 2 slots, channels of 1, cache of 1, 2 times, a kill that comes and goes, one failure, fairness | what is shown is cached and never goes back in time; CONNECTED is true or the news is on its way; once the receiver is gone one snapshot at most is audited, and the task ends unless it hangs; a hard level is shown only when it is over; the feed recovers unless the task hangs |
| `alerts` | 3 events, 2 severities, 2 scores of which alerts want one, pages and list head of 2, channel of 1, 2 changes, one failed fetch, fairness | when paging may repeat or miss an event; each event alerted once; what is marked as seen arrives; an event that keeps alarming arrives; an orphan ends at the next news |

Each passing run takes a minute or two at most.

Why the bounds are enough: a fork needs two writers and one row before them; a repeated flush needs one failed
flush and one later row, which two rows give (what a third row adds is left to the proofs, which hold for any number); every race of the Python store is between two threads. A deque of two is full after two outcomes, and the
third evicts while the other thread is between its walks. Two keys
make two requests of one view overtake a fetch, the third changes view, filter or timeframe in between; small channels are full
after one or two keys (the safety properties were also checked once with four keys, 4.2 million states).
Two slots are an orphaned task next to the task of the new stream: a subscription the gateway has not noticed the end of takes a failure, and there is one; with channels of one, both senders wait; two switches are a kill that comes
and goes, so that a snapshot can begin under it and finish after it; one failure suffices to drop a stream or to hang a task, and the drop of a hard kill is not counted as a failure (a task that both hangs and loses its receiver would take two,
so the exception in `OrphanEnds` is never used in this run; that in `Recovers` is). Three events over a list
head of two let one event enter and leave the head. Two tasks exhaust the roles "holds the mutex" and "waits". Contents matter only as equal or different, so two do.

`CHECK_DEADLOCK FALSE` appears where the row or key bound ends the behaviour (`AuditWriter`, `Terminal`, `Session`), where each task is one
request (`Gateway`), and where a request that is never answered really stops the feed (`SignalFeed`).

**Fairness.** `writer` has weak fairness of a task's steps under the mutex, because the drivers
answer each request or report a lost connection as an error; strong fairness of taking the mutex, because tokio's is
FIFO. `terminal` has weak fairness of the fetchers' steps and of the event loop, because requests have a deadline of 12 s, connections one of 5 s, and
`select!` chooses fairly; strong fairness of `Answer`, because the two fetchers compete for room and tokio serves waiting senders in order; weak fairness of `EndFrame`, because frames
come at a fixed rate. `feed` has weak fairness of each streaming task, of `run_signal_stream` as a whole and of the event loop: the waits are timers, the client's requests have a deadline and its connection a keepalive, and nothing
is said about which outcome a step has. The gateway's requests have no deadline (`backend.rs:91`), so one may hang, and a task that hangs has no step to be fair to; nor does fairness make the gateway notice that a client is gone. `alerts` has weak fairness of each task and of a subscriber's reading, because a client that stays subscribed polls its stream. Nowhere are calls,
keys, subscriptions, switches or failures forced.

## Disagreements between code and documents

PROJECT.json `findings` quotes the lines. In short: the Rust chain forks after one lost INSERT reply; the Python
chain forks under two threads; `soft_off` and `soft_on` end a hard kill without approvers; SetKillSwitch does not fail closed; the key that unlocks the session does not count as input
(`app.rs:363`), so the same frame locks it again. Each is a run that must find its violation; the passing runs next to it say under which condition
the promise does hold. Others have no run of their own.

- README.md:70 says that a soft kill replays the last known good prediction (so does the comment at the end of `kill_switch.py`). With nothing remembered, as after every start, a fresh prediction is computed and served:
  `DecisionIsLinearizable` names this as its exception `NothingToReplay`, and without the exception it is violated. The other exception, `forgotten`, is a restart under a kill switch, which comes back as OFF.
- README.md:50 calls the Python table append-only and README.md:64 the stream immutable. When a failing statement makes SQLite roll back the shared transaction, the row of another thread goes with it, and that thread's
  `append` returns an event that the table does not hold and archives it: the exception `undone` of `AckedIsDurable`, `ArchiveAfterCommit` and `RowsAreRooted`.
- With `MayFailCommit = TRUE` one thread is enough for the Python fork: the row of a failed COMMIT may stay in the open transaction and be committed by the next append.
- A flush that races an append clears an event from the buffer that it has not written, so the NDJSON stream misses it, against the dual write of README.md:51 (which is why `DualWrite` asks for calls in turn); and a
  restart takes the buffered events from the NDJSON stream for good (`lost`).
- `kill_switch_changed` may tell another level than the one in effect when two operators act at once, or when its `append` raises: the exception `astray` of `AuditTellsLevel`.
- README.md:68 promises a rollback when the canary fails. A challenger that fails after its promotion stays the active model (`ml_decision_support.py:283`); that is plain from the branch.
- With `RUST_AUDIT_ENABLED` at its default, false, the gateway has no audit at all: `OkIsAuditedTwice` then speaks of the backend's only.

Two weaknesses of the terminal that no document rules out shaped the statement of its properties. A request that finds its
channel full is dropped silently: the view loads for ever, or ends with older data under the newer name; `LoadingIsBacked`,
`RequestView` and `LoadingEnds` except a `refused` panel. A failed risk request names no symbol: when an older
request was answered in between, the error stands under the older symbol and the strip of the focus view keeps waiting;
`StripFollowsFocus` excepts a failed panel. In the focus view `r` fetches the risk again but never the bundle, although `ui.rs:977`
offers it as the retry; that is plain from the branch (`app.rs:480`) and has no run.

The streams showed three more things worth knowing. A snapshot reads the level before its predictions, which a hard kill refuses, so the threat board never shows a hard kill while it lasts, only
(if at all) after it is over (`HardIsOver`). A task whose subscriber left goes on until the gateway's transport has noticed, which it may never do (no keepalive), and then notices only when it sends: the signal task audits one more snapshot for nobody, the alert task goes on fetching and
recording ticks until there is something new to tell. A request of the signal task that is never answered leaves the task, and the terminal that waits for its stream without a deadline, waiting for ever: `OrphanEnds` and `Recovers` name this exception. And `ml_calibration_update` has counted its sample when the status it answers with raises because another outcome came
in: a client that repeats the call counts it twice.

## Proofs

Every theorem is about `Spec` of its module, for any values of the constants that satisfy the module's assumptions (`ConstantsAssumption`, `GatewayAssumption`, `BlankAssumption`,
`CalibrationAssumption`, `ServiceAssumption`, `FeedAssumption`, `NewsAssumption`, `AlertAssumption`, `TerminalAssumption`, `NothingAssumption`: the constants have their types and the model values are distinct). Bounds such as `MaxRows` are constants too, so no result depends on a small one.

`AuditWriterProofs` (any number of tasks, rows, contents):

| theorem | statement |
|---|---|
| `TypeCorrect` | `[]TypeOK` |
| `ChainAlwaysVerifies` | `[]ChainVerifiesWhenHeard` |
| `RowsAlwaysRooted` | `[]RowsAreRooted` |
| `AcknowledgedIsDurable` | `[]AckedIsDurable` |
| `CheckpointsAlwaysBacked` | `[]CheckpointsAreBacked` |
| `ManifestsAlwaysRuns` | `[]ManifestsAreRuns` |
| `NoRowEverDropped` | `NoRowDropped` |
| `WriterImplementsLog` | `ImplementsAuditLog`: each step appends to the log, moves its seal forward, changes neither, or follows a lost reply |

`TypeOK` alone is not inductive: a flush indexes the buffer, so `FlushInv` adds that the buffer is not empty while a
task flushes, which needs `MutexHeld` (nobody else clears it). `ChainInv` adds `HeadInMemory` (outside the window between
COMMIT and reply, `lastHash` is the head of the table) and `EventChained` (the event under way is chained to that
head). `ReplyLost` breaks `HeadInMemory`, which is exactly run `writer_fork`, so this invariant is proved for the time before `replyLost`. What is left of the chain after that is `RowsAreRooted`: it may fork but has no gap.
`RootInv` adds that `lastHash` is GENESIS or the hash of some row of the table, and that the event under way is chained to such a hash; a failing INSERT leaves it alone, a lost reply leaves it behind, a restart sets it
to the head. `AckInv` adds that the row
about to be acknowledged is in the table. `BackedInv` adds that the manifest of the current buffer is in the bucket while its
checkpoint is put. `SealInv` adds that the last hash of the buffer is the head of memory and that `latest` is not longer
than the table, from which each put of `latest.json` is a forward `Seal` of the log. `RunInv` says that the buffer, but for a row that is
between INSERT and the buffer, is always a run of rows that ends at the head of the table: a failed flush leaves it as it was and a later row prolongs it, so each manifest is a run too, however often the
same events are put again. `NoRowEverDropped` rests on `BackedInv`: the one step that forgets events, `Clear`, comes after their manifest.

`GatewayProofs` (any number of requests, with or without an audit): every gateway step is a writer step or leaves it
alone (the lemma `GatewayUsesAuditWriter`, which holds by the way the handlers are composed), hence `GatewayKeepsAudit` (chain, roots, durability, checkpoints and manifests of the writer hold in the gateway) and `GatewayImplementsLog` (the gateway as a whole refines `AuditLog`); `TypeCorrect`; `OkAlwaysAuditedTwice`, `OkAlwaysServed` and `ForwardedAlwaysServed`
from `HandlerInv`: only a served request is forwarded, a task is in `write_event` exactly while its handler is in
`record_audit` and with its own event, and the row is there before `write_event` can return Ok.

`AuditStoreProofs` (any number of threads and rows): `TypeCorrect`; `AcknowledgedIsDurable` and `ArchivedAfterCommit` from `DurableInv`, which adds that the event a thread
is about to buffer or return is committed or undone, and that what a thread has copied from the buffer for the stream is; `ChainVerifiesForTurns` and `StoreImplementsLog` from
`TurnInv`, which holds until `disturbed`: one thread at a time is in a call, the head in memory is the head of the table but between the INSERT and `SetLastHash`, everything is
committed but between the INSERT and the COMMIT, and the event under way is chained to the head. The seal of the log is the checkpoint file, if it is one: while it is replaced there is none (`Tear`), and the text that
follows covers the table as read, which is the whole log because nobody else is in a call. The first two need none of this: they hold with any interleaving, failing COMMITs and rollbacks, for all rows but those in `undone`.
`RowsAlwaysRooted` holds with any interleaving too. Two calls at once may fork the chain, and a row may name another row as its previous hash than the one it was hashed over, because `append` reads
`_last_event_hash` twice; but both are rows before it, or `undone`. `RootInv` gives the reason: the head in memory is always the hash of a *committed* row (it is published after the COMMIT, or read from the table by
`__init__`) or of one that another call's failure undid before, so that nothing else takes away what an event under way was chained to.
`DualWriteForTurns` and `ArchivedInOrder` hold until `disturbed` and come from `ArchiveInv`, which follows one thread through its call: an event is out of reach of the archive only between INSERT and `BufferEvent`; a
thread about to write holds exactly the buffer, one about to clear it has written all of it; and the stream, then the buffer, repeat the rows before that event in their order. The stream is the concatenation of the
objects (`FlattenSeq`); that it grows at its end with each object is proved by induction over the number of objects.

`PlatformServiceProofs` (any number of threads, operators, predictions and samples): `TypeCorrect`; `DecisionsLinearizable` from `DecisionInv`: the level is in the window of
every prediction under way (or `forgotten` is), a last known good prediction there was at its start is still there, and a prediction past its check of the level saw one that allows it.
`AuditAlwaysTellsLevel` holds for any number of operators: `TellInv` says that, unless `astray`, at most one call has changed the level and not told it, that this call will tell the level in effect, and that the last `kill_switch_changed` event tells it when there is none.
The level may change at any moment after that check, which is why the property speaks of the window and not of the level. `AnsweredIsAudited` is inductive with the types.
`CalibrationAligned` from `CalibrationInv`: the deque holds consecutive samples behind `Evicted` dropped ones, what a thread has read of the probabilities is not longer than the deque and
not ahead of it, and a thread has labels only while it computes its status. `Register` may come between the two walks, and then only `Evicted` grows.

`SignalFeedProofs` (any number of subscriptions, switches and failures, channels and cache of any size): `TypeCorrect` needs that the client holds a stream exactly while it reads
from it. `OneOrphanAlways`: once the receiver is gone only a task about to send is in arrears, and that send fails. `ConnectedAlwaysTrue` from `BannerInv`: without a connection the last event on its way
to `App` is the loss, or `App` knows of it. `ShownAlwaysCached` and `NeverGoesBack` from `OrderInv`, which puts everything on the way in one order: shown, cached, in the event
channel, in the channel of the present stream, being built, and the clock; or the polled snapshot in place of the stream. Drops and restarts only cut this line. A prune keeps the
newest row (`SavedIsLatest`). `HardAlwaysOver` from `OverInv`: a snapshot whose predictions have not passed names the level of the present or was begun before its last change.

`EventAlertsProofs` (any number of events, severities, scores, subscribers, changes and failures, pages and channels of any size): `AlertedOnceAlways` and `SeenArrivesAlways`, from the invariant that what
was sent is marked as seen and what is marked as seen was received or waits in the channel. Nothing is assumed there of the list a tick fetches, so the two do not depend on how the backend sorts. `PagingAlwaysExact` does: the
lemmas before it show that `Before` orders the events, that a sorted list of them exists and has each event at its `Rank`, the number of events before it. `PagingInv` then has two halves. Unless an event came or
moved (changed its severity or score), what was read has a rank below the offset (so the next page repeats nothing); unless one went or moved, what has such a rank and stayed was read (so nothing is passed over). A departure keeps the first half because
ranks only fall, an arrival the second because they only grow. `TypeCorrect`.

`TerminalProofs` (about `SessionSpec`; any symbols, events, number of keys, channels of any size): `TypeCorrect`, and four promises of the views (`LoadingBacked`, `RiskNamed`, `LatestShown`, `StripFollows`) from `IInv`. Its parts: `Sorted` (a
channel and its fetcher hold requests of its panels only, without which the focus fetcher's drain might throw away somebody else's request); `Backed` (loading only while a request
is under way or was refused); `Tracks` (the *latest* request under way for a view is for what it asked for, whatever older ones are in front of it, and what is shown is that when none is); `Strip`
(once no bundle is under way, the latest risk request, or else the panel, names the symbol in focus). A fetcher's step moves requests along and loses none that is the latest of its panel (`MovesOn`); a key either leaves a
panel alone or makes its new request the latest (`Effect`); an applied result changes its own panel and may ask for a risk (`ApplyTypes`). `Tracks` does not hold of the risk panel, which takes the name of
every answer it applies: there `RiskNamed` and `LoadingBacked` together give `LatestShown`.

On top of these `ViewsImplemented` shows that each of the three other views implements `RequestView`, step by step. The abstract steps speak of the *set* of subjects under way and `Tracks` of their
order; the bridge is `LatestExists`: when any request of a view is under way there is a latest one (a sequence that holds a request of the view has a last one, by induction over positions), and `Tracks` says what it is
for. Then each concrete step is classified by what it does to the set. Moving a request from channel to fetcher to results changes nothing; the focus fetcher's drain removes requests and leaves one, so it is `Skip`; a
result removes at most its own subject, and if the set is empty afterwards then it was the latest, so it is `Answer`; a key is `Ask`, refused or not, or `Choose` while the focus view has not asked for anything yet
(`Chosen`: it has not been refused anything then). `RequestViewKeepsPromises` proves what the abstract view is for: `Settles` (when nothing is under way the view shows what was asked for last, an error, or nothing yet,
and does not say that it loads) and `Waits` (until then the last request is among those under way). `ViewsKeepPromises` carries both back to the terminal.

Properties and strengthenings were model-checked on the instances of the runs before they were proved; the runs keep to what the system promises, the types and strengthenings are left to the proofs.

Every invariant and action property of the passing runs is stated by a theorem. Only model-checked are the liveness properties (`WriteReturns`, `LoadingEnds`, `UnattendedLocks`, `OrphanEnds`, `Recovers`, `AlarmArrives`, `OrphanEndsOnNews`): fairness
and ENABLED are out of the prover's reach. Some proved promises are conditional, as in the code: those of the chain until a reply is lost (`replyLost`) or calls overlap (`disturbed`), and the runs `writer_fork` and
`store_fork` show that they fail afterwards; those of the Python table for all rows but the `undone`; the level told by the audit unless `astray`.

## Plan

1. *Done*: both audit stores, the service with kill switch and calibration, all unary handlers and both streams of the gateway, the terminal's views, feed and lock; proofs of both stores,
   the service, the gateway, the signal feed, the alerts and the terminal.
2. *Done*: proofs of the remaining safety properties (archive order and completeness, manifests, paging, the level told by the audit) and of all type invariants.
3. *Done*: the request view as an abstract specification, with three views of the terminal shown to implement it; what is left of both hash chains once they fork.

An abstract specification of the signal feed (a channel that may lose all but the newest value) was considered and left out: its two promises are `NeverBackwards` and `ShownIsCached`, which are
proved of `SignalFeed` itself. Worth doing next: one specification of the terminal with its gateway and the backend, in which a view, a stream and both audits meet.

## Not modelled

- Scores, features, statistics and all real arithmetic: the formulas of decision support, walk-forward folds, the canary gate; grouping, novelty, claims and impacts of the news.
- Champion/challenger: one attribute that a passing evaluation sets and a failing one after it leaves (`ml_decision_support.py:283`), see above.
- A restart of the gateway in `SignalFeed`: to the terminal it is a stream that breaks and a connection that fails; the tasks it ends are no worse than tasks that ended.
- Credentials: `rotate` puts the new key into both slots in one step (`credentials.py:58`), which needs no exploration to see.
- Gateway start-up, environment parsing, mTLS; HTTP routing, the alert router, the configuration: no state that changes.
- News feed and market data: external HTTP services, without state between calls, answer or fail.
- Rendering, overlays, positions inside a view, quitting and the edit line of the news filter in the terminal.
- The control panel and the deployment scripts: what they do to the services is the restart of the models.
- Signatures and MFA tokens beyond accepted or not; the round trip of a payload through JSONB.
- Clock values: the 12 s deadline, the flush interval, refresh and idle times are choices of when a step happens, so how long a quiet period keeps events out of S3 (`audit.rs:474`) is not covered,
  nor is a database connection that is lost for good (`audit.rs:123`).
