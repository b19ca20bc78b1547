# A TLA+ model of media_engine and gb28181_daemon

The repository turns an RV1126 camera into a GB28181 device. Two long-running
processes carry its logic:

* `src/media_engine` (C, one GLib main loop plus GStreamer and RockIVA threads)
  owns the camera pipeline, the single live RTP branch, the analytics that turn
  inference results into events, and a **durable journal** of those events. It
  listens on a Unix socket with a line-based JSON protocol.
* `src/gb28181_daemon` (Go) is the SIP device towards the platform. It starts
  and stops the live branch for INVITE and BYE, subscribes to the journal, keeps
  each event in a **durable outbox** of its own, acknowledges it to the engine,
  and delivers it to two sinks: the SIP Alarm and the HTTP evidence upload.

This directory models the path of an event through both processes (frames handed to
the detector, the event engine, the picture kept as evidence, the two durable logs,
the stream between them and the service that delivers) and the life of a live
session across both. It model-checks every part on small instances. Every safety
property that holds on them, invariant, action property or refinement, is proved for
every instance; what is only model-checked is liveness.

## Inventory

| Component | State | Operations | Talks to |
|---|---|---|---|
| event journal, `analytics/event_journal.c` | queue of records, last cursor, file | open with recovery and compaction, append, snapshot after a cursor, close | event engine (append under a lock), control socket (snapshot) |
| event engine, `analytics/event_engine.c`, `observation.c` | track table, one event with its timers and pending updates | process an observation, reconfigure, close | RockIVA runner in, journal out |
| evidence cache, `analytics/evidence_cache.c` | window of recent JPEGs, notes of recent results, metadata records and their bytes, two files per picture | open with recovery, push JPEG, note frame, capture with pruning, close; all under one lock | encoder thread and RockIVA thread in, evidence directory out, which the daemon reads |
| RockIVA runner, `analytics/rockiva_runner.c` | table of frames with the SDK, two counters, `stopping` | new, sample callback, detection and release callback, free | GStreamer thread, SDK threads, main thread |
| session table and lease, `session/session_mgr.c`, `engine/engine.c` | at most one session, its last keepalive | start, stop, touch, expire | control socket in, GStreamer runner out |
| live branch, `gst/gst_runner.c` | phase of the branch, `base_ready` | start, stop, NULL and bus drain, error handling | session table (both ways) |
| control socket, `ipc/ipc_server.c` | connections, subscriptions, output queues | live RPCs, subscribe with replay, acknowledge, broadcast, flush | both processes |
| event stream, `engine/engine.c`, `main.c`, `media/rpc.go` | deliveries queued in the main context, the subscription, the acknowledged cursor | journal and invoke, dispatch, close at shutdown, consume, reconnect | journal, control socket, delivery |
| outbox, `internal/outbox/outbox.go` | records with two sink states, producer cursor, log file | Open, EnqueueWithEvidence, Ack, Mark*, compaction, Close | delivery |
| delivery, `internal/delivery/*.go` | three goroutines, staged evidence files | ingest, alarm loop, evidence loop | engine's subscription, outbox, SIP, HTTP |
| live control, `internal/app`, `session`, `media`, `sipua` | entry per Call-ID, `mediaMu`, dialogs | INVITE, ACK, BYE, lease and keepalive loops, reconciliation, shutdown | platform (SIP), engine (RPC) |
| codecs, configuration, XML/SDP, time sync, AIQ, RGA | none that matters to the above | conversions and vendor calls | |

What is hard, and what makes each part right:

* **Crashes between two durable effects, and failed effects.** A compaction is a
  rename, an append a write and a sync; each may fail or be cut short by a power
  loss. Right is: what a caller was told is durable is read back by any later
  start; what disappears under pressure is an UPDATE or a delivered record; what
  disappeared is reported as a gap.
* **Goroutines that share the outbox and the evidence directory.** The loops act
  on snapshots that are stale by the time their outcome is recorded. Right is:
  an alarm is settled once and for a reason, and acknowledged evidence always has
  a copy, an upload, or an exhausted retry budget behind it.
* **Results that come late, twice or under a wrong label.** The detector is
  asynchronous, streams change under it, and the engine's timers run on a time line
  that may change its base. Right is: events start, are numbered and end once; none
  outlives its stream; every passage during an event is reported once; an event ends only
  when its rule has not been met for the whole grace period.
* **Events that are queued, replayed and acknowledged at once.** The worker journals,
  the main loop sends later, a subscriber asks for a replay in between, and the engine
  closes its last event when the main loop has already ended. Right is: the
  acknowledged cursor covers nothing that is not stored, and every START and END
  arrives through any number of broken subscriptions.
* **Frames and files shared with threads and processes one does not control.** The
  SDK calls back before `PushFrame` returns; the daemon reads two files that the engine
  replaces one after the other; power fails between them. Right is: a buffer is kept
  exactly while the SDK has it, nothing is freed under a callback, and a picture that
  is called exact is the picture of its event's frame.
* **RPCs that time out while the engine goes on to serve them**, BYEs racing
  ACKs, restarts of either process, branches that die slowly. Right is: no stream
  starts behind its BYE, none runs that the daemon has forgotten, and every
  session and every reservation ends.

`PROJECT.json` lists these hazards at the line where each bites, with the
properties that watch it.

## Modules

    EventJournal ── EventJournalProofs        MediaSession
         │                                         │ EXTENDS
    MCEventJournal                            LiveSession ─┬─ MCLiveSession
                                                           └─ LiveSessionProofs

    EventLifecycle ◁──implements── EventEngine ─┬─ MCEventEngine ── EventIdentity
                                                └─ EventEngineProofs

    Outbox ──EXTENDS──┬─ OutboxDurability ─┬─ MCOutboxDurability
                      │                    └─ OutboxDurabilityProofs ─┐
                      ├─ OutboxProofs ────────────────────────────────┤
                      └─ EventDelivery ────┬─ EventDeliveryProofs ────┘
                                           └─ MCEventDelivery

    EvidenceCache ── EvidenceCacheProofs      RockivaRunner ─┬─ AnalyticsProofs
                                              EventStream ───┘

Both `OutboxDurabilityProofs` and `EventDeliveryProofs` extend `OutboxProofs`, which holds
the lemmas about the operations of the outbox. `AnalyticsProofs` holds the proofs of the
first and of the last part of the analytics path; the two share no state, and a runner's
specification has names of its own (`RunnerSpec`, `RunnerTypeOK`, …) so that both can be
extended. The modules of the last line have constants that are numbers and sets of numbers only;
their `.cfg` files instantiate them directly. Between the modules an event looks like this: `RockivaRunner` hands out
observations, `EventEngine` turns them into events, `EvidenceCache` keeps a picture of
each START, `EventJournal` keeps the event, `EventStream` moves it to the daemon,
`Outbox` keeps it there and `EventDelivery` settles it. `EventStream` uses the
journal and the outbox by what the other modules show of them.

**EventJournal** (`event_journal.c`). The `GQueue` is `records`, the readable part
of the file is `disk`, unreadable bytes behind it are `tail`. Because every push
has a larger cursor than the ones before, both are sets. An append is two steps,
since a crash can fall between its durable effects: `AppendStart`,
`CompactOk`, `CompactFails`, `CompactReopenFails` or `AppendRefused` (the pressure
policy of `compact_to_fit_locked`, where only the oldest UPDATEs may go), then
`WriteOk`, `WriteFails` or `WriteFailsUntruncated`. The latter is the failed append
whose unchecked `ftruncate` fails as well; the history variable `trunc` remembers
it. `Open` and `OpenFails` are recovery (cut at the first unreadable byte, compact
to the possibly smaller limits). `SnapshotAfter` and `ReplayGap` are what a
subscriber is sent. A record is its cursor, phase and size; JSON is left out.

**EventEngine** (`event_engine.c`, `observation.c`). The struct `MeEventEngine` is the
record `eng`; each static function of the code is an operator on it, and `eng.out`
lists the records the step has emitted. `Observe` and `Drop` are
`me_event_engine_process`: a change of channel or epoch closes the event, the order
decides, tracks are updated, and the rule starts, updates or ends an event.
`Frames` is how `detect_callback` labels results: with the stream of the frame, or
with the stream of now and no time when the frame was released first. `SetStream` is
the epoch change of `gst_runner_start_live`/`stop_live`. An observation keeps its
labels and what the frame shows per track (inside, outside, removed); boxes, scores
and the lists of responsible tracks are left out, and so are line crossing and
intrusion as two kinds of rule, which the engine treats alike. Which new tracks get
a slot of a full table depends on their order in the result, so `Admissions` is the
set of outcomes. The detector of this repository reports no rule facts and nothing
calls `me_event_engine_reconfigure` yet; both are modelled as the interface of the
engine, which its tests use.

**EventLifecycle** is what the engine promises: START numbered 1, updates, one END,
ids new in this life of the process. `EventEngine!Lifecycle` is the refinement.
**EventIdentity** adds what outlives the process: the ids the daemon has been told.

**Outbox** (`outbox.go`). The log is a sequence of entries of one unit each plus the
condition of its last line (whole, without newline, partial, or so broken that
`Open` refuses the file); `disk.base` is what the whole lines say, `disk.ext` what they
say with a last line that only lacks its newline. `disk.line` is the length of the snapshot line that a
compaction wrote, for which `load` has a limit of its own (`MaxLine`, 8 MiB in the code); a log
is `Legible` within it. `Loaded` is what `Store.load` returns and `Loads` whether it succeeds. Every operation is a relation
between the store before and after and its result (`ok`, `exists`, `dropped`,
`capacity`, `error`), including compaction on the way, eviction of terminal
records, coalescing of UPDATEs, and the four ways an append can fail. Operations
hold the store's lock, so each is one step. SNs, error texts and retry times of a
record are left out.

**OutboxDurability** drives the outbox with the callers that matter to its
durability: store, acknowledge, the outcome of a delivery, start, stop, crash
inside an append. Its history variable `aligned` says whether every append has so
far started on a line of its own.

**EventDelivery** (`delivery.go`, `evidence.go`). Three processes, `ingest`, `alarm`
and `evidence`, each with a program counter and the locals the code carries from
one outbox call to the next; `staged` is the directory of evidence files. Every
outbox call and every use of the directory is one step, so all interleavings
between them happen. `Begin … AckEvent` is `ingest`, `*Snapshot/*Send/*Mark/
EvidenceRemove` the loops, `Start` is `New` with its removal of stale files, `Close`
the end of `Run` after `ErrCapacity`, `Crash` a stop at any point. A send that
reports an error may have been accepted all the same. A record whose retry time
has not come is a loop that runs later, so retry times are left out.

**MediaSession** (`session_mgr.c`, `gst_runner.c`, `engine.c`) is everything that runs on
the engine's main loop for the live session: one action per handler, with the
results of GStreamer as parameters. `phase` is `live.phase`, `ready` is `base_ready`.

**LiveSession** (`app.go`, `manager.go`, `rpc.go`, `ua.go`, `ipc_server.c`, `main.c`)
composes it with the daemon. Handlers that touch media hold `mediaMu` across their
RPCs, so `job` is the one critical section under way and its `step` the RPC it
waits for; `todo` is the shutdown loop, which does not take the lock. `queue` is the
engine's backlog of requests. It is a FIFO: each call opens a connection of its
own, connections are accepted and dispatched in order, and `RPC.call` returns at
its deadline without withdrawing the request, so a request `from` a caller that is
`gone` is served all the same. Unknown channels, AIQ failures and bad parameters
are all the refusal of a start. `live_lease_timeout_s` is assumed to be positive;
zero switches the lease off in the code, and with it the bound on orphans. For a
foreign session only its start is modelled (`ForeignStart`), from how the socket
serves any client.

**EventStream** (`engine.c`, `main.c`, `ipc_server.c`, `rpc.go`, `delivery.go`). `Emit` and
`Invoke` are the two halves of `engine_analytics_event` on the RockIVA thread: the
event is in the journal before its delivery is queued in the main context, and a
subscriber may be served between the two. `g_main_context_invoke` queues while the
main loop owns the context and calls on the spot when nobody does, which is the case
in `engine_deinit` (`CloseEngine`). `conn` is the one connection that matters: the
requests on their way to the server, the client's output queue and what the socket
holds. `Sent` is `ipc_client_send`, `Flush` the writable callback, `HandleSubscribe`
sets the flag and sends result and replay in one turn of the loop. `Receive`, `Store`,
`Ack` and their failures are `ConsumeEvents` with `ingest` as its callback; `Dial`
reconnects from the durable cursor. `daemon.pc = "stopped"` is `Run` having returned,
after a replay gap or a refusal of the outbox. The history variable `overtaken` says
whether an event was ever sent ahead of one queued earlier.

**EvidenceCache** (`evidence_cache.c`, `gst_runner.c`, `engine.c`, `evidence.go`). `disk` is
the directory as every process sees it and `synced` as its last fsync left it; a power
loss may take back each name changed since. `capture` holds `cache->lock` across its
file operations, so `work` is where its holder is, and `Prune*`, `WriteJpeg`, `SyncJpeg`,
`WriteJson`, `Publish` are the steps at which a crash, a power loss, or the daemon's two
reads (`ReadMetadata`, `ReadImage`) can fall. `PruneFails` and `PublishFails` are the
unlinks whose result is not looked at. `Selected` is the choice of the frame: exact, else nearest
in time, else the newest of the stream. `Open` accepts the pairs that are whole,
removes every other file, and prunes. A picture is its process, frame and size, so
that the properties can tell what it shows; comparing pictures stands for comparing
checksums.

**RockivaRunner** (`rockiva_runner.c`, `gst_runner_free`). Three threads: the streaming
thread in `new_sample_callback`, the SDK's callbacks, and the main thread in
`me_rockiva_runner_free`. Every section under `runner->lock` and every call of the SDK
is one step. `frames` is the hash table, `held` what the SDK has not released, `results`
the detections still to come. The streaming thread is called (`Call`) before it takes the
lock and is counted (`Enter`); between the two nothing keeps it from meeting a freed runner
(`EnterFreed`, whose outcome is undefined). `Push` takes the frame before `PushReturns` or
`PushFails`, so callbacks fall between them; an error may come before (`PushRefused`) or after a
callback, and after a failed detection, which leaves no mark on the frame. `Release` is a release that
`release_callback` accepts, `ReleaseIgnored` one that does not match its frame or is beyond the cap of the
list. Two history variables name the frames these paths misjudge, `misreported` and `ignored`.
Each wait of the shutdown ends with its condition or with its deadline.

## Runs

| Run | Instance | What it shows |
|---|---|---|
| `journal` | 4 events of sizes 1 and 2, cursors up to 3, limits of 2 records / 3 bytes and 1 record / 2 bytes | `BoundaryDurable`, `BoundaryReplayed`: a START or END reported durable is read back and replayed, until an unchecked ftruncate fails. `MissingCursorReported`: a cursor that is gone is reported as a gap, even then. `TypeOK` includes that the cursor never passes its maximum |
| `outbox` | START, two UPDATEs, END; 2 records / 4 units and 3 records / 3 units; lines of 2 units; 2 attempts; partial writes and lost newlines | `VisibleDurable`, `NoSilentLoss` while the log is `Legible`, the latter also while `aligned`; `LogBounded` and `PendingProtected` always |
| `delivery` | START with evidence, UPDATE, END; a roomy log and one of 1 record / 4 units; 2 attempts, 1 fault | `AlarmSettledRightly`, `AlarmFinal`, `AckedEvidenceKept` |
| `delivery_live` | a START with evidence; logs of 1 record / 3 units and 1 record / 2 units; 2 attempts, 2 faults, fair | `IngestProgress`, `AlarmSettles`, `EvidenceSettles`, each unless `Stuck` |
| `live` | two calls and a foreign client, 2 faults, symmetry in the two calls | `NoStartAfterBye`, `NoOrphan`, `StreamReported`; `TypeOK` includes the single slot |
| `live_ends` | one call, 3 faults, fair | `SessionEnds`, `SlotFreed` |
| `engine` | 3 persons for 2 slots, 4 frames, 2 epochs under the same or another channel, an occupancy rule, a line and a switched-off configuration; sequence, serial and version numbers up to 3, 2, 2 | `Lifecycle` (refinement of `EventLifecycle`), `OneStream`, `PassagesConserved`, `CountReported`, `GraceKept`; `TypeOK` includes that no number wraps and the table does not overflow |
| `engine_ids` | the same, two lives of the process | *violation of* `EventIdUnique`: epoch and serial start over with the process, so ids repeat, and the outbox takes the new event for the old one |
| `stream` | 3 events, a socket of 1 message, 2 faults, fair | `AckCoversStored`, `NothingBetween`, `GapStops` and `BoundaryArrives`: see the module; the ones a delivery out of turn breaks are stated until `overtaken` |
| `stream_order` | 2 events, no fairness needed | *violation of* `NoBoundaryLost`: at a normal shutdown the END overtakes the queued START; the daemon acknowledges END and is never sent START again |
| `evidence` | 2 frames of sizes 1 and 2, a cache and a window of 2 bytes, 1 note, 2 epochs, 2 processes, 2 faults | `RecordWhole`, `LeaseKept`, `WithinBudget`: what is on disk; `RightPicture`, `StagedPicture`: what the pictures show |
| `rockiva` | 3 frames, fair main thread | `FramesCounted`; `BufferHeld` and `FreedQuiet`, but for `misreported` frames and a thread not yet counted; `ShutdownEnds`; `FrameReturned` under the stated fairness of the SDK, but for `ignored` frames |

`TypeOK` states the types of the variables in every module. The runs check it where
it says more than that (the journal's cursor, the single live slot, the engine's
numbers and table), and there it is a theorem too. For the RockIVA runner (as
`RunnerTypeOK`), the event stream, the outbox and the delivery service it is proved
without a run. In `EvidenceCache` it documents the variables.

Every property of a passing run has a mutant in `PROJECT.json`: an operator next to
the original, named for the slip it makes, under which TLC finds the property
violated. These operators (`OldestOfAnyPhase`, `OpenWithoutTruncate`, …) are used by
nothing else.

### Bounds, and why they are enough

* *Journal.* Two records fit, so the third event meets the pressure policy and the
  fourth comes after a compaction; the smaller limits make a restart meet a journal
  over its size. Three cursors for four events reach exhaustion. The theorems below
  need none of these bounds.
* *Outbox.* The four events of one lifecycle in a log of two records or three units
  meet eviction, coalescing, drop and refusal. Crashes and faults are not
  bounded: the log is at most its size limit, so the state space is finite
  without it. An entry is one unit whatever its kind; the size of entries only
  decides *when* pressure occurs, and the two limits make it occur by records and
  by bytes. `MaxLine = 2` lets a snapshot of one record be read back and one of two
  not; the entries themselves are taken to be shorter than 8 MiB.
* *Delivery.* Two attempts make the first failure a retry and the second final. One
  fault (an outbox call that fails before or after reaching the disk, or a crash)
  at every possible point. Failures of staging and of
  the sinks are not counted and happen any number of times. The liveness run allows
  two faults, and its logs are tight: behind a snapshot of the record (two units) one has room for a
  single entry, so nearly every call compacts and the reopen behind the rename can fail, and the
  other has no room at all. Its snapshots never exceed `MaxLine`; an unreadable log is reached in
  `outbox`.
* *Live.* One slot means two calls and one foreign session give every contention
  there is between an owner, a rival and a stranger. Two faults suffice for a lost
  reply followed by a failing stop or a restart; `live_ends` allows three on one call.
  The platform's messages are not counted: each call has one INVITE and one BYE.
* *Engine.* Four frames are enough to confirm a track and the rule, start, and update
  an event, and the presentation times they may carry (`MCTimes`) leap far enough to
  pass the grace period and once run backwards between two frames;
  a late frame of another channel starts the order anew, so runs are longer than
  four observations. Two serials and three sequence numbers reach exhaustion inside
  START, UPDATE, END. `GraceKept` is stated for a time line that has not run
  backwards; one that mixes presentation times and frame numbers may.

* *Stream.* Three events are a START and END with an UPDATE between them that can be
  evicted before it is acknowledged, or two boundaries behind one another's replay;
  a socket that takes one message makes every longer burst go through the output
  queue. Two faults (shutdown, crash of either process, failing or refused ingest,
  unrelated broadcast) let the second hit the recovery from the first.
* *Evidence.* A cache of two bytes with pictures of one and two bytes is full after one or two of them,
  and a lease of one tick expires within the run, so pruning, refusal and reuse
  of an id by the second process all happen. One note and a window of two make notes
  and JPEGs fall out before they meet. Two faults are a failing removal followed by a
  power loss, or a failed publication whose clean-up fails.
* *RockIVA.* Three frames are one being pushed, one with the SDK and one released
  early. The theorems need no bound.

Deadlock is checked in the journal, the outbox and the event engine. The others may
come to rest (all delivered or delivery stopped; no call and a daemon that is down; a
runner that is freed; no frames left), so it is switched off.

### Fairness

*EventDelivery*: weak fairness of each goroutine, since the loops have a ticker and
the subscription is retried for ever, of `Close` (it only waits for the loops), and of
`Start`: a daemon that has stopped is started again in the end, at the latest with the
board (`scripts/S60gb28181`); a daemon that stays down delivers nothing. No fairness says that a sink or
staging ever succeeds; the retry budget is what ends the retries. Nothing is assumed of
outbox calls either: the three properties say what they leave open. `Stuck` is an outbox
that stays unusable (closed by a failed reopen under a daemon that retries for ever, `Full`, or
not loadable), or a `Run` that `ErrCapacity` ends time and again; in all of them the
code has no way out. `EvidenceSettles` also names the two ways in which a record keeps the
state `staging` over a restart; they are described under *Evidence can stay in `staging`* below.

*LiveSession*: weak fairness of the engine's main loop (`Handle`, `MediaIdle`,
`MediaReap`), of the critical section under way (`JobStep`) and of `MainStep`. What
waits for `mediaMu` is enabled again and again rather than continuously, and is
strongly fair per call (`HandlerStep`, `Bye`, `LeaseCleanup`, `LeaseMaxLive`), because a
Go mutex is handed to a waiter that has starved for a millisecond. The lease of a
session that the daemon does not refresh runs out. Nothing is assumed of the
platform, and the daemon need never be started again.

*EventStream*: weak fairness of what the GLib main loop and the shutdown sequence do,
of the worker between journal and invoke, of `Boot` (the engine is restarted by its init
script) and of the daemon, which waits and dials again after every end of a subscription.
Nothing says that an ingest succeeds, but failures are among the bounded faults.

*RockivaRunner*: weak fairness of the main thread alone, whose waits have
deadlines. `FrameReturned` states in the formula what it needs of the others: that
the streaming thread goes on and the SDK releases every frame it has taken.

## Proofs

`EventJournalProofs` proves for all limits, record sizes, numbers of events and
maximal cursors that satisfy the `ASSUME`s of `EventJournal`:

| Theorem | Statement |
|---|---|
| `Typing` | `Spec => []TypeOK`, and with it that no cursor passes its maximum |
| `Durability` | `Spec => []BoundaryDurable` |
| `Replay` | `Spec => []BoundaryReplayed` |
| `GapReported` | `Spec => []MissingCursorReported` |

`BoundaryDurable` is not inductive: a compaction rewrites the file from the queue,
so the queue has to hold the boundaries as well, and an appended line can only be
read back when no torn bytes precede it and its cursor is above every cursor in
the file. The inductive invariant therefore is

    IndInv == TypeOK /\ BoundaryDurable /\ QueueSound /\ PendingSound

where `QueueSound` says this of an open journal (under `trunc = "ok"`), and
`PendingSound` that the record being written has the cursor behind the last one.
The lemma `KeptBoundary` (compaction only removes records and never a boundary)
carries the compaction steps; `MaxCursorBounds` (the recovered cursor is at least every
cursor in the file and at most the maximum) carries `Open`. It needs that a bounded
set of numbers has a greatest element, which `LeastNatural` and `GreatestNatural` take
from the well-foundedness of `<`. `Replay` follows from `QueueSound`.
`GapReported` needs no invariant beyond typing (`HoleIsGap`): take the smallest surviving cursor
above the missing one; no record of the snapshot can be its predecessor.

`AnalyticsProofs` proves of `RockivaRunner`, for every number of frames:

| Theorem | Statement |
|---|---|
| `RunnerTypes` | `RunnerSpec => []RunnerTypeOK` |
| `RunnerCounts` | `RunnerSpec => []FramesCounted` |
| `RunnerHolds` | `RunnerSpec => []BufferHeld` |
| `RunnerFreedQuiet` | `RunnerSpec => []FreedQuiet` |

The four are proved together, since none is inductive alone. The invariant is

    RunnerInv == RunnerTypeOK /\ FramesCounted /\ BufferHeld /\ FreedQuiet
                     /\ Counted /\ OwnFrame /\ Teardown

`Counted` ties `active_callbacks` to the place of the streaming thread; `OwnFrame` says
that the frame in the streaming thread's hands is unknown to the SDK until it is
pushed, and that one refused with an error is reported on, `misreported` or not with the SDK,
so that dropping any other takes no buffer from the SDK; `Teardown`
says what each stage of the shutdown has established: the callback table is
cleared before the wait, and behind a successful wait nobody is counted again (`Uncounted`:
a thread may still have been called and wait for the lock). `FreedQuiet` therefore says
that this thread is the only one that can meet a freed runner. The cases
are grouped by thread (`CameraInd`, `SdkInd`, `TeardownInd`); `TableSize` gives the
cardinality facts for adding and removing a frame. The assumptions on the SDK and the
appsink are those written at the head of `RockivaRunner`.

`EvidenceCacheProofs` proves for every budget, window, retention, number of frames,
epochs, processes and faults:

| Theorem | Statement |
|---|---|
| `RecordsAreWhole` | `Spec => []RecordWhole` |
| `LeasesAreKept` | `Spec => []LeaseKept` |
| `PictureIsRight` | `Spec => []RightPicture` |
| `StagedIsExact` | `Spec => []StagedPicture` |
| `BudgetIsKept` | `Spec => []WithinBudget` |

    IndInv == StreamTypes /\ StreamLabels /\ FileTypes /\ Working /\ Right(work, begin)
                     /\ RecordWhole /\ Leases /\ Numbered /\ Exact

`StreamLabels` is why a picture is right: a label with a time names the epoch of its
frame, and a JPEG only carries a label of its own frame; a later stream does not change
the epoch of an earlier frame (`EpochKept`). `Working` says what a publication has
written at each of its steps and that it never replaces a record of the cache. A
lease is in the directory *and* in what its last fsync left (`Leases`), so taking back
unsynced names cannot touch it. `StagedPicture` needs the most: the metadata the
daemon has read may be about to be replaced, so `Numbered` and `Exact` relate every
metadata file, synced or not, to every event known anywhere, through the serials a
process has given out. The trimming of the JPEG window is a set of outcomes
(`Trimmed`, of one element), because the provers can reason about the condition on
the suffix that is left but not about choosing it.

`WithinBudget` rests on a second invariant, proved on top of `IndInv`:

    BudgetInv == leftover \in BOOLEAN /\ KnownOnDisk /\ SyncedBehind /\ UnusedId /\ Budget

That `stored` is within the budget while the process runs is the easy half. The hard one
is the next open, which loads what it finds, and a power loss decides name by name
whether it finds the file on disk or the one of the last fsync. `Recoverable` is the set of all
unexpired metadata that can come back with its picture in any such mixture, and `Budget` bounds the
bytes of *all* of it. A publication keeps that bound because its order is
right: the fsync behind the JPEG has made the removals of the pruning final
(`SyncedBehind`) before the metadata that adds to the total is written, and a running process knows
of every unexpired metadata file (`KnownOnDisk`). `UnusedId` keeps a metadata file of an earlier
process from being completed by the new picture. All other steps only lose files
(`Survives`, `RecoverableLess`).

`EventEngineProofs` proves for every number of tracks, slots, frames, streams and versions, all times
and scenes, and every set of configurations that the `ASSUME`s of `EventEngine` allow:

| Theorem | Statement |
|---|---|
| `EngineTypes` | `Spec => []TypeOK`, and with it that no number wraps and the track table does not overflow |
| `EveryEventInOneStream` | `Spec => []OneStream` |
| `EveryPassageReported` | `Spec => []PassagesConserved`: every passage counted for the open event |
| `LastCountReported` | `Spec => []CountReported` |
| `EngineKeepsGrace` | `Spec => GraceKept`, an action property |
| `EngineRefinesLifecycle` | `Spec => Lifecycle`, the refinement of `EventLifecycle` |

    EngineInv == up \in BOOLEAN /\ StreamTypes /\ DownIsIdle /\ EnginePart
    EnginePart == Good(eng) /\ IdsGiven /\ FactsKept /\ PassagesConserved /\ OneStream /\ Timely

(`EngineInvariant`.) `me_event_engine_process` is a chain of operators on the engine's record, and
the proof follows the chain. `OpenedShape` says what the change of stream and the
order check leave (`Prepared`, `Continued`, `Vacant`), `AcceptedOutcome` what the rule then does:
nothing, or it starts, updates or ends an event (`Quieted`, `Begun`, `Refreshed`, `Lapsed`). `ProcessEffect`
sums both up in the records a call emits (`Effect`): none, one, or an END and a START. Each
property is then an argument about five cases instead of about the code. `Good` is
the engine between two calls: an event belongs to the channel and epoch of the engine,
which is why it cannot outlive its stream. `IdsGiven` (ids carry the serials given so far) makes the next id
new, `FactsKept` ties the passages already counted to those the engine remembers, and
`Timely` (the rule was last met before the absence began) gives `GraceKept`. The
refinement maps every case to a step of `EventLifecycle`; END and START in one call are
one abstract step there. `SceneAssumption` (finitely many tracks and facts, and scenes that
show known tracks) holds of every result of the detector, whose arrays are fixed in size.

`AnalyticsProofs` proves of `EventStream`, for every socket size and every number of events and faults:

| Theorem | Statement |
|---|---|
| `StreamTypesHold` | `Spec => []TypeOK` |
| `AckCovers` | `Spec => []AckCoversStored` |
| `NothingFallsBetween` | `Spec => []NothingBetween` |
| `NoGapIsPassed` | `Spec => GapStops`, an action property |
| `AckMovesByOne` | until `overtaken`, `acked` only moves to its successor, the event at hand |

    StreamInv == StreamTypes /\ JournalKept /\ AtHand /\ Covered /\ InOrder /\ AckCoversStored

The three properties are about places an event can be in; the proof is about
one sequence. `Pipe` is all that the daemon is still going to read, in the order in which it
will: what the socket holds, the output queue, the deliveries queued in the main
context and the event between journal and invoke. `Covered` says that every START
and END is acknowledged, at hand or in the pipe, and every event at all when no gap was
announced. `InOrder` says that ahead of an event in the pipe come all smaller cursors that are not yet
acknowledged, unless a gap, at which the daemon stops, comes first; it holds until
`overtaken`, and it is why acknowledging one event acknowledges no other. Replayed events come twice, so the
pipe is not sorted; the formulation only asks for the first copy. Steps are grouped by what they
do to the pipe (`PipeKept`, `PipeCut`, `PipeInsert`, `PipeSubscribe`, `PipeNew` and others). A subscription is the
heart of it: `NoGap` (a replay that announces no gap contains every cursor behind the
one asked for, since the last record is never evicted) and `AscendingLists` (the snapshot
leaves no record out) make what is replayed cover what was lost with the last connection.

`LiveSessionProofs` proves for any number of calls, other clients and faults:

| Theorem | Statement |
|---|---|
| `SlotHasOneOwner` | `Spec => []TypeOK`: types, and one owner of the media slot on either side |
| `ReleasedStaysReleased` | `Spec => []NoStartAfterBye` |
| `NothingIsForgotten` | `Spec => []NoOrphan` |
| `StreamIsReported` | `Spec => []StreamReported` |

The argument is about the queue of requests. A request whose caller has given up is
served all the same, so the invariant speaks of sessions that are `Coming`: in the
engine's table, or started by a request that is still in the queue. `JobAsks` says that
the request of the critical section under way is behind every start (`LastStart`):
callers hold `mediaMu`, and the queue is a FIFO. Hence `JobTold`: after an answered stop,
or a status without the session, the call neither is nor will be streamed. `MainAsks` and
`MainTold` say the same of the reconciliation at startup, when the requests of the
previous process may still be queued. `Table` ties the daemon's entries to what is
coming, `ByeState` to the BYEs. `Shrinks` and its lemmas carry all of it over the steps
that only serve, drop or abandon requests. The proof needs that `None` is no call
(`CallAssumption`), that foreign calls are calls, that `MaxFaults` is a number, and that no
call is named like one of the four answers of an RPC (`LiveAssumption`); they restrict
how the constants are chosen, not the program.

`OutboxProofs` has no theorem of the system; it says what an operation of the outbox can
do. `Shape`: it evicts some terminal records, may replace the log by a snapshot of what
is left at any point of that, and writes one entry, successfully or in one of the ways
a write can fail; whatever it does, a log within its limit stays there. `Enqueue`, `Ack`
and all of `Mark*` have this shape, so a property of the outbox is proved once for `Shape`
and then for the entries its callers write. `Covers` and the lemmas about it are the
stronger form for a disk that writes a line whole or not at all.

`OutboxDurabilityProofs` proves for any stream, limits, kinds of faults and attempts:

| Theorem | Statement |
|---|---|
| `AttemptsAreBounded` | `Spec => []TypeOK`: types and the retry budget, in memory and in the log |
| `LogStaysBounded` | `Spec => []LogBounded` |
| `VisibleIsDurable` | `Spec => []VisibleDurable` |
| `AcknowledgedIsSafe` | `Spec => []NoSilentLoss` |
| `SmallLogsStayLegible` | `Spec => [](Legible(disk) /\ (aligned => AckedRecoverable))`, if no limit exceeds `MaxLine` |
| `PendingIsProtected` | `Spec => PendingProtected`, an action property |

    IndInv == Types /\ LogBounded /\ Sounds /\ Ingest /\ Aligned /\ Safe

`Sounds` holds of the store, of the readable log and of the log with its last line:
a sink is settled only by a delivery or by the end of its attempts. `Safe` holds while
`aligned`: what callers see is not ahead of the log (`Behind`) and every event that
either acknowledges has reached its sinks or is pending there (`Covered`). It includes
the event `ingest` has stored and not acknowledged, without which the step of the
acknowledgement would not be inductive. The entries are `Honest` (they settle what is
settled) and `Fresh` (they contradict nothing a caller has been told).

`VisibleDurable` and `NoSilentLoss` are about a log that `load` can read, and `Legible(disk)` is part of their
statement: a compaction may write a snapshot line that is longer than `load` accepts, and no proof can make up for
that. `SmallLogsStayLegible` says when it cannot happen: if the log is not allowed to be larger than a line
(`events.max_bytes` of at most 8 MiB; the default is 16 MiB), every log is legible and the exception is void.
Its invariant `LineFits` says that the snapshot line is within some configured limit, since `compactLocked` refuses a longer one.

`EventDeliveryProofs` proves for any stream, limits, attempts and faults:

| Theorem | Statement |
|---|---|
| `AttemptsStayBounded` | `Spec => []TypeOK`: types and the retry budget of alarms |
| `AlarmsAreSettledRightly` | `Spec => []AlarmSettledRightly` |
| `SettledAlarmsStay` | `Spec => AlarmFinal`, an action property |
| `AcknowledgedEvidenceIsKept` | `Spec => []AckedEvidenceKept`, if `"partial" \notin Faults` |

    IndInv == Types /\ Running /\ Position /\ Alarms /\ AlarmHand
    EvidenceInv == LogWhole /\ EvidenceSafe /\ IngestSafe /\ EvidenceHand

For alarms the point is `AlarmHand`: although the loop acts on a snapshot, each pair it
carries is still what the store has. Eviction takes no pending record, `Enqueue` leaves an
existing one alone, and no other goroutine writes alarm states. This fails for
evidence, where `ingest` writes them too: the loop's snapshot may be stale, and
`EvidenceHand` says only that the store has at least as many attempts as the loop
carries, or that the record is gone and its cursor acknowledged. `IngestSafe`
follows the staged file from its staging to the acknowledgement; `EvidenceSafe` says of
the store and of the log that what is acknowledged is staged, uploaded or given up, which
is what `Start` relies on when it removes files of no pending record.
The hypothesis of the last theorem is that of the run (`Faults = {}`): the finding below
about partial writes (*A partial write is not undone*) loses the record of an acknowledged
START, and with it its evidence. All other theorems hold for every set of `Faults`.

These proofs have changed the model where it was wrong or could not be reasoned about.
`Outbox!WithoutNewline` had kept an older last line in `disk.ext` than the one it wrote, so
a start after a lost newline read too little. `PressureOutcomes` describes the records
evicted for bytes as a set instead of evicting recursively, `UpdateRoom` names the
newest delivered UPDATE by what it is, and `Put` is the assignment to the map. A sum over a
set or a sequence would need induction over its fold: `EvidenceCache!Bytes` and
`EventEngine!Reported` therefore count the units in a union instead, which is the same
number, and `EventStream!Ascending` lists a snapshot by what it is, the increasing
sequence of its cursors.

### Only model-checked

* Liveness: `IngestProgress`, `AlarmSettles`, `EvidenceSettles`, `SessionEnds`, `SlotFreed`,
  `BoundaryArrives`, `ShutdownEnds`, `FrameReturned`. TLAPS proves no liveness under fairness.
* The two violation runs, `engine_ids` and `stream_order`, are counterexamples on one instance each.

## Assumptions about what is not in the repository

* GLib: `g_main_context_invoke` queues while another thread owns the context and calls
  at once when the caller can acquire it; the default context is drained in order.
* GStreamer: the appsink begins no call with a callback table that has been replaced.
* RockIVA: callbacks come only for frames the SDK has taken; an error of `PushFrame`
  means the frame was not taken, or that a callback has come for it, of a success, a
  failure or a release; a successful
  `DETECT_Release` ends the results, a successful `Release` waits for callbacks.
* File system: a rename or unlink is atomic, and durable once its directory is synced; before
  that each name may come back separately. File contents are synced before the rename.
* The wall clock does not run backwards within a lease.

Of the code itself the following is taken for granted or left out:

* Cursors stay below 2^53, up to which the journal's JSON numbers are exact and accepted, and the
  passages of an event below `UINT32_MAX`, where `saturating_add_u32` stops counting.
* A staged copy that is there passes its verification; a transient read error
  (`evidence.go:225-235`) would count as a staging failure.
* `EvidenceCache` has results in the order of their frames, `RockivaRunner` in any order; notes are looked up
  by presentation time, not by position.
* `evidence_max_bytes` (`evidence_cache.c:824`) is the same in every process. What an open finds under a lowered
  limit was kept under the old one; `WithinBudget` does not speak of that.

## Where code and documents disagree

Beside the two violation runs, whose lines are quoted in `PROJECT.json`:

* *Cursors may repeat.* `me_event_journal_open` restarts `next_cursor` at the last surviving record
  (`event_journal.c:439`); when pressure has evicted the newest one, an UPDATE, its cursor is given
  to another event after a restart, against "日志记录获得单调递增的投递游标"
  (`docs/people-flow-alarm/spec.md:175`). `EventStream` assumes unique cursors.
* *A partial write is not undone.* `appendLocked` (`outbox.go:415`) leaves what a failing
  write has written; the next entry continues that line, and an acknowledged event is
  then unreadable. `NoSilentLoss` therefore is `AckedRecoverable` while `aligned`.
* *A snapshot may be too long to be read.* `load` refuses a line of more than 8 MiB (`outbox.go:197-199`), while
  `compactLocked` writes all records as one line (`outbox.go:462`) and holds it against `maxBytes` only, 16 MiB
  by default (`outbox.go:26`). Behind such a compaction the daemon goes on, and no later start can open
  the log. `VisibleDurable` and `NoSilentLoss` are stated for a `Legible` log.
* *A failed reopen closes the outbox for good.* When the old file cannot be closed or the new one not opened behind the
  rename (`outbox.go:496-503`), `file` stays nil and every call returns `ErrClosed`. That is not one of the errors
  that end `Run` (`delivery.go:191-197`), so the subscription is retried for ever and nothing is delivered or settled.
* *A full outbox repeats its alarms.* When no entry fits behind the snapshot, `MarkAlarmSent` fails with `ErrCapacity`; the loop
  logs it (`delivery.go:388-390`) and sends the alarm again, without end. `Full` is this state.
* *Evidence can stay in `staging`*, for which two faults are enough. The comment at `outbox.go:924-926` says that the
  cursor stays unacknowledged until staging succeeds or is given up, so that a replay comes back to the record. (1) An `Ack` whose
  sync fails although its line reaches the disk has the event replayed; its evidence is uploaded meanwhile, the replay's
  staging failure overwrites `sent` (`delivery.go:251`), and a restart finds the cursor acknowledged. The
  server has the evidence then. (2) The append of a staging failure reports an error although its line
  reaches the disk; the replay succeeds, finds the record in memory as it was, and acknowledges it; a restart
  reads the state `staging` of an acknowledged record (`Misled`). `EvidenceSettles` excepts both.
* *A buffer can be dropped too early.* A detection that failed leaves no mark on its frame (`rockiva_runner.c:251-256`). When
  `PushFrame` then returns an error, the frame is taken for one the SDK never had and its buffer is unreferenced
  (`rockiva_runner.c:487-496`), against "Buffer 和 DMA-BUF 的生命周期保持到 RockIVA 释放回调确认完成"
  (`docs/people-flow-alarm/spec.md:97`). `BufferHeld` excepts these frames (`misreported`).
* *A thread may meet a freed runner.* `new_sample_callback` is counted only once it has the lock; a thread called before the
  callback table was replaced, and not yet at `rockiva_runner.c:413`, is not waited for (line 704), and lines 752-755
  free the lock it is about to take. `FreedQuiet` says that no other thread can.
* *A release that does not match keeps its frame.* `release_callback` skips a release with another fd, channel or address, and all
  behind the first `ROCKIVA_MAX_OBJ_NUM` (`rockiva_runner.c:342-363`); the buffer stays in the table, and the shutdown
  gives up at its deadline. `FrameReturned` excepts these frames (`ignored`).
* *Unreadable evidence is removed.* A metadata file or picture that cannot be read at open (`evidence_cache.c:613`) has no record, and
  the clean-up removes its files although the lease has not expired. `LeaseKept` leaves it out.
* *A failed branch is never released.* After a failed transition to NULL
  (`gst_runner.c:570`) the retried stop is answered NOT_FOUND, `session_mgr_stop` takes
  that for success, and the branch stays in the pipeline and blocks later starts,
  against `manager.go:111-112` ("so a later retry can release the actual media branch").
* *Teardown behind a failed runner shutdown.* When `me_rockiva_runner_free` gives up, `gst_runner_free`
  keeps its objects (`gst_runner.c:839-842`), but `engine_deinit` goes on to clear the event
  engine and close the journal, which a detection callback still on its way uses.
* `gst_runner_free` passes a NULL callback table for the evidence sink (`gst_runner.c:848`), which
  the comment at `rockiva_runner.c:699-700` says is not allowed. The pipeline is set to NULL
  behind it, so no JPEG comes after the cache is closed.
* *Evidence of an earlier life.* Event ids repeat after a restart (`engine_ids`), and capture returns the evidence
  it finds under the id. A new event can thus get the picture of an old one;
  `StagedPicture` is stated for pictures of the event's own process.
* When neither a publication succeeds nor its files can be removed, the next open may
  load them beyond `evidence_max_bytes`; `WithinBudget` is stated while `leftover` is false.

* `event_journal.h:27` says that an append "Returns 0 when durable". The result of the
  `ftruncate` at `event_journal.c:542` that undoes a failed append is not looked at, so
  a torn line may stay in front of later records, which the next recovery cuts off.
  `BoundaryDurable` is therefore stated for `trunc = "ok"`.
* `src/docs/people-flow-alarm/spec.md:139` has an abnormal restart close the recovered
  active event with reason restart (异常进程重启后…以重启原因为恢复到的活动状态收尾).
  Nothing recovers the engine's state, so after `Crash` a START stays without END.
* An UPDATE leaves `pending_track_ids` in place (`maybe_emit_update`), so a later UPDATE
  names the tracks of the earlier one as well. Lists of tracks are not modelled.
* `src/media_engine/README.md:170` lists among the tests that a failing stop "仍强制清理"
  (still cleans up); `session_mgr.c:163-167` keeps the session for a retry, and
  `tests/session_mgr_test.c:152` expects that. The model follows the code.
* `outbox.go:229` accepts a last entry without its newline and leaves the file as it
  is, so the next entry continues the line, and both are unreadable to the following
  start. This is the second way `aligned` becomes false.
* `MarkEvidenceAttempt` (`outbox.go:905`) sets a record to pending whatever its state.
  A loop with a snapshot from before a staging failure thus makes visible to itself
  what the comment at `outbox.go:924-925` says is not.

## Not modelled

Left out for good: codecs and configuration (conversions without state of
their own), SDP and XML (formatting; the SIP transactions are those of the sipgo
library), the RGA element and AIQ (vendor hardware behind a fixed contract), time
synchronisation (one exchange and a system call), the construction of the GStreamer
pipeline. For the two logs, file-system reordering beyond a torn last line is not
modelled: a rename that returned is taken to be durable, although `event_journal.c`
does not sync the directory; for the evidence files it is modelled. Alarm SNs are left
out, and with them their wrap-around.

## Plan

1. Done: `EventJournal`, `Outbox` and `OutboxDurability`, `EventDelivery`, `MediaSession`
   and `LiveSession`, `EventEngine` with `EventLifecycle` and `EventIdentity`, `EventStream`,
   `EvidenceCache`, `RockivaRunner`; the proofs of every safety property of the runs.
2. An abstract channel (every boundary at least once, in order) that journal, stream
   and outbox together implement, for runs in which nothing was overtaken. `InOrder` and
   `Covered` of the stream are its core; left are the restarts of cursors in
   `EventJournal`, which `EventStream` assumes away.
