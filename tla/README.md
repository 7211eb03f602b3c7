# CourtVision: TLA+ models, checks and proofs

This directory holds the formal model of CourtVision: the FastAPI backend
(`src/apps/api/courtvision`), its replay worker and the clients that follow a
game live. Every definition is translated from the source; `PROJECT.json`
(`map`) names the lines of each one.

## 1. Inventory

| component | state it keeps | operations | talks to |
|---|---|---|---|
| replay command queue (`broadcast.py`, `worker.py`, `replay.py`) | Redis: a lock per game (SET NX EX 300), a command list, a processing list; the worker's position in a run | `enqueue_replay`, `next_replay_command`, `process_replay_command`, `acknowledge_replay`, `discard_replay` | Redis, event bus |
| ingestion (`ingestion_service.py`, `repository.py`) | tables `games`, `play_by_play_events`, `shots` | `ingest_event`, `ingest_batch`, `publish_results`, `game_events` | PostgreSQL, event bus |
| WebSocket fan-out (`broadcast.py`, `api.py`) | registered sockets, highest sequence per socket, the Redis listener | `websocket_game`, `ConnectionManager.*`, `EventBus.publish`, `_listen` | clients, Redis pub/sub |
| in-process replay (`replay.py`) | one task per game | `start`, `run_once`, `_cleanup` | event bus |
| web hook (`use-live-game.ts`) | snapshot, timeline, last sequence, replay flag, reconnect counter | snapshot effect, socket effect, polling effect, `startReplay` | REST, WebSocket |
| iOS game detail (`GameDetailModel.swift`, `GameStream.swift`) | the same, plus the selected point and its shot-quality task | `load`, `connect`, `pollSnapshots`, `select` | REST, WebSocket |
| model registry (`model_registry.py`, `seed.py`) | `model_versions`, `model_activations` | `register_and_activate`, `rollback`, seeding | PostgreSQL (advisory lock), artifact store |
| artifact store (`artifact_store.py`) | files or S3 objects by type, version, hash | `publish`, `read_verified` | file system, S3 |
| model resolver (`inference.py`, `ml.py`) | cache of loaded models | `resolve`, predictions with fallback | registry, artifact store, threads |
| rate limiter (`rate_limit.py`, `main.py`) | counters in Redis or in memory | `check` | Redis |
| source polling (`sources.py`, `ingest.py`) | health record, empty polls, cursor | `poll_once`, `stream` | provider |
| REST endpoints, presenters, views, training, migrations, tools | none of their own | read, format, run once | |

How they interact: a caller starts a replay over REST; the API queues a command
in Redis; the worker takes it, reads the game's plays and publishes one envelope
after the other; each API process receives them through pub/sub and broadcasts
them to its sockets. Ingestion commits plays and publishes them the same way.
A client takes a snapshot over REST, then opens a socket with the last sequence
it has, gets a backlog and the broadcasts, and after a disconnect resumes by
sequence.

What is hard: the worker's crashes between claim and acknowledgement, the lock
that outlives or underlives its command, the lost answer of a Redis command,
sessions that allocate sequences at the same time, sources that are late,
repeated and corrected, two tasks that send on one socket, the gap between
reading a backlog and being registered, and clients that merge backlogs,
broadcasts and polls. `PROJECT.json` (`hazards`) lists each at its line.

What makes each component correct:

- queue: no accepted command is lost or doubled; a run that was interrupted
  starts again before any other; only the owner of a lock releases it; what is
  claimed is resolved.
- ingestion: sequences are unique and append-only in commit order; corrections
  follow what they correct; resuming by sequence is complete; the game clock is
  never turned back; nothing is published twice.
- fan-out: registered sockets have a running handler; the tracked sequence is
  the highest sent; nothing is missed but in the one window and after the
  listener ended.
- clients: every hole of the timeline below the resume point has a known reason;
  a replay that is shown is asked for, under way, or one whose end could not be
  heard; polling and listening exclude each other; the shot quality shown is the
  selected point's.
- registry and resolver: the activations form one chain that ends in the one
  active version; a promotion improves on what it replaces; a version keeps its
  artifact, and the store has it before a row names it; an answer comes from the
  verified artifact of the version that was active when it was asked for.
- services: one replay per game and process; each store of counts lets in its
  limit of a window's requests and, on top, no more than what was carried over
  into the window; the poller skips nothing, records what the health says, and
  catches up.

## 2. Plan

| step | module | what it adds | state |
|---|---|---|---|
| 1 | `ReplayQueue`, `ReplayJobs` | the production replay path and what it promises | checked, proved |
| 2 | `Ingestion` | the play log and its readers | checked, proved |
| 3 | `LiveStream` | sockets, backlog, broadcast, heartbeat, and the listener that ends | checked, proved |
| 4 | `LiveFeed`, `WebClient`, `IosClient`, composed in `Clients` | two clients over one feed, with drops, retries, replays and polling | checked, proved |
| 5 | `ModelRegistry` (with the artifact store and the seed) | promotion, rollback, seeding, partial failure | checked, proved |
| 6 | `ModelResolver` (extends `ModelRegistry`) | cache, eviction and fallback while the registry changes | checked, proved |
| 7 | `EventBus`, `RateLimiter`, `ReplayCoordinator`, `SourcePoller`, composed in `Services` | windows and fallback, the degraded replay path, retries and cursors | checked, proved |

What is left: an abstract play log that `Ingestion` implements, and `LiveFeed` as
an abstraction of `LiveStream` while the listener lives; the change to another
game in the web hook.

## 3. Modules

### ReplayQueue

State: `lock`, `queue`, `processing` are the Redis keys of `broadcast.py:16-19`;
`request` is where each API handler is inside `enqueue_replay`; `worker` is the
one worker process (`render.yaml:39-43` deploys one). One Redis command is one
action, because that is where other clients and failures come in between:
`AcquireLock` (SET NX), `PushCommand` / `PushFails` (RPUSH), `CleanupLock` (the
owned delete), `LookForPending` (LINDEX), `ClaimNext` / `ClaimTimesOut`
(BLMOVE), `PublishFrame` / `PublishFails`, `Acknowledge` (the Lua script),
`DiscardCommand` (LREM). `AbandonRequest` and `CrashWorker` end a handler or the
worker at any await, `LockExpires` is the key's time to live. `fate` is a
history variable: whether the lock of a token lapsed early or was left behind.

Left out: the game that is not in the database (the API checks it before it
queues and nothing deletes games), and what a frame contains. Redis is assumed
to keep its data. A failed publish delivers nothing, which is the worse case.

`ReplayJobs` is the abstract specification: pending commands, which of them
exclude a second one of their game, the current one and how many of its frames
were delivered. Its only way to complete a command is one uninterrupted run.

### Ingestion

State: `plays` (committed rows), `game` (the games row), `rowLock` (FOR UPDATE),
`writer` (each session: what it has flushed, the game as it sees it, its
results), `published`, `reader` (a client's copy). `Duplicate`, `Stale`, `Add`
and `ShotConflict` are the ways through `ingest_event`; `Commit` and `Rollback`
belong to the caller, which the repository shows in its tests only; the loop of
`publish_results` is `PublishNext`, which passes over the results that
`ToPublish` drops: only "added" and "corrected" ones have an envelope. `ReadGame` and `ReadEvents` are the two
statements of `live_snapshot` (and of a resume): under READ COMMITTED each sees
what is committed when it runs. PostgreSQL is the database modelled: SQLite has
no row lock but only one writer at a time.

A play keeps its id, revision, the source's sequence, period, clock, a score
(both scores and the status) and the shot it names (`source_shot_id`, or its own
id, if it is a shot). Payload validation, coordinates and fouls are left out:
nothing depends on them.

### LiveStream

State: `stored` and `publisher` (what is committed and announced; a replay of
the plays it has read, announced or not, which may start over at any time),
`bus` (`listening`, the pub/sub messages this process has not read, and, as
history, the plays that were published after it stopped listening), `connections` and `tracked` (the manager's two maps),
`fanout` (the broadcast under way), `handler` (`websocket_game` per socket),
`wire` (what each client was sent). A task gives way only at an await that takes
time, so a send is two steps and everything under the manager's lock is part of
the step around it: no critical section awaits anything, so the lock is never
contended. Sequences are 1, 2, ... in commit order, which `Ingestion`
establishes as `AppendOnly` (gaps change nothing here).

`ListenerFails` is the exception in `_listen` after which nothing starts it
again; without Redis at start-up it was never there. From then on this process
runs replays itself and `publish` hands a frame to its sockets at once, while
what other processes publish reaches none of them. A send that never returns is
a step that is not taken: the broadcast and everyone behind it wait, and the
safety properties hold meanwhile.

### LiveFeed, WebClient, IosClient, Clients

`LiveFeed` is what one client can rely on: `stored` plays and those of them that
are `unpublished`, the game's `commands` in Redis, the `replay` of each player
(the worker, and the API itself while it has no Redis) and the client's
`connection` (closed; its backlog read; registered). It is `Ingestion`,
`LiveStream` and `ReplayQueue` without their inner steps:

- `AnnouncePlay` is `publish_results`, after the commit and outside the row
  lock: of several sessions' plays any may be next. `LoseFrame` is a frame that
  reaches no API process, because its publisher ended first, its publish failed,
  or the listener has ended; a play is lost so as well as a frame of the
  worker's run.
- An accepted start is a command, or a run of the API itself (`AcceptReplay`).
  The worker goes back to what it was interrupted in (`InterruptReplay`,
  `ClaimReplay`), acknowledges it, or discards a command that is not valid
  (`DiscardReplay`); a run of the API that raises or ends with its process is
  gone (`FailReplay`). Each run sends the plays it read when it began.
- A frame is received when it is sent; one that is lost on the way counts as
  sent after the drop.

`WebClient` is `useLiveGame` for one game. `web` holds its state and refs,
`start` the `startReplay` call under way with the snapshot its closure holds. A
callback is one action: `WebReceive` is `onmessage` with all its branches,
`AfterClose` is `onclose`, `Poll` one round of the polling effect,
`ClickReplay`, `StartReturns` and `StartFails` the parts of `startReplay`
between its awaits. `IosClient` is `GameDetailModel` on the main actor, where a
step ends at an await: `ios` is the timeline and the position in `load`,
`connect` and `pollSnapshots`; `quality` and `tasks` are the selected point, its
shot-quality state and the requests that have not returned, cancelled or not.

`webLost` and `iosLost` are history: the plays that are missing for a known
reason. `NoUnknownHole` says that there are no others below the sequence the
client resumes after. The known reasons are behaviour of the code that the model
keeps:

- a publication that is lost: a page that hears play n+1 has passed n;
- the window between the read of the backlog and the registration;
- a backlog, a replay or an earlier play that a later frame overtook and a drop
  cut off;
- a play announced between a replay's read and its `replay_started`, which
  clears it;
- the API's own replay, when it fails before the play;
- the timeline that a refused start puts back (web only).

`web.unfinished` is history too: a replay ended and the page did not hear it,
because its `replay_completed` passed the page by or was never sent.

`Clients` chooses a browser or a phone, among the `Kinds` a run looks at; the two
never meet but in the feed.

### ModelRegistry, ModelResolver

State: `row` (`model_versions`), `activations`, `typeLock` (the advisory lock),
`object` (the store's keys, by version and digest), `disk` (the trainer's output
files), `backend`, `runtime` (the deployed library versions), `operator` (each
`register` or `rollback` transaction), `seeder`. One model type is enough: lock,
unique index and cache are all per type. A transaction's writes are invisible
until it commits, so its flushes and its commit are one action (`Promote`,
`Restore`, `SeedWrites`), which fails on the unique index or a unique key when
the rows it read have changed; its locked reads, the file's digest
and the store are actions of their own (`Gate`, `CheckArtifact`, `Publish`,
`VerifyTarget`). `Publish` is not undone when the transaction fails. `Fail` is
an exception or the end of the process at any await; `Damage`, `Upgrade` and
`Retrain` are what happens around the registry. The seed takes another lock than
the registry, and waits only for rows that are locked FOR UPDATE (`Locked`).

Artifacts are digests; metrics are three numbers per artifact; the checks of a
manifest that read no row (its contract, its runtime, its calibration) pass.

`ModelResolver` adds one API process: `cache`, `loadLock`, `request`.
`ReadActive` keeps of the row what `resolve` keeps, `UseCached` is the look-up
before and under the lock, `Load` the thread with its verification, `Evict`
the models of the type that are dropped. Whatever cannot be verified or loaded
ends in the benchmark.

### EventBus, RateLimiter, ReplayCoordinator, SourcePoller, Services

`EventBus` is `event_bus.redis` as the rest of the process sees it: made once,
forgotten when the listener fails (`redis`), with a server that comes and goes
(`answers`).

`RateLimiter` is `check` for the requests of one client (clients share no key):
`clock` is the window's number, `calls` the checks that wait for INCR or EXPIRE,
`shared` and `memory` the two stores; `tally` is history: the requests so far,
those of each bucket, what was refused, and what was let in. A request that is
decided on the count of an earlier window (`Decided`, when the clock has gone on)
is let in `late`, and counts for the window in which it is let in; `carried` is
how many requests waited for Redis when that window began. INCR may be applied
and its answer lost (`RedisRaises`), after which the request is counted in
memory. `LimitIsKept` says exactly what a window can see: the limit of its own
requests in each store, and on top at most what was carried over. A store that
forgot a count too early, or a key without its bucket, breaks it.

`ReplayCoordinator` is the degraded path: `starts` (requests at `_start_lock`
or inside it), `replays` (tasks), `registered` (`_tasks`). The done callback is
an action of its own (`Cleanup`), since the loop may turn to a request between a
task's end and its callback.

`SourcePoller` is `poll_once` with its retries, as `stream` and as
`run_ingestion` use it: `poller` (cursor, attempt, what was delivered, how it
ended, the recorded run), `health`, and `outage` as history. The health recorder
may raise at every record, which ends either use; `run_ingestion` then records a
failed run, or none if its commit fails too (`RowsFor`). An exception the health
is not told of (`FetchRaises`) fails the run as well: `RunAgreesWithHealth` says
that it leaves the health idle or retrying, never healthy.

`Services` is their disjoint union: `service` chooses which part runs. They
share nothing but the bus, so a product would only multiply the states.

## 4. Runs

| run | question | bounds and why they are enough |
|---|---|---|
| `replay_queue_safety` | is a command ever lost, doubled, or its lock released by a stranger; does the queue implement `ReplayJobs` | 2 games, 3 tokens, 2 handlers, a valid and an invalid tick, one fault of each kind: two commands of one game, one of another, a lapsed lock and a crash at every step |
| `replay_queue_liveness` | is what was claimed resolved, does the queue drain | 2 games, 2 tokens, 1 handler, one fault of the API and two of the worker |
| `replay_queue_starvation` | is every queued command taken (README.md:247) | violated without any fault: the worker takes the newest |
| `ingestion` | sequences, corrections, resume, game clock, publishing | 2 sessions of up to 2 events, a play, a correction that sets its clock back, the same correction sent with another shot, and a play of the next period whose sequence or shot collides with it; one client |
| `ingestion_score` | HANDOFF.md:97, out-of-order batches and the snapshot | violated: two plays at one clock reading |
| `live_stream` | registration, tracking, what a socket can miss | 2 sockets, 2 plays, 2 envelopes, 1 heartbeat each: a backlog frame, a broadcast and a close in every order, and a listener that fails between any two |
| `live_stream_heartbeat` | HANDOFF.md:337-340, heartbeats and the resume point | violated: heartbeat 0 for a client that resumed later |
| `clients` | what a timeline can miss, when a replay is shown, polling against the socket, the shot quality of the selection | 2 plays, a command in Redis and a run of the API, 2 drops, 1 retry before polling: publications in both orders or lost, a backlog overtaken and cut off, a replay interrupted and taken up again, discarded or failed, a start refused while another replay runs, polling after all of it; the phone also appears twice, with one play that has a shot and one that has none; `OneRunAtATime` (`MaxRuns` = 1) leaves one replay in its frames at a time |
| `web_refused_start` | HANDOFF.md:77-78, the timeline after a refused start | violated: plays the page had shown are gone |
| `models` | one chain of activations, improvement, immutable versions, artifacts before rows, verified answers, one loaded model | 2 operators, the baseline and 2 candidate versions, 2 artifacts, one output file, 3 activations, 1 failure, 2 API requests, each backend; `FewInFlight` (`MaxInFlight` = 2) leaves two transactions and requests under way at a time, which every pair of overlapping operations needs; a promotion on top of a promotion, a rollback of it, and the seed between any two statements |
| `models_rollback` | README.md:179-180, replaced models as rollback targets | violated: the seeded baseline has no artifact |
| `services` | one replay per game, the limit, the recorded run, the cursor, catching up | limits 2 and 1, 2 calls at once, 3 arrivals, 3 windows (a key expires, its successor is counted); 2 games, 2 requests, 4 tasks (a successor's entry, cleaned up late); page size 2 and 4 events (a full and a last page), 2 attempts, 6 errors with `FloatExponent` 2 (the interval overflows; 1023 in CPython) |

Symmetry: sockets in `live_stream`, sessions in `ingestion`, handlers and tokens
in `replay_queue_safety`, operators and candidate versions in `models`: `MCModels` gives both candidates nothing that tells them
apart, and the only use of `CHOOSE` on versions picks the one active version.
Runs with liveness use none.

Deadlock is checked except in the runs of `LiveStream`, `Clients`,
`ModelResolver` and `Services`, where the model stops when its bounds are
reached (sockets used, drops and appearances spent, activations made, stream
ended).

Fairness: `replay_queue_liveness` and `replay_queue_starvation` assume weak
fairness of the worker's own steps: Redis answers, the loop of `run_worker` goes
on, and a worker that exits is started again by its platform. `services` assumes
weak fairness of the poller's step: sleeps end, and a fetch returns or raises
(`poll_once` counts `httpx.TimeoutException` among its transient errors). Nothing is assumed of callers or of faults; the
fault budgets are finite, since no queue drains and no stream catches up under
failures that never end. `SourceIsFollowed` names the causes for which a stream
may end, among them an outage so long that its interval is no float.

## 5. What the violated runs show

- The command list is a stack (RPUSH and BLMOVE from the right): under steady
  load an old command is never taken.
- `_is_current_or_newer_state` lets an older play at the same clock reading
  overwrite the score.
- `connect` stores 0 for a new socket, so the `max(after_sequence, 0)` that
  `websocket_game` prepares as a default is never used.
- `rollback` refuses the fixture baseline, whose seeded row has no artifact
  (`model_registry.py:312`), although README.md:179-180 calls replaced models
  rollback targets and README.md:240-242 names that baseline in its example.
- A refused or failed `startReplay` restores the timeline of the snapshot its
  closure holds (`use-live-game.ts:204`): plays that came over the socket since
  are dropped, and the resume point does not go back for them, where
  HANDOFF.md:77-78 says that the last valid timeline is restored.

## 6. Proofs

`ReplayQueueProofs` proves, for any sets of games, tokens and handlers and any
number of faults:

- `TypeCorrect`, `PendingIsSingle`, `NeverDuplicated`, `ReplaysAreExclusive`,
  `LocksHaveOwners`: the five invariants of the safety run.

The assumptions are the module's own (`QueueConstants`, `NoCommandIsNone`: the
counts are naturals, the "none" values are none of the others). The invariants
are not inductive by themselves. `IInv` adds: a token that is anywhere belongs
to exactly one command and its game (`OwnTokens`, `LockOfGame`), a handler that
has not pushed yet holds its lock unless it lapsed (`HoldsLock`), and a worker
that runs is within its frames (`Progress`). Each action has a lemma that says
what it does to the commands that are alive; `StepKinds` sorts the actions by
that effect, and `Inductive` goes through the kinds.

`ReplayRefinementProofs` proves `QueueImplementsJobs`: initial states map to
initial states (`JobsInit`) and, under `IInv`, every step maps to a step of
`ReplayJobs` or a stutter (`JobsNext`).

`IngestionProofs` proves, for any feed, sessions and readers, the eight
properties of `ingestion`. `IInv` says of the committed rows, and of what each
session sees, that they are sound (`Sound`: there is a greatest sequence, each
source event has a greatest revision, keys are unique, corrections follow), that
the game's state is one of theirs and the latest (`IsLatestBoard`), that only
the holder of the row lock has staged rows and these are above the committed
ones (`StagedIsAbove`), that the results still to be published name different
rows, within a session (`ResultsAreDistinct`) and across sessions
(`ResultsAreDisjoint`), which are not published yet, and that a reader has rows
and a game state that were committed (`ReadersAreBehind`). The greatest elements
are part of the invariant, since that a finite set has one is an induction over
data. An earlier form of `SnapshotIsCovered` looked only at the plays the client
has: its proof failed at a correction that sets the clock back, where the games
row stays at the clock of the revision that was replaced. The feed of the run
now has such a correction, and `Covered` the revisions that the client's plays
have replaced.

`LiveStreamProofs` proves, for any sockets, plays, envelopes and heartbeats, the
four properties of `live_stream`. The registration is sound because a handler
unregisters on every way out (`HandlersAreSound`) and a broadcast only has
sockets that were registered (`FanoutIsSound`); the tracked sequence is the
highest sent but for a frame whose sender has yet to note it (`TrackedIsNoted`).
`PlaysAreAccounted` follows every play a client asked for: it was sent, is in
the backlog, in the channel, in the broadcast under way, passed by before the
registration, or was published where this process did not hear it.

`ModelProofs` proves, for any operators, versions, artifacts, requests and
backends, the seven properties of `models`. A transaction past its first read
holds the lock (`LockIsHeld`), so what it read still holds but for the one thing
the seed may do beside it: activate the baseline where nothing was active
(`OperatorsAreSound`, `SeederIsSound`). That, and the unique index, keep the
chain. `DigestsAreKept` says of each step that a version keeps its artifact;
with it what the cache holds (`CacheIsSound`) and what a request is about to
load (`RequestsAreSound`) stay the artifact of their version.

`LimiterProofs` has the limiter's invariant, for any limits and any finite set
of calls: a count stands for as many requests, each counted at most once per
store (`CountsAreBacked`), and a store counts what it let in as long as the
window lasts (`AdmittedAreCounted`). The second needs that the call which waits
for EXPIRE is the one with the first place. `LateInv` is about the calls of
earlier windows: those let in and those that still wait are together no more
than were carried over, since no call of an earlier window comes in later
(`CallsAreDue`). `ServicesProofs` adds the other two
parts and proves the five safety properties of `services` over its `Spec`. For
the coordinator: at most one request is past the lock (`OneReader`), no replay
of its game runs while it reads (`ReaderIsAlone`), and a running task is the
registered one (`RunningIsRegistered`), which is where the test in `_cleanup`
matters. For the poller: the events up to the cursor were delivered
(`CursorIsDelivered`), the health counts the failures in a row
(`FailuresAreCounted`), and a run that goes on has failed in every attempt so
far, without a success, and is not recorded (`RunIsPending`).

`ClientsProofs` proves, for games of any length and any number of replays,
drops, retries and appearances, the seven properties of `clients`, for any
number of runs at a time.

- The feed (`FeedInv`): `ToCome` is what the connection's backlog, ingestion and
  the two runs still bring. Each lemma `...Brings` says which plays a step leaves
  to come, and which it carries (`Carried`), heard or not.
- The timeline (`Accounted`): on a connection every committed play is shown,
  lost for a known reason, or to come, also the plays above the client's
  sequence: they become holes as soon as a live frame overtakes them, and
  publications overtake each other. Without a connection this holds of the plays
  up to that sequence, so resuming after it is right.
- The page's flag (`FlagInv`): a page with a connection has no retry due and
  does not poll, one that polls has no retry due, and a start that was accepted
  has its replay until the end of it was heard, or could not be. `Shapes` says which
  fields the records have, so that a lemma can speak of the fields a step leaves
  alone.
- The phone's shot quality (`QualityInv`): a result belongs to the point that
  was asked for, which is the selected one unless there is nothing to ask; of
  the requests under way only one that was not cancelled may answer, and that
  one is for the selected point.

`ClientsInv` adds that the client which was not chosen stays as it began.

The assumptions are those of the modules, which name what the code gives: the
"none" values are none of the others, the counts are naturals, a process
serves finitely many calls, the trainer has an output file.

Only model-checked: the liveness properties (`ClaimedIsResolved`,
`DrainsWhenQuiet`, `SourceIsFollowed`), which are out of this prover's reach, and
the statements that the `expect: violation` runs refute.

## 7. Not modelled

- `presenters.py`, `schemas.py` and the read-only endpoints: queries and
  formatting without state; the two reads of `live_snapshot` are in `Ingestion`.
- `prediction_runtime.py` and what an estimator computes: numerics.
  `ModelResolver` has the choice between the model and the benchmark.
- `config.py`, `database.py` and the lifespan of `main.py`: wiring. The one
  setting with a consequence, the replay tick, is in `ReplayQueue`.
- Migrations run once per deployment; the trainer and its evaluation are
  numerical and appear as a file that is written and a manifest that names it;
  the tools only read; views render; the end-to-end server is a test harness.
- In the web hook, the change to another game while it is mounted; the message
  texts of both clients.
- The lengths of intervals, delays and timeouts: they may pass at any time. The
  one number that matters, the exponent at which an interval is no float, is a
  constant.
- The validation of payloads by sources and ingestion: a payload is valid or
  raises.
- The seed of games, plays and predictions: `seed_database` writes them in the
  same transaction as the baseline row and nobody else writes them.
- Candidates are registered under names of `Candidates`, a set that leaves out
  the baseline's name in the runs.
