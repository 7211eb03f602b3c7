---------------------------- MODULE ReplayQueue ----------------------------
(***************************************************************************)
(* The production replay path: API handlers that enqueue replay commands   *)
(* (broadcast.py, EventBus.enqueue_replay), the Redis keys they share with *)
(* the one replay worker, and that worker (worker.py, replay.py).          *)
(*                                                                         *)
(* Redis holds one lock per game, the command list and the processing      *)
(* list; each Redis command, and each Lua script, is one atomic step.      *)
(* Between two of them a handler or the worker can die, the connection can *)
(* fail, and the lock's 300 s time to live can run out.                    *)
(***************************************************************************)
EXTENDS Integers, SequencesExt

CONSTANTS
  Games,            \* the games the database knows
  Tokens,           \* uuid4 lock tokens; one that nothing refers to is fresh
  Requests,         \* API handlers that can be in enqueue_replay at once
  TickSettings,     \* values of settings.replay_tick_seconds, in 1/100 s
  EventCount,       \* [Games -> Nat]: play-by-play events of each game
  MaxApiFaults,     \* bound: handlers that fail or die half-way
  MaxWorkerFaults,  \* bound: worker crashes and failed publishes
  NoToken, NoCommand

ASSUME QueueConstants ==
  /\ TickSettings \subseteq Nat
  /\ EventCount \in [Games -> Nat]
  /\ MaxApiFaults \in Nat
  /\ MaxWorkerFaults \in Nat
  /\ NoToken \notin Tokens

Command == [game : Games, tick : TickSettings, token : Tokens]

ASSUME NoCommandIsNone == NoCommand \notin Command

VARIABLES
  lock,          \* courtvision:replay:lock:<game>
  queue,         \* courtvision:replay:commands, left end first
  processing,    \* courtvision:replay:processing, left end first
  request,       \* where each API handler is in enqueue_replay
  worker,        \* the worker process
  fate,          \* history: what became of the lock a token was set in
  apiFaults, workerFaults

vars == <<lock, queue, processing, request, worker, fate, apiFaults, workerFaults>>
redis == <<lock, queue, processing>>

(***************************************************************************)
(* Commands and the frames of a run                                        *)
(***************************************************************************)

\* ReplayCommand.tick_seconds: gt=0, le=10 seconds.
Valid(c) == c.tick > 0 /\ c.tick <= 1000

\* replay_started, one frame per event, replay_completed.
Frames(c) == EventCount[c.game] + 2

Live == ToSet(queue) \cup ToSet(processing)
InFlight == {request[r].command : r \in {q \in Requests : request[q].pc # "idle"}}
ToBeQueued == {request[r].command : r \in {q \in Requests : request[q].pc = "locked"}}

\* What the token's lock went through: "ordinary", "lapsed" (the key went away
\* while its command was live or still to be queued) or "stranded" (the key
\* stayed when nothing was left that would ever release it).
Fates == {"ordinary", "lapsed", "stranded"}

\* uuid4 never returns a token that anything still refers to.
Fresh(t) ==
  /\ \A g \in Games : lock[g] # t
  /\ \A c \in Live \cup InFlight : c.token # t

IdleRequest == [pc |-> "idle", command |-> NoCommand]

WorkerAt(pc, connected) ==
  [pc |-> pc, command |-> NoCommand, frame |-> 0, delivered |-> 0, connected |-> connected]

DownWorker == WorkerAt("down", FALSE)

Init ==
  /\ lock = [g \in Games |-> NoToken]
  /\ queue = <<>>
  /\ processing = <<>>
  /\ request = [r \in Requests |-> IdleRequest]
  /\ worker = DownWorker
  /\ fate = [t \in Tokens |-> "ordinary"]
  /\ apiFaults = 0
  /\ workerFaults = 0

(***************************************************************************)
(* API: EventBus.enqueue_replay                                            *)
(***************************************************************************)

\* SET lock token NX EX 300.  A handler that does not acquire the lock answers
\* already_running and has changed nothing.
AcquireLock(r, g, t, k) ==
  /\ request[r].pc = "idle"
  /\ lock[g] = NoToken
  /\ Fresh(t)
  /\ lock' = [lock EXCEPT ![g] = t]
  /\ request' = [request EXCEPT
       ![r] = [pc |-> "locked", command |-> [game |-> g, tick |-> k, token |-> t]]]
  /\ fate' = [fate EXCEPT ![t] = "ordinary"]
  /\ UNCHANGED <<queue, processing, worker, apiFaults, workerFaults>>

\* RPUSH puts the command at the right end.
PushCommand(r) ==
  /\ request[r].pc = "locked"
  /\ queue' = Append(queue, request[r].command)
  /\ request' = [request EXCEPT ![r] = IdleRequest]
  /\ UNCHANGED <<lock, processing, worker, fate, apiFaults, workerFaults>>

\* Mutant of PushFails: the handler tries RPUSH again.
PushIsRetried(r) ==
  /\ request[r].pc = "locked"
  /\ apiFaults < MaxApiFaults
  /\ apiFaults' = apiFaults + 1
  /\ \/ UNCHANGED queue
     \/ queue' = Append(queue, request[r].command)
  /\ UNCHANGED <<lock, processing, request, worker, fate, workerFaults>>

\* Mutant of PushFails: the exception goes on without the clean-up.
PushFailsUncleaned(r) ==
  /\ request[r].pc = "locked"
  /\ apiFaults < MaxApiFaults
  /\ apiFaults' = apiFaults + 1
  /\ request' = [request EXCEPT ![r] = IdleRequest]
  /\ UNCHANGED <<lock, queue, processing, worker, fate, workerFaults>>

\* RPUSH raises: Redis refused it, or applied it and the answer was lost.
PushFails(r) ==
  /\ request[r].pc = "locked"
  /\ apiFaults < MaxApiFaults
  /\ apiFaults' = apiFaults + 1
  /\ \/ UNCHANGED queue
     \/ queue' = Append(queue, request[r].command)
  /\ request' = [request EXCEPT ![r].pc = "cleanup"]
  /\ UNCHANGED <<lock, processing, worker, fate, workerFaults>>

\* _delete_lock_if_owned, then the exception goes on to the caller.  If the
\* command was pushed after all, it is live without its lock from here on.
CleanupLock(r) ==
  LET c == request[r].command
  IN /\ request[r].pc = "cleanup"
     /\ lock' = [lock EXCEPT ![c.game] = IF @ = c.token THEN NoToken ELSE @]
     /\ fate' = [fate EXCEPT ![c.token] = IF c \in Live THEN "lapsed" ELSE @]
     /\ request' = [request EXCEPT ![r] = IdleRequest]
     /\ UNCHANGED <<queue, processing, worker, apiFaults, workerFaults>>

\* The handler dies between SET and RPUSH, or _delete_lock_if_owned raises too.
AbandonRequest(r) ==
  LET c == request[r].command
  IN /\ request[r].pc \in {"locked", "cleanup"}
     /\ apiFaults < MaxApiFaults
     /\ apiFaults' = apiFaults + 1
     /\ request' = [request EXCEPT ![r] = IdleRequest]
     /\ fate' = [fate EXCEPT ![c.token] = IF c \in Live THEN @ ELSE "stranded"]
     /\ UNCHANGED <<lock, queue, processing, worker, workerFaults>>

\* The key's time to live, never renewed, runs out.
LockExpires(g) ==
  /\ lock[g] # NoToken
  /\ lock' = [lock EXCEPT ![g] = NoToken]
  /\ fate' = [fate EXCEPT ![lock[g]] =
       IF \E c \in Live \cup InFlight : c.token = lock[g] THEN "lapsed" ELSE @]
  /\ UNCHANGED <<queue, processing, request, worker, apiFaults, workerFaults>>

(***************************************************************************)
(* The replay worker: run_worker, next_replay_command,                     *)
(* process_replay_command, ReplayCoordinator.run_once                      *)
(***************************************************************************)

WorkerReady(connected) == worker' = WorkerAt("ready", connected)

\* A new process starts; without Redis it exits at once and stays down.
StartWorker ==
  /\ worker.pc = "down"
  /\ WorkerReady(TRUE)
  /\ UNCHANGED <<redis, request, fate, apiFaults, workerFaults>>

\* Mutant of AssertConnected: the loop goes round on a stopped bus.
LoopDisconnected ==
  /\ worker.pc = "ready"
  /\ ~worker.connected
  /\ UNCHANGED vars

\* next_replay_command asserts that the bus still has its connection.
AssertConnected ==
  /\ worker.pc = "ready"
  /\ ~worker.connected
  /\ worker' = DownWorker
  /\ UNCHANGED <<redis, request, fate, apiFaults, workerFaults>>

\* Mutant of LookForPending: go straight to BLMOVE.
SkipPending ==
  /\ worker.pc = "ready"
  /\ worker.connected
  /\ worker' = WorkerAt("claiming", TRUE)
  /\ UNCHANGED <<redis, request, fate, apiFaults, workerFaults>>

\* LINDEX processing -1: a command an earlier process left behind goes first.
LookForPending ==
  /\ worker.pc = "ready"
  /\ worker.connected
  /\ worker' = IF processing # <<>>
               THEN [WorkerAt("claimed", TRUE) EXCEPT !.command = Last(processing)]
               ELSE WorkerAt("claiming", TRUE)
  /\ UNCHANGED <<redis, request, fate, apiFaults, workerFaults>>

\* BLMOVE from the right end of the commands to the left end of processing.
ClaimNext ==
  /\ worker.pc = "claiming"
  /\ queue # <<>>
  /\ queue' = Front(queue)
  /\ processing' = <<Last(queue)>> \o processing
  /\ worker' = [worker EXCEPT !.pc = "claimed", !.command = Last(queue)]
  /\ UNCHANGED <<lock, request, fate, apiFaults, workerFaults>>

\* Mutant of ClaimTimesOut: without "if raw_command is None: continue".
ClaimNothing ==
  /\ worker.pc = "claiming"
  /\ queue = <<>>
  /\ worker' = [worker EXCEPT !.pc = "claimed"]
  /\ UNCHANGED <<redis, request, fate, apiFaults, workerFaults>>

\* BLMOVE returns nothing after 30 s and the loop goes round.
ClaimTimesOut ==
  /\ worker.pc = "claiming"
  /\ queue = <<>>
  /\ WorkerReady(TRUE)
  /\ UNCHANGED <<redis, request, fate, apiFaults, workerFaults>>

\* Mutant of DiscardCommand: the malformed command stays where it is.
SkipInvalid ==
  /\ worker.pc = "claimed"
  /\ ~Valid(worker.command)
  /\ WorkerReady(TRUE)
  /\ UNCHANGED <<redis, request, fate, apiFaults, workerFaults>>

\* ValidationError: discard_replay takes the command out of processing and
\* leaves its lock alone.
DiscardCommand ==
  LET c == worker.command
  IN /\ worker.pc = "claimed"
     /\ ~Valid(c)
     /\ processing' = RemoveFirst(processing, c)
     /\ fate' = [fate EXCEPT ![c.token] = IF lock[c.game] = c.token THEN "stranded" ELSE @]
     /\ WorkerReady(TRUE)
     /\ UNCHANGED <<lock, queue, request, apiFaults, workerFaults>>

StartRun ==
  /\ worker.pc = "claimed"
  /\ Valid(worker.command)
  /\ worker' = [worker EXCEPT !.pc = "running"]
  /\ UNCHANGED <<redis, request, fate, apiFaults, workerFaults>>

\* EventBus.publish: over Redis if the bus is connected; otherwise to the
\* sockets of this process, of which a worker has none.
PublishFrame ==
  /\ worker.pc = "running"
  /\ worker.frame < Frames(worker.command)
  /\ worker' = [worker EXCEPT !.frame = @ + 1,
                              !.delivered = IF worker.connected THEN @ + 1 ELSE @]
  /\ UNCHANGED <<redis, request, fate, apiFaults, workerFaults>>

\* Mutant of PublishFails: the exception is swallowed, the bus stays up.
PublishIsSwallowed ==
  /\ worker.pc = "running"
  /\ worker.frame < Frames(worker.command)
  /\ worker.connected
  /\ workerFaults < MaxWorkerFaults
  /\ workerFaults' = workerFaults + 1
  /\ worker' = [worker EXCEPT !.frame = @ + 1]
  /\ UNCHANGED <<redis, request, fate, apiFaults>>

\* PUBLISH raises: publish stops the bus and the run goes on without it.
PublishFails ==
  /\ worker.pc = "running"
  /\ worker.frame < Frames(worker.command)
  /\ worker.connected
  /\ workerFaults < MaxWorkerFaults
  /\ workerFaults' = workerFaults + 1
  /\ worker' = [worker EXCEPT !.frame = @ + 1, !.connected = FALSE]
  /\ UNCHANGED <<redis, request, fate, apiFaults>>

\* Mutant of Acknowledge: DEL without comparing the token.
AcknowledgeAnyLock ==
  LET c == worker.command
  IN /\ worker.pc = "running"
     /\ worker.frame = Frames(c)
     /\ processing' = RemoveFirst(processing, c)
     /\ lock' = [lock EXCEPT ![c.game] = NoToken]
     /\ WorkerReady(worker.connected)
     /\ UNCHANGED <<queue, request, fate, apiFaults, workerFaults>>

\* acknowledge_replay: LREM and the owned DEL in one script, or, when the bus
\* was stopped on the way, nothing at all.
Acknowledge ==
  LET c == worker.command
  IN /\ worker.pc = "running"
     /\ worker.frame = Frames(c)
     /\ IF worker.connected
        THEN /\ processing' = RemoveFirst(processing, c)
             /\ lock' = [lock EXCEPT ![c.game] = IF @ = c.token THEN NoToken ELSE @]
        ELSE UNCHANGED <<processing, lock>>
     /\ WorkerReady(worker.connected)
     /\ UNCHANGED <<queue, request, fate, apiFaults, workerFaults>>

\* Any other exception, or the end of the process, at any await.
CrashWorker ==
  /\ worker.pc # "down"
  /\ workerFaults < MaxWorkerFaults
  /\ workerFaults' = workerFaults + 1
  /\ worker' = DownWorker
  /\ UNCHANGED <<redis, request, fate, apiFaults>>

ApiStep ==
  \E r \in Requests :
    \/ \E g \in Games, t \in Tokens, k \in TickSettings : AcquireLock(r, g, t, k)
    \/ PushCommand(r)
    \/ PushFails(r)
    \/ CleanupLock(r)
    \/ AbandonRequest(r)

WorkerStep ==
  \/ StartWorker
  \/ AssertConnected
  \/ LookForPending
  \/ ClaimNext
  \/ ClaimTimesOut
  \/ DiscardCommand
  \/ StartRun
  \/ PublishFrame
  \/ Acknowledge

Next ==
  \/ ApiStep
  \/ \E g \in Games : LockExpires(g)
  \/ WorkerStep
  \/ PublishFails
  \/ CrashWorker

Spec == Init /\ [][Next]_vars

\* The worker process is scheduled, Redis answers it, and Render starts a new
\* process when one exits.  Nothing obliges a caller or a fault to happen.
FairSpec == Spec /\ WF_vars(WorkerStep)

(***************************************************************************)
(* Properties                                                              *)
(***************************************************************************)

Worker == [pc : {"down", "ready", "claiming", "claimed", "running"},
           command : Command \cup {NoCommand},
           frame : Nat, delivered : Nat, connected : BOOLEAN]

\* A handler past SET and a worker past its claim always have a command.
TypeOK ==
  /\ lock \in [Games -> Tokens \cup {NoToken}]
  /\ queue \in Seq(Command)
  /\ processing \in Seq(Command)
  /\ request \in [Requests -> [pc : {"idle", "locked", "cleanup"},
                               command : Command \cup {NoCommand}]]
  /\ \A r \in Requests : request[r].pc # "idle" => request[r].command \in Command
  /\ worker \in Worker
  /\ worker.pc \in {"claimed", "running"} => worker.command \in Command
  /\ fate \in [Tokens -> Fates]
  /\ apiFaults \in 0..MaxApiFaults
  /\ workerFaults \in 0..MaxWorkerFaults

\* The processing list never holds more than the one command the worker is
\* on, or left behind: pending work is recovered before anything is claimed.
OnePending ==
  /\ Len(processing) <= 1
  /\ worker.pc = "claiming" => processing = <<>>
  /\ worker.pc \in {"claimed", "running"} => processing = <<worker.command>>

\* No command is ever in Redis twice: restarts, failed pushes and lost
\* acknowledgements never make a second copy.
NoDuplicateCommand ==
  /\ \A i, j \in DOMAIN queue : queue[i].token = queue[j].token => i = j
  /\ \A i \in DOMAIN queue, j \in DOMAIN processing : queue[i].token # processing[j].token

\* Two commands of one game are alive together only if the lock of one of
\* them lapsed (TTL, or a push that was applied although it raised): no
\* acknowledgement or clean-up ever releases somebody else's lock.
ExclusiveReplay ==
  \A c, d \in Live \cup ToBeQueued :
    c.game = d.game /\ c # d => "lapsed" \in {fate[c.token], fate[d.token]}

\* A lock that is held has somebody left to release it, unless its handler
\* died half-way or its command was discarded: those wait for the TTL.
HeldLockHasOwner ==
  \A g \in Games :
    \/ lock[g] = NoToken
    \/ \E c \in Live \cup InFlight : c.game = g /\ c.token = lock[g]
    \/ fate[lock[g]] = "stranded"

\* What the queue promises (ReplayJobs), seen through the Redis lists: the
\* head of processing is the current job, and its progress is what this
\* process has delivered of it since it last started the run.
Jobs == INSTANCE ReplayJobs WITH
  Commands <- Command,
  FrameCount <- [c \in Command |-> Frames(c)],
  ValidCommands <- {c \in Command : Valid(c)},
  NoCommand <- NoCommand,
  pending <- Live,
  exclusive <- {c \in Live : fate[c.token] # "lapsed"},
  current <- IF processing = <<>> THEN NoCommand ELSE Last(processing),
  delivered <- worker.delivered

\* Every step of the queue is a step of ReplayJobs or changes none of its
\* variables: no accepted command is lost, and none is acknowledged unless one
\* uninterrupted run delivered all of its frames.
ImplementsJobs == Jobs!Spec

\* A command the worker has claimed leaves processing in the end, through any
\* finite number of crashes and failed publishes.
ClaimedIsResolved ==
  \A c \in Command : (c \in ToSet(processing)) ~> (c \notin ToSet(processing))

\* Once callers stop asking for replays, everything queued is replayed.
DrainsWhenQuiet ==
  <>[][~ApiStep]_vars => <>[](queue = <<>> /\ processing = <<>>)

\* README.md:247: "In production, replay commands are queued through
\* Redis-compatible storage and consumed by courtvision.worker": every command
\* that was queued is taken at some point.
QueuedIsConsumed ==
  \A c \in Command : (c \in ToSet(queue)) ~> (c \notin ToSet(queue))
=============================================================================
