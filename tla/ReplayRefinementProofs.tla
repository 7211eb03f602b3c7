---------------------- MODULE ReplayRefinementProofs ----------------------
(***************************************************************************)
(* The Redis queue and its worker implement ReplayJobs: under the mapping  *)
(* Jobs of ReplayQueue, Init maps to Init and every step to a step or to a *)
(* stutter.                                                                *)
(***************************************************************************)
EXTENDS ReplayQueueProofs

\* The variables of ReplayJobs under the mapping.
exclusiveJobs == {c \in Live : fate[c.token] # "lapsed"}
currentJob == IF processing = <<>> THEN NoCommand ELSE Last(processing)
jobVars == <<Live, exclusiveJobs, currentJob, worker.delivered>>

\* The command the worker is on is the current job.
LEMMA CurrentJob ==
  ASSUME IInv, worker.pc \in {"claimed", "running"}
  PROVE  /\ currentJob = worker.command
         /\ worker.command \in Command
         /\ currentJob # NoCommand
<1>1. processing = <<worker.command>> /\ worker.command \in Command
  BY DEF IInv, OnePending, TypeOK
<1>2. processing # <<>> /\ Last(processing) = worker.command
  BY <1>1 DEF Last
<1> QED
  BY <1>1, <1>2, NoCommandIsNone DEF currentJob

\* A worker step that leaves Redis alone changes at most the progress.
LEMMA OnlyProgress ==
  ASSUME UNCHANGED <<redis, fate>>
  PROVE  UNCHANGED <<Live, exclusiveJobs, currentJob>>
BY DEF redis, Live, exclusiveJobs, currentJob

\* Losing the progress of the current job, or having none, is Interrupt or a
\* stutter.
LEMMA ProgressLost ==
  ASSUME IInv, UNCHANGED <<redis, fate>>, worker'.delivered = 0
  PROVE  Jobs!Interrupt \/ UNCHANGED jobVars
<1>1. UNCHANGED <<Live, exclusiveJobs, currentJob>>
  BY OnlyProgress
<1>2. CASE worker.pc = "running"
  BY <1>1, <1>2, CurrentJob DEF Jobs!Interrupt, exclusiveJobs, currentJob
<1>3. CASE worker.pc # "running"
  BY <1>1, <1>3 DEF IInv, Progress, jobVars
<1> QED
  BY <1>2, <1>3

\* A command that reaches the queue is accepted, exclusively unless its lock
\* lapsed first.
LEMMA PushAccepts ==
  ASSUME IInv, NEW r \in Requests, PushCommand(r) \/ PushFails(r)
  PROVE  (\E c \in Command : Jobs!Accept(c)) \/ UNCHANGED jobVars
<1> DEFINE c == request[r].command
<1>1. /\ c \in Command /\ c \in ToBeQueued
      /\ \A d \in Live : d.token # c.token
      /\ UNCHANGED <<fate, processing, worker>>
  BY PushEffect DEF IInv
<1>2. UNCHANGED <<currentJob, worker.delivered>>
  BY <1>1 DEF currentJob
<1>3. CASE Live' = Live
  BY <1>1, <1>2, <1>3 DEF jobVars, exclusiveJobs
<1>4. CASE Live' = Live \cup {c}
  <2>1. c \notin Live
    BY <1>1
  <2>2. CASE fate[c.token] = "lapsed"
    <3>1. exclusiveJobs' = exclusiveJobs
      BY <1>1, <1>4, <2>2 DEF exclusiveJobs
    <3> QED
      BY <1>1, <1>2, <1>4, <2>1, <3>1 DEF Jobs!Accept, exclusiveJobs, currentJob
  <2>3. CASE fate[c.token] # "lapsed"
    <3>1. exclusiveJobs' = exclusiveJobs \cup {c}
      BY <1>1, <1>4, <2>3 DEF exclusiveJobs
    <3>2. \A d \in exclusiveJobs : d.game # c.game
      BY <1>1, <2>3 DEF exclusiveJobs, IInv, HoldsLock
    <3> QED
      BY <1>1, <1>2, <1>4, <2>1, <3>1, <3>2 DEF Jobs!Accept, exclusiveJobs, currentJob
  <2> QED
    BY <2>2, <2>3
<1> QED
  BY <1>3, <1>4, PushEffect DEF IInv

\* Marking a token as lapsed costs at most one job its exclusivity.
LEMMA LapseOrStutter ==
  ASSUME IInv, NEW t \in Tokens, UNCHANGED <<queue, processing, worker>>,
         fate' = [fate EXCEPT ![t] = "lapsed"]
  PROVE  (\E c \in Command : Jobs!Lapse(c)) \/ UNCHANGED jobVars
<1>1. UNCHANGED <<Live, currentJob, worker.delivered>>
  BY DEF Live, currentJob
<1>2. \A c \in Live : c \in Command /\ c.token \in Tokens
  BY AliveAreCommands DEF IInv, Command
<1>3. exclusiveJobs' = {c \in exclusiveJobs : c.token # t}
  BY <1>1, <1>2 DEF exclusiveJobs, IInv, TypeOK
<1>4. CASE \E c \in exclusiveJobs : c.token = t
  <2>1. PICK c \in exclusiveJobs : c.token = t
    BY <1>4
  <2>2. \A d \in exclusiveJobs : d.token = t => d = c
    BY <2>1 DEF exclusiveJobs, IInv, OwnTokens
  <2>3. exclusiveJobs' = exclusiveJobs \ {c}
    BY <1>3, <2>1, <2>2
  <2>4. c \in Command
    BY <1>2, <2>1 DEF exclusiveJobs
  <2> QED
    BY <1>1, <2>1, <2>3, <2>4 DEF Jobs!Lapse, exclusiveJobs, currentJob
<1>5. CASE ~\E c \in exclusiveJobs : c.token = t
  BY <1>1, <1>3, <1>5 DEF jobVars
<1> QED
  BY <1>4, <1>5

\* Marking a token nobody alive has changes no job.
LEMMA DeadToken ==
  ASSUME IInv, UNCHANGED <<queue, processing, worker>>, NEW t, NEW f \in Fates,
         fate' = [fate EXCEPT ![t] = f], \A c \in Live : c.token # t
  PROVE  UNCHANGED jobVars
<1>1. UNCHANGED <<Live, currentJob, worker.delivered>>
  BY DEF Live, currentJob
<1>2. \A c \in Live : fate'[c.token] = fate[c.token]
  BY AliveAreCommands DEF IInv, TypeOK, Command
<1> QED
  BY <1>1, <1>2 DEF exclusiveJobs, jobVars

\* What leaves processing leaves the jobs.
LEMMA RemovalLeaves ==
  ASSUME IInv, worker.pc \in {"claimed", "running"}, UNCHANGED queue,
         processing' = RemoveFirst(processing, worker.command),
         worker'.delivered = 0,
         \A t \in Tokens \ {worker.command.token} : fate'[t] = fate[t]
  PROVE  Jobs!Leave
<1> DEFINE c == worker.command
<1>1. processing' = <<>> /\ c \in Live /\ Live' = Live \ {c}
  BY RemovalEffect DEF IInv
<1>2. \A d \in Live \ {c} : d.token # c.token /\ d.token \in Tokens
  BY <1>1, AliveAreCommands DEF IInv, OwnTokens, Command
<1>3. exclusiveJobs' = exclusiveJobs \ {c}
  BY <1>1, <1>2 DEF exclusiveJobs
<1>4. currentJob = c /\ currentJob' = NoCommand
  BY <1>1, CurrentJob DEF currentJob
<1> QED
  BY <1>1, <1>3, <1>4 DEF Jobs!Leave, exclusiveJobs, currentJob

\* The queue starts with no jobs.
LEMMA JobsInit == Init => Jobs!Init
<1> SUFFICES ASSUME Init PROVE Jobs!Init
  OBVIOUS
<1>1. Live = {} /\ worker.delivered = 0
  BY ToSetOfShort DEF Init, Live, DownWorker, WorkerAt
<1> QED
  BY <1>1 DEF Init, Jobs!Init

\* Every step of the queue is a step of the jobs, or none.
LEMMA JobsNext ==
  ASSUME IInv, [Next]_vars
  PROVE  Jobs!Next \/ UNCHANGED jobVars
<1>1. ASSUME NEW r \in Requests, NEW g \in Games, NEW t \in Tokens, NEW k \in TickSettings,
             AcquireLock(r, g, t, k)
      PROVE  UNCHANGED jobVars
  BY <1>1, DeadToken DEF AcquireLock, Fresh, Fates
<1>2. ASSUME NEW r \in Requests, PushCommand(r) \/ PushFails(r)
      PROVE  Jobs!Next \/ UNCHANGED jobVars
  BY <1>2, PushAccepts DEF Jobs!Next
<1>3. ASSUME NEW r \in Requests, CleanupLock(r)
      PROVE  Jobs!Next \/ UNCHANGED jobVars
  <2> DEFINE c == request[r].command
  <2>1. c \in Command /\ c.token \in Tokens /\ UNCHANGED <<queue, processing, worker>>
    BY <1>3, EndEffect DEF CleanupLock, IInv, Command
  <2>2. CASE c \in Live
    <3>1. fate' = [fate EXCEPT ![c.token] = "lapsed"]
      BY <1>3, <2>2 DEF CleanupLock
    <3> QED
      BY <2>1, <3>1, LapseOrStutter DEF Jobs!Next
  <2>3. CASE c \notin Live
    <3>1. fate' = fate
      BY <1>3, <2>3 DEF CleanupLock, IInv, TypeOK
    <3> QED
      BY <2>1, <3>1 DEF jobVars, Live, exclusiveJobs, currentJob
  <2> QED
    BY <2>2, <2>3
<1>4. ASSUME NEW r \in Requests, AbandonRequest(r)
      PROVE  UNCHANGED jobVars
  <2> DEFINE c == request[r].command
  <2>1. UNCHANGED <<queue, processing, worker>>
    BY <1>4 DEF AbandonRequest
  <2>2. CASE c \in Live
    <3>1. fate' = fate
      BY <1>4, <2>2 DEF AbandonRequest, IInv, TypeOK
    <3> QED
      BY <2>1, <3>1 DEF jobVars, Live, exclusiveJobs, currentJob
  <2>3. CASE c \notin Live
    <3>1. \A d \in Live : d.token # c.token
      BY <1>4, <2>3 DEF AbandonRequest, IInv, OwnTokens, Busy
    <3>2. fate' = [fate EXCEPT ![c.token] = "stranded"]
      BY <1>4, <2>3 DEF AbandonRequest
    <3> QED
      BY <2>1, <3>1, <3>2, DeadToken DEF Fates
  <2> QED
    BY <2>2, <2>3
<1>5. ASSUME NEW g \in Games, LockExpires(g)
      PROVE  Jobs!Next \/ UNCHANGED jobVars
  <2>1. lock[g] \in Tokens /\ UNCHANGED <<queue, processing, worker>>
    BY <1>5 DEF LockExpires, IInv, TypeOK
  <2>2. CASE fate' = [fate EXCEPT ![lock[g]] = "lapsed"]
    BY <2>1, <2>2, LapseOrStutter DEF Jobs!Next
  <2>3. CASE fate' = fate
    BY <2>1, <2>3 DEF jobVars, Live, exclusiveJobs, currentJob
  <2> QED
    BY <1>5, <2>2, <2>3 DEF LockExpires, IInv, TypeOK
<1>6. CASE StartWorker \/ AssertConnected \/ ClaimTimesOut \/ LookForPending \/ CrashWorker
  <2>1. UNCHANGED <<redis, fate>> /\ worker'.delivered = 0
    BY <1>6 DEF StartWorker, AssertConnected, ClaimTimesOut, LookForPending, CrashWorker,
       WorkerReady, DownWorker, WorkerAt
  <2> QED
    BY <2>1, ProgressLost DEF Jobs!Next
<1>7. CASE ClaimNext
  <2>1. /\ processing = <<>> /\ processing' = <<Last(queue)>>
        /\ Last(queue) \in Live /\ Live' = Live
    BY <1>7, ClaimEffect DEF IInv
  <2>2. currentJob = NoCommand /\ currentJob' = Last(queue)
    BY <2>1 DEF currentJob, Last
  <2>3. worker'.delivered = 0
    BY <1>7 DEF ClaimNext, IInv, Progress, TypeOK, Worker
  <2>4. exclusiveJobs' = exclusiveJobs
    BY <1>7, <2>1 DEF ClaimNext, exclusiveJobs
  <2>5. Last(queue) \in Command
    BY <2>1, AliveAreCommands DEF IInv
  <2> QED
    BY <2>1, <2>2, <2>3, <2>4, <2>5 DEF Jobs!Next, Jobs!Begin, exclusiveJobs, currentJob
<1>8. CASE DiscardCommand
  <2>1. Jobs!Leave
    <3>1. \A t \in Tokens \ {worker.command.token} : fate'[t] = fate[t]
      BY <1>8 DEF DiscardCommand, IInv, TypeOK
    <3>2. worker'.delivered = 0
      BY <1>8 DEF DiscardCommand, WorkerReady, WorkerAt
    <3> QED
      BY <1>8, <3>1, <3>2, RemovalLeaves DEF DiscardCommand
  <2>2. currentJob \notin {c \in Command : Valid(c)} /\ currentJob # NoCommand
    BY <1>8, CurrentJob DEF DiscardCommand
  <2> QED
    BY <2>1, <2>2 DEF Jobs!Next, Jobs!Drop, currentJob
<1>9. CASE StartRun
  <2>1. UNCHANGED <<redis, fate>> /\ worker'.delivered = 0
    BY <1>9 DEF StartRun, IInv, Progress, TypeOK, Worker
  <2> QED
    BY <2>1, ProgressLost DEF Jobs!Next
<1>10. CASE PublishFrame
  <2>1. UNCHANGED <<Live, exclusiveJobs, currentJob>>
    BY <1>10, OnlyProgress DEF PublishFrame
  <2>2. CASE ~worker.connected
    <3>1. worker'.delivered = worker.delivered
      BY <1>10, <2>2 DEF PublishFrame, IInv, TypeOK, Worker
    <3> QED
      BY <2>1, <3>1 DEF jobVars
  <2>3. CASE worker.connected
    <3>1. worker'.delivered = worker.delivered + 1 /\ worker.delivered = worker.frame
      BY <1>10, <2>3 DEF PublishFrame, IInv, Progress, TypeOK, Worker
    <3>2. /\ currentJob = worker.command /\ worker.command \in Command
          /\ currentJob # NoCommand
      BY <1>10, CurrentJob DEF PublishFrame
    <3>3. worker.delivered < [c \in Command |-> Frames(c)][currentJob]
      BY <1>10, <3>1, <3>2 DEF PublishFrame
    <3> QED
      BY <2>1, <3>1, <3>2, <3>3 DEF Jobs!Next, Jobs!Deliver, exclusiveJobs, currentJob
  <2> QED
    BY <2>2, <2>3
<1>11. CASE PublishFails
  <2>1. UNCHANGED <<Live, exclusiveJobs, currentJob>>
    BY <1>11, OnlyProgress DEF PublishFails
  <2>2. worker'.delivered = worker.delivered
    BY <1>11 DEF PublishFails, IInv, TypeOK, Worker
  <2> QED
    BY <2>1, <2>2 DEF jobVars
<1>12. CASE Acknowledge
  <2>1. worker'.delivered = 0 /\ fate' = fate /\ UNCHANGED queue
    BY <1>12 DEF Acknowledge, WorkerReady, WorkerAt
  <2>2. CASE ~worker.connected
    BY <1>12, <2>1, <2>2, ProgressLost DEF Acknowledge, redis, Jobs!Next
  <2>3. CASE worker.connected
    <3>1. Jobs!Leave
      BY <1>12, <2>1, <2>3, RemovalLeaves DEF Acknowledge
    <3>2. /\ currentJob = worker.command /\ worker.command \in Command
          /\ currentJob # NoCommand
      BY <1>12, CurrentJob DEF Acknowledge
    <3>3. worker.delivered = [c \in Command |-> Frames(c)][currentJob]
      BY <1>12, <2>3, <3>2 DEF Acknowledge, IInv, Progress
    <3> QED
      BY <3>1, <3>2, <3>3 DEF Jobs!Next, Jobs!Complete, currentJob
  <2> QED
    BY <2>2, <2>3
<1>13. CASE UNCHANGED vars
  BY <1>13 DEF vars, jobVars, Live, exclusiveJobs, currentJob
<1> QED
  BY <1>1, <1>2, <1>3, <1>4, <1>5, <1>6, <1>7, <1>8, <1>9, <1>10, <1>11, <1>12, <1>13
     DEF Next, ApiStep, WorkerStep

\* README.md:252: no accepted command is lost whatever crashes, an interrupted
\* one is replayed from the beginning before any other, and none is
\* acknowledged unless one run delivered all of its frames.
THEOREM QueueImplementsJobs == Spec => ImplementsJobs
<1>1. UNCHANGED jobVars <=> UNCHANGED Jobs!vars
  BY DEF jobVars, Jobs!vars, exclusiveJobs, currentJob
<1>2. IInv /\ [Next]_vars => [Jobs!Next]_(Jobs!vars)
  BY <1>1, JobsNext
<1> QED
  BY <1>2, JobsInit, Inductive, PTL DEF Spec, ImplementsJobs, Jobs!Spec
=============================================================================
