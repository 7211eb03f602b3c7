------------------------- MODULE ReplayQueueProofs -------------------------
(***************************************************************************)
(* Proofs about ReplayQueue for every set of games, tokens, handlers and   *)
(* tick settings, every number of events and every number of faults.       *)
(***************************************************************************)
EXTENDS ReplayQueue, SequenceTheorems, WellFoundedInduction, TLAPS

(***************************************************************************)
(* Lists                                                                   *)
(***************************************************************************)

\* RPUSH adds exactly the pushed command.
LEMMA ToSetAppend ==
  ASSUME NEW S, NEW s \in Seq(S), NEW x \in S
  PROVE  ToSet(Append(s, x)) = ToSet(s) \cup {x}
<1> DEFINE t == Append(s, x)
<1>1. /\ Len(t) = Len(s) + 1
      /\ \A i \in 1..Len(s) : t[i] = s[i]
      /\ t[Len(s) + 1] = x
  BY AppendProperties
<1>2. DOMAIN s = 1..Len(s) /\ DOMAIN t = 1..Len(s) + 1 /\ Len(s) \in Nat
  BY <1>1, LenProperties, AppendProperties
<1> QED
  BY <1>1, <1>2 DEF ToSet

\* Taking the right end of a list leaves the rest of it.
LEMMA FrontAndLast ==
  ASSUME NEW S, NEW s \in Seq(S), s # <<>>
  PROVE  /\ Last(s) \in S
         /\ Front(s) \in Seq(S)
         /\ Len(s) >= 1
         /\ Last(s) = s[Len(s)]
         /\ Len(Front(s)) = Len(s) - 1
         /\ \A i \in 1..Len(s) - 1 : Front(s)[i] = s[i]
         /\ ToSet(s) = ToSet(Front(s)) \cup {Last(s)}
<1>1. Len(s) \in Nat /\ Len(s) >= 1 /\ DOMAIN s = 1..Len(s) /\ \A i \in 1..Len(s) : s[i] \in S
  BY EmptySeq, LenProperties, ElementOfSeq
<1>2. /\ Front(s) \in Seq(S)
      /\ Len(Front(s)) = Len(s) - 1
      /\ \A i \in 1..Len(s) - 1 : Front(s)[i] = s[i]
  BY <1>1 DEF Front
<1>3. Last(s) \in S /\ Last(s) = s[Len(s)]
  BY <1>1 DEF Last
<1>4. DOMAIN Front(s) = 1..Len(s) - 1
  BY <1>2, LenProperties
<1>5. ToSet(s) = ToSet(Front(s)) \cup {Last(s)}
  BY <1>1, <1>2, <1>3, <1>4 DEF ToSet
<1> QED
  BY <1>1, <1>2, <1>3, <1>5

\* A non-empty set of naturals has a least element.
LEMMA LeastOfSet ==
  ASSUME NEW I, I \subseteq Nat, I # {}
  PROVE  \E m \in I : \A i \in I : m <= i
<1> DEFINE LessThan == OpToRel(<, Nat)
<1>1. PICK m \in I : \A i \in I : <<i, m>> \notin LessThan
  BY NatLessThanWellFounded, WFMin
<1>2. \A i \in I : ~(i < m)
  BY <1>1 DEF OpToRel
<1> QED
  BY <1>2

\* LREM of the only command of a list empties it.
LEMMA RemoveOnly ==
  ASSUME NEW S, NEW c \in S
  PROVE  RemoveFirst(<<c>>, c) = <<>>
<1> DEFINE s == <<c>>
<1>1. s \in Seq(S) /\ Len(s) = 1 /\ s[1] = c
  OBVIOUS
<1>2. {i \in 1..Len(s) : s[i] = c} = {1}
  BY <1>1
<1>3. SelectInSeq(s, LAMBDA v : v = c) = 1
  BY <1>2 DEF SelectInSeq, Min
<1>4. RemoveAt(s, 1) = <<>>
  BY <1>1 DEF RemoveAt
<1> QED
  BY <1>1, <1>3, <1>4 DEF RemoveFirst

\* LREM leaves a list of commands.
LEMMA RemoveFirstType ==
  ASSUME NEW S, NEW s \in Seq(S), NEW c
  PROVE  RemoveFirst(s, c) \in Seq(S)
<1>1. CASE \E i \in 1..Len(s) : s[i] = c
  <2> DEFINE I == {i \in 1..Len(s) : s[i] = c}
  <2>1. PICK m \in I : \A i \in I : m <= i
    <3>1. I # {} /\ I \subseteq Nat
      BY <1>1, LenProperties
    <3> QED
      BY <3>1, LeastOfSet
  <2>2. Min(I) \in I
    BY <2>1 DEF Min
  <2>3. SelectInSeq(s, LAMBDA v : v = c) \in 1..Len(s)
    BY <1>1, <2>2 DEF SelectInSeq
  <2>4. \A i \in 1..Len(s) : RemoveAt(s, i) \in Seq(S)
    BY DEF RemoveAt
  <2> QED
    BY <1>1, <2>3, <2>4 DEF RemoveFirst
<1>2. CASE ~\E i \in 1..Len(s) : s[i] = c
  BY <1>2 DEF RemoveFirst
<1> QED
  BY <1>1, <1>2

\* The lists of no and of one command.
LEMMA ToSetOfShort ==
  /\ ToSet(<<>>) = {}
  /\ \A c : ToSet(<<c>>) = {c}
BY DEF ToSet

(***************************************************************************)
(* Type correctness                                                        *)
(***************************************************************************)

\* A process between commands.
LEMMA WorkerAtType ==
  \A b \in BOOLEAN, pc \in {"down", "ready", "claiming"} :
    LET w == WorkerAt(pc, b)
    IN w \in Worker /\ w.pc = pc /\ w.delivered = 0 /\ w.connected = b
BY DEF WorkerAt, Worker

\* The initial state is well typed.
LEMMA TypeInit == Init => TypeOK
<1> SUFFICES ASSUME Init PROVE TypeOK
  OBVIOUS
<1>1. worker \in Worker /\ worker.pc = "down"
  BY WorkerAtType DEF Init, DownWorker
<1>2. /\ request \in [Requests -> [pc : {"idle", "locked", "cleanup"},
                                 command : Command \cup {NoCommand}]]
      /\ \A r \in Requests : request[r].pc = "idle"
  BY DEF Init, IdleRequest
<1>3. apiFaults \in 0..MaxApiFaults /\ workerFaults \in 0..MaxWorkerFaults
  BY QueueConstants DEF Init, QueueConstants
<1> QED
  BY <1>1, <1>2, <1>3 DEF Init, TypeOK, Fates

\* Every step keeps the types.
LEMMA TypeNext == TypeOK /\ [Next]_vars => TypeOK'
<1> SUFFICES ASSUME TypeOK, [Next]_vars
             PROVE  TypeOK'
  OBVIOUS
<1> USE QueueConstants DEF QueueConstants
<1>1. ASSUME NEW r \in Requests, NEW g \in Games, NEW t \in Tokens, NEW k \in TickSettings,
             AcquireLock(r, g, t, k)
      PROVE  TypeOK'
  BY <1>1 DEF AcquireLock, TypeOK, Command, Fates
<1>2. ASSUME NEW r \in Requests, PushCommand(r)
      PROVE  TypeOK'
  <2>1. request[r].command \in Command
    BY <1>2 DEF PushCommand, TypeOK
  <2>2. queue' \in Seq(Command)
    BY <1>2, <2>1, AppendProperties DEF PushCommand, TypeOK
  <2> QED
    BY <1>2, <2>2 DEF PushCommand, IdleRequest, TypeOK
<1>3. ASSUME NEW r \in Requests, PushFails(r)
      PROVE  TypeOK'
  <2>1. request[r].command \in Command
    BY <1>3 DEF PushFails, TypeOK
  <2>2. queue' \in Seq(Command)
    <3>1. queue' \in {queue, Append(queue, request[r].command)}
      BY <1>3 DEF PushFails
    <3> QED
      BY <2>1, <3>1, AppendProperties DEF TypeOK
  <2> QED
    BY <1>3, <2>1, <2>2 DEF PushFails, TypeOK
<1>4. ASSUME NEW r \in Requests, CleanupLock(r)
      PROVE  TypeOK'
  <2>1. request[r].command \in Command
    BY <1>4 DEF CleanupLock, TypeOK
  <2> QED
    BY <1>4, <2>1 DEF CleanupLock, IdleRequest, TypeOK, Command, Fates
<1>5. ASSUME NEW r \in Requests, AbandonRequest(r)
      PROVE  TypeOK'
  <2>1. request[r].command \in Command
    BY <1>5 DEF AbandonRequest, TypeOK
  <2> QED
    BY <1>5, <2>1 DEF AbandonRequest, IdleRequest, TypeOK, Command, Fates
<1>6. ASSUME NEW g \in Games, LockExpires(g)
      PROVE  TypeOK'
  BY <1>6 DEF LockExpires, TypeOK, Fates
<1>7. CASE StartWorker
  BY <1>7, WorkerAtType DEF StartWorker, WorkerReady, redis, TypeOK
<1>8. CASE AssertConnected
  BY <1>8, WorkerAtType DEF AssertConnected, DownWorker, redis, TypeOK
<1>9. CASE LookForPending
  <2>1. CASE processing # <<>>
    <3>1. Last(processing) \in Command
      BY <2>1, FrontAndLast DEF TypeOK
    <3> QED
      BY <1>9, <2>1, <3>1 DEF LookForPending, WorkerAt, redis, TypeOK, Worker
  <2>2. CASE processing = <<>>
    BY <1>9, <2>2, WorkerAtType DEF LookForPending, redis, TypeOK
  <2> QED
    BY <2>1, <2>2
<1>10. CASE ClaimNext
  <2>1. Last(queue) \in Command /\ Front(queue) \in Seq(Command)
    BY <1>10, FrontAndLast DEF ClaimNext, TypeOK
  <2>2. processing' \in Seq(Command)
    BY <1>10, <2>1, ConcatProperties DEF ClaimNext, TypeOK
  <2> QED
    BY <1>10, <2>1, <2>2 DEF ClaimNext, TypeOK, Worker
<1>11. CASE ClaimTimesOut
  BY <1>11, WorkerAtType DEF ClaimTimesOut, WorkerReady, redis, TypeOK
<1>12. CASE DiscardCommand
  <2>1. worker.command \in Command
    BY <1>12 DEF DiscardCommand, TypeOK
  <2>2. processing' \in Seq(Command)
    BY <1>12, <2>1, RemoveFirstType DEF DiscardCommand, TypeOK
  <2> QED
    BY <1>12, <2>1, <2>2, WorkerAtType DEF DiscardCommand, WorkerReady, TypeOK, Command, Fates
<1>13. CASE StartRun
  BY <1>13 DEF StartRun, redis, TypeOK, Worker
<1>14. CASE PublishFrame
  <2>1. /\ worker.frame + 1 \in Nat
        /\ (IF worker.connected THEN worker.delivered + 1 ELSE worker.delivered) \in Nat
    BY DEF TypeOK, Worker
  <2>2. worker' \in Worker /\ worker'.pc = "running" /\ worker'.command = worker.command
    BY <1>14, <2>1 DEF PublishFrame, TypeOK, Worker
  <2> QED
    BY <1>14, <2>2 DEF PublishFrame, redis, TypeOK
<1>15. CASE Acknowledge
  <2>1. worker.command \in Command /\ worker.connected \in BOOLEAN
    BY <1>15 DEF Acknowledge, TypeOK, Worker
  <2>2. processing' \in Seq(Command)
    BY <1>15, <2>1, RemoveFirstType DEF Acknowledge, TypeOK
  <2>3. worker' \in Worker /\ worker'.pc = "ready"
    BY <1>15, <2>1, WorkerAtType DEF Acknowledge, WorkerReady
  <2>4. lock' \in [Games -> Tokens \cup {NoToken}]
    BY <1>15, <2>1 DEF Acknowledge, TypeOK
  <2> QED
    BY <1>15, <2>2, <2>3, <2>4 DEF Acknowledge, TypeOK
<1>16. CASE PublishFails
  <2>1. worker.frame + 1 \in Nat
    BY DEF TypeOK, Worker
  <2>2. worker' \in Worker /\ worker'.pc = "running" /\ worker'.command = worker.command
    BY <1>16, <2>1 DEF PublishFails, TypeOK, Worker
  <2> QED
    BY <1>16, <2>2 DEF PublishFails, redis, TypeOK
<1>17. CASE CrashWorker
  <2>1. worker' \in Worker /\ worker'.pc = "down"
    BY <1>17, WorkerAtType DEF CrashWorker, DownWorker
  <2>2. workerFaults' \in 0..MaxWorkerFaults
    BY <1>17 DEF CrashWorker, TypeOK
  <2> QED
    BY <1>17, <2>1, <2>2 DEF CrashWorker, redis, TypeOK
<1>18. CASE UNCHANGED vars
  BY <1>18 DEF vars, TypeOK
<1> QED
  BY <1>1, <1>2, <1>3, <1>4, <1>5, <1>6, <1>7, <1>8, <1>9, <1>10, <1>11, <1>12,
     <1>13, <1>14, <1>15, <1>16, <1>17, <1>18
     DEF Next, ApiStep, WorkerStep

\* Every variable keeps the values the code can give it, for every number of
\* games, tokens, handlers, events and faults.
THEOREM TypeCorrect == Spec => []TypeOK
BY TypeInit, TypeNext, PTL DEF Spec

(***************************************************************************)
(* The inductive invariant                                                 *)
(*                                                                         *)
(* None of OnePending, NoDuplicateCommand, ExclusiveReplay and             *)
(* HeldLockHasOwner but the first is inductive: what carries them is that  *)
(* a token belongs to one command, one handler and one game (OwnTokens,    *)
(* LockOfGame), that a command whose lock has not lapsed holds it          *)
(* (HoldsLock), and how far the worker has got (Progress).                 *)
(***************************************************************************)

\* A run counts frames only while it runs, and one whose bus is still
\* connected has delivered every frame it published.
Progress ==
  /\ worker.pc # "running" => worker.frame = 0 /\ worker.delivered = 0
  /\ worker.pc \in {"claiming", "claimed"} => worker.connected
  /\ worker.pc = "running" /\ worker.connected => worker.delivered = worker.frame

Busy(r) == request[r].pc # "idle"

OwnTokens ==
  /\ \A c, d \in Live : c.token = d.token => c = d
  /\ \A r, q \in Requests :
       Busy(r) /\ Busy(q) /\ request[r].command.token = request[q].command.token => r = q
  /\ \A r \in Requests, c \in Live :
       Busy(r) /\ c.token = request[r].command.token
       => request[r].pc = "cleanup" /\ c = request[r].command

HoldsLock ==
  \A c \in Live \cup ToBeQueued : fate[c.token] = "lapsed" \/ lock[c.game] = c.token

LockOfGame ==
  \A g \in Games, c \in Live \cup InFlight : c.token = lock[g] => c.game = g

IInv ==
  /\ TypeOK
  /\ OnePending
  /\ Progress
  /\ NoDuplicateCommand
  /\ OwnTokens
  /\ HoldsLock
  /\ LockOfGame
  /\ HeldLockHasOwner

(***************************************************************************)
(* What each kind of step does to the commands that are alive              *)
(***************************************************************************)

\* What the invariants below read; most of the worker's steps leave it alone.
shared == <<lock, queue, processing, request, fate>>

\* The steps that change it.
LEMMA StepKinds ==
  ASSUME [Next]_vars
  PROVE  \/ \E r \in Requests, g \in Games, t \in Tokens, k \in TickSettings :
              AcquireLock(r, g, t, k)
         \/ \E r \in Requests : PushCommand(r)
         \/ \E r \in Requests : PushFails(r)
         \/ \E r \in Requests : CleanupLock(r)
         \/ \E r \in Requests : AbandonRequest(r)
         \/ \E g \in Games : LockExpires(g)
         \/ ClaimNext
         \/ DiscardCommand
         \/ Acknowledge
         \/ UNCHANGED shared
BY DEF Next, ApiStep, WorkerStep, StartWorker, AssertConnected, LookForPending,
       ClaimTimesOut, StartRun, PublishFrame, PublishFails, CrashWorker, redis, vars, shared

\* Everything alive is a command.
LEMMA AliveAreCommands ==
  ASSUME TypeOK
  PROVE  /\ Live \subseteq Command
         /\ InFlight \subseteq Command
         /\ ToBeQueued \subseteq InFlight
<1>1. \A s \in Seq(Command) : ToSet(s) \subseteq Command
  BY LenProperties, ElementOfSeq DEF ToSet
<1> QED
  BY <1>1 DEF TypeOK, Live, InFlight, ToBeQueued

\* A new request is in flight and will be queued; nothing else changes.
LEMMA AcquireEffect ==
  ASSUME TypeOK, NEW r \in Requests, NEW g \in Games, NEW t \in Tokens,
         NEW k \in TickSettings, AcquireLock(r, g, t, k)
  PROVE  \E c \in Command :
           /\ c.token = t /\ c.game = g
           /\ Live' = Live
           /\ InFlight' = InFlight \cup {c}
           /\ ToBeQueued' = ToBeQueued \cup {c}
           /\ request'[r].pc = "locked" /\ request'[r].command = c
           /\ \A q \in Requests \ {r} : request'[q] = request[q]
<1> DEFINE c == [game |-> g, tick |-> k, token |-> t]
<1>1. /\ request'[r] = [pc |-> "locked", command |-> c]
      /\ \A q \in Requests \ {r} : request'[q] = request[q]
      /\ request[r].pc = "idle"
  BY DEF AcquireLock, TypeOK
<1>2. request'[r].pc = "locked" /\ request'[r].command = c
  BY <1>1
<1>3. Live' = Live
  BY DEF AcquireLock, Live
<1>4. InFlight' = InFlight \cup {c} /\ ToBeQueued' = ToBeQueued \cup {c}
  BY <1>1, <1>2 DEF InFlight, ToBeQueued
<1>5. c \in Command /\ c.token = t /\ c.game = g
  BY DEF Command
<1> HIDE DEF c
<1> QED
  BY <1>1, <1>2, <1>3, <1>4, <1>5

\* A handler that ends, or goes on to its clean-up, queues nothing any more.
LEMMA RequestEffect ==
  ASSUME TypeOK, NEW r \in Requests, NEW pc \in {"idle", "cleanup"},
         NEW c \in Command \cup {NoCommand}, request[r].pc # "idle",
         pc = "cleanup" => c = request[r].command,
         request' = [request EXCEPT ![r] = [pc |-> pc, command |-> c]]
  PROVE  /\ request'[r].pc = pc /\ request'[r].command = c
         /\ \A q \in Requests \ {r} : request'[q] = request[q]
         /\ ToBeQueued' \subseteq ToBeQueued
         /\ InFlight' \subseteq InFlight
         /\ InFlight \subseteq InFlight' \cup {request[r].command}
<1>1. /\ request'[r] = [pc |-> pc, command |-> c]
      /\ \A q \in Requests \ {r} : request'[q] = request[q]
  BY DEF TypeOK
<1>2. request'[r].pc = pc /\ request'[r].command = c
  BY <1>1
<1> QED
  BY <1>1, <1>2 DEF InFlight, ToBeQueued

\* The moved command stays alive.
LEMMA ClaimEffect ==
  ASSUME TypeOK, OnePending, ClaimNext
  PROVE  /\ processing = <<>> /\ processing' = <<Last(queue)>>
         /\ Last(queue) \in Live
         /\ Live' = Live
<1>1. processing = <<>> /\ queue # <<>> /\ queue' = Front(queue)
  BY DEF OnePending, ClaimNext
<1>2. processing' = <<Last(queue)>>
  BY <1>1, FrontAndLast, ConcatEmptySeq DEF ClaimNext, TypeOK
<1>3. ToSet(queue) = ToSet(queue') \cup {Last(queue)}
  BY <1>1, FrontAndLast DEF TypeOK
<1> QED
  BY <1>1, <1>2, <1>3, ToSetOfShort DEF Live

\* What the worker is on leaves processing, and with it Redis.
LEMMA RemovalEffect ==
  ASSUME TypeOK, OnePending, NoDuplicateCommand, worker.pc \in {"claimed", "running"},
         UNCHANGED queue, processing' = RemoveFirst(processing, worker.command)
  PROVE  /\ processing' = <<>>
         /\ worker.command \in Live
         /\ Live' = Live \ {worker.command}
<1> DEFINE c == worker.command
<1>1. processing = <<c>> /\ c \in Command
  BY DEF OnePending, TypeOK
<1>2. processing' = <<>>
  BY <1>1, RemoveOnly
<1>3. \A i \in DOMAIN queue : queue[i].token # c.token
  BY <1>1 DEF NoDuplicateCommand
<1>4. c \notin ToSet(queue)
  BY <1>3 DEF ToSet
<1> QED
  BY <1>1, <1>2, <1>4, ToSetOfShort DEF Live

(***************************************************************************)
(* Each part of the invariant is preserved                                 *)
(***************************************************************************)

\* The processing list.
LEMMA OnePendingNext == TypeOK /\ OnePending /\ [Next]_vars => OnePending'
<1> SUFFICES ASSUME TypeOK, OnePending, [Next]_vars
             PROVE  OnePending'
  OBVIOUS
<1>1. ASSUME NEW r \in Requests,
             \/ \E g \in Games, t \in Tokens, k \in TickSettings : AcquireLock(r, g, t, k)
             \/ PushCommand(r) \/ PushFails(r) \/ CleanupLock(r) \/ AbandonRequest(r)
      PROVE  OnePending'
  BY <1>1 DEF AcquireLock, PushCommand, PushFails, CleanupLock, AbandonRequest, OnePending
<1>2. ASSUME NEW g \in Games, LockExpires(g)
      PROVE  OnePending'
  BY <1>2 DEF LockExpires, OnePending
<1>3. CASE \/ StartWorker \/ AssertConnected \/ ClaimTimesOut \/ CrashWorker
  BY <1>3, WorkerAtType DEF StartWorker, AssertConnected, ClaimTimesOut, CrashWorker,
     WorkerReady, DownWorker, redis, OnePending
<1>4. CASE LookForPending
  <2>1. CASE processing = <<>>
    BY <1>4, <2>1, WorkerAtType DEF LookForPending, redis, OnePending
  <2>2. CASE processing # <<>>
    <3>1. Len(processing) = 1 /\ Last(processing) = processing[1]
      <4>1. processing \in Seq(Command) /\ Len(processing) <= 1 /\ Len(processing) \in Nat
        BY LenProperties DEF OnePending, TypeOK
      <4>2. Len(processing) >= 1 /\ Last(processing) = processing[Len(processing)]
        BY <2>2, <4>1, FrontAndLast
      <4>3. \A n \in Nat : n <= 1 /\ n >= 1 => n = 1
        OBVIOUS
      <4>4. Len(processing) = 1
        BY <4>1, <4>2, <4>3, Zenon
      <4> QED
        BY <4>2, <4>4
    <3>2. processing = <<Last(processing)>>
      BY <3>1 DEF TypeOK
    <3>3. worker'.pc = "claimed" /\ worker'.command = Last(processing)
      BY <1>4, <2>2 DEF LookForPending, WorkerAt
    <3> QED
      BY <1>4, <3>1, <3>2, <3>3 DEF LookForPending, redis, OnePending
  <2> QED
    BY <2>1, <2>2
<1>5. CASE ClaimNext
  <2>1. processing' = <<Last(queue)>>
    BY <1>5, ClaimEffect
  <2>2. worker'.pc = "claimed" /\ worker'.command = Last(queue)
    BY <1>5 DEF ClaimNext, TypeOK, Worker
  <2> QED
    BY <2>1, <2>2 DEF OnePending
<1>6. CASE DiscardCommand \/ Acknowledge
  <2>1. processing = <<worker.command>> /\ worker.command \in Command
    BY <1>6 DEF DiscardCommand, Acknowledge, OnePending, TypeOK
  <2>2. processing' \in {<<>>, processing}
    BY <1>6, <2>1, RemoveOnly DEF DiscardCommand, Acknowledge
  <2>3. worker'.pc = "ready"
    BY <1>6 DEF DiscardCommand, Acknowledge, WorkerReady, WorkerAt
  <2> QED
    BY <2>1, <2>2, <2>3 DEF OnePending
<1>7. CASE StartRun \/ PublishFrame \/ PublishFails
  <2>1. /\ worker.pc \in {"claimed", "running"}
        /\ worker'.pc = "running" /\ worker'.command = worker.command
    BY <1>7 DEF StartRun, PublishFrame, PublishFails, TypeOK, Worker
  <2> QED
    BY <1>7, <2>1 DEF StartRun, PublishFrame, PublishFails, redis, OnePending
<1>8. CASE UNCHANGED vars
  BY <1>8 DEF vars, OnePending
<1> QED
  BY <1>1, <1>2, <1>3, <1>4, <1>5, <1>6, <1>7, <1>8 DEF Next, ApiStep, WorkerStep

\* How far the worker has got.
LEMMA ProgressNext == TypeOK /\ Progress /\ [Next]_vars => Progress'
<1> SUFFICES ASSUME TypeOK, Progress, [Next]_vars
             PROVE  Progress'
  OBVIOUS
<1>1. CASE ApiStep \/ (\E g \in Games : LockExpires(g)) \/ UNCHANGED vars
  BY <1>1 DEF ApiStep, AcquireLock, PushCommand, PushFails, CleanupLock, AbandonRequest,
     LockExpires, vars, Progress
<1>2. CASE StartWorker \/ AssertConnected \/ ClaimTimesOut \/ DiscardCommand
           \/ Acknowledge \/ CrashWorker
  <2>1. worker'.pc \in {"down", "ready"} /\ worker'.frame = 0 /\ worker'.delivered = 0
    BY <1>2 DEF StartWorker, AssertConnected, ClaimTimesOut, DiscardCommand, Acknowledge,
       CrashWorker, WorkerReady, DownWorker, WorkerAt
  <2> QED
    BY <2>1 DEF Progress
<1>3. CASE LookForPending
  BY <1>3 DEF LookForPending, WorkerAt, Progress
<1>4. CASE ClaimNext
  BY <1>4 DEF ClaimNext, Progress, TypeOK, Worker
<1>7. CASE StartRun
  <2>1. worker.delivered = 0 /\ worker.frame = 0
    BY <1>7 DEF StartRun, Progress
  <2>2. worker'.pc = "running" /\ worker'.delivered = 0 /\ worker'.frame = 0
    BY <1>7, <2>1 DEF StartRun, TypeOK, Worker
  <2> QED
    BY <2>2 DEF Progress
<1>5. CASE PublishFrame
  BY <1>5 DEF PublishFrame, Progress, TypeOK, Worker
<1>6. CASE PublishFails
  BY <1>6 DEF PublishFails, Progress, TypeOK, Worker
<1> QED
  BY <1>1, <1>2, <1>3, <1>4, <1>5, <1>6, <1>7 DEF Next, WorkerStep

\* A command that is queued must not share its token with anything alive.
LEMMA NoDuplicateAppend ==
  ASSUME TypeOK, NoDuplicateCommand, NEW c \in Command,
         \A d \in Live : d.token # c.token,
         queue' = Append(queue, c), UNCHANGED processing
  PROVE  NoDuplicateCommand'
<1>1. /\ Len(queue) \in Nat /\ DOMAIN queue = 1..Len(queue)
      /\ DOMAIN queue' = 1..Len(queue) + 1
      /\ \A i \in DOMAIN queue : queue'[i] = queue[i]
      /\ queue'[Len(queue) + 1] = c
  BY LenProperties, AppendProperties DEF TypeOK
<1>2. /\ \A i \in DOMAIN queue : queue[i].token # c.token
      /\ \A j \in DOMAIN processing : processing[j].token # c.token
  BY DEF Live, ToSet
<1> QED
  BY <1>1, <1>2 DEF NoDuplicateCommand

\* No second copy of a command.
LEMMA NoDuplicateNext ==
  TypeOK /\ OnePending /\ NoDuplicateCommand /\ OwnTokens /\ [Next]_vars
  => NoDuplicateCommand'
<1> SUFFICES ASSUME TypeOK, OnePending, NoDuplicateCommand, OwnTokens, [Next]_vars
             PROVE  NoDuplicateCommand'
  OBVIOUS
<1>1. ASSUME NEW r \in Requests, PushCommand(r) \/ PushFails(r)
      PROVE  NoDuplicateCommand'
  <2> DEFINE c == request[r].command
  <2>1. c \in Command /\ request[r].pc = "locked" /\ UNCHANGED processing
    BY <1>1 DEF PushCommand, PushFails, TypeOK
  <2>2. \A d \in Live : d.token # c.token
    BY <2>1 DEF OwnTokens, Busy
  <2>3. CASE queue' = Append(queue, c)
    BY <2>1, <2>2, <2>3, NoDuplicateAppend
  <2>4. CASE queue' = queue
    BY <2>1, <2>4 DEF NoDuplicateCommand
  <2> QED
    BY <1>1, <2>3, <2>4 DEF PushCommand, PushFails
<1>2. CASE ClaimNext
  <2>1. queue # <<>> /\ queue' = Front(queue) /\ processing' = <<Last(queue)>>
    BY <1>2, ClaimEffect DEF ClaimNext
  <2>2. /\ Len(queue) \in Nat /\ Len(queue) >= 1
        /\ DOMAIN queue = 1..Len(queue) /\ DOMAIN queue' = 1..Len(queue) - 1
        /\ \A i \in DOMAIN queue' : queue'[i] = queue[i]
        /\ Last(queue) = queue[Len(queue)]
    <3>1. queue \in Seq(Command)
      BY DEF TypeOK
    <3>2. /\ queue' \in Seq(Command) /\ Len(queue') = Len(queue) - 1
          /\ Len(queue) >= 1 /\ Last(queue) = queue[Len(queue)]
          /\ \A i \in 1..Len(queue) - 1 : queue'[i] = queue[i]
      BY <2>1, <3>1, FrontAndLast
    <3>3. Len(queue) \in Nat /\ DOMAIN queue = 1..Len(queue) /\ DOMAIN queue' = 1..Len(queue')
      BY <3>1, <3>2, LenProperties
    <3> QED
      BY <3>2, <3>3
  <2>3. DOMAIN processing' = {1} /\ processing'[1] = queue[Len(queue)]
    BY <2>1, <2>2
  <2> QED
    BY <2>2, <2>3 DEF NoDuplicateCommand
<1>3. CASE DiscardCommand \/ Acknowledge
  <2>1. processing = <<worker.command>> /\ worker.command \in Command /\ UNCHANGED queue
    BY <1>3 DEF DiscardCommand, Acknowledge, OnePending, TypeOK
  <2>2. processing' \in {<<>>, processing}
    BY <1>3, <2>1, RemoveOnly DEF DiscardCommand, Acknowledge
  <2>3. DOMAIN processing' \subseteq DOMAIN processing
        /\ \A j \in DOMAIN processing' : processing'[j] = processing[j]
    BY <2>2
  <2> QED
    BY <2>1, <2>3 DEF NoDuplicateCommand
<1>4. CASE UNCHANGED <<queue, processing>>
  BY <1>4 DEF NoDuplicateCommand
<1> QED
  BY <1>1, <1>2, <1>3, <1>4, StepKinds
     DEF AcquireLock, CleanupLock, AbandonRequest, LockExpires, shared

\* What a push, failed or not, does to the commands that are alive.
LEMMA PushEffect ==
  ASSUME TypeOK, OwnTokens, NEW r \in Requests, PushCommand(r) \/ PushFails(r)
  PROVE  LET c == request[r].command
         IN /\ c \in Command /\ c \in ToBeQueued /\ request[r].pc = "locked"
            /\ \A d \in Live : d.token # c.token
            /\ \/ Live' = Live /\ request'[r].pc = "cleanup"
               \/ Live' = Live \cup {c}
            /\ \/ request'[r].pc = "idle" /\ Live' = Live \cup {c}
               \/ request'[r].pc = "cleanup" /\ request'[r].command = c
            /\ \A q \in Requests \ {r} : request'[q] = request[q]
            /\ ToBeQueued' \subseteq ToBeQueued
            /\ InFlight' \subseteq InFlight
            /\ InFlight \subseteq InFlight' \cup Live'
            /\ UNCHANGED <<lock, fate, processing, worker>>
<1> DEFINE c == request[r].command
<1>1. c \in Command /\ c \in ToBeQueued /\ request[r].pc = "locked"
  BY DEF PushCommand, PushFails, TypeOK, ToBeQueued
<1>2. \A d \in Live : d.token # c.token
  BY <1>1 DEF OwnTokens, Busy
<1>3. queue' = Append(queue, c) => Live' = Live \cup {c}
  BY <1>1, ToSetAppend DEF PushCommand, PushFails, Live, TypeOK
<1>4. queue' = queue => Live' = Live
  BY DEF PushCommand, PushFails, Live
<1>5. CASE PushCommand(r)
  <2>1. request' = [request EXCEPT ![r] = [pc |-> "idle", command |-> NoCommand]]
    BY <1>5 DEF PushCommand, IdleRequest
  <2>2. /\ request'[r].pc = "idle"
        /\ \A q \in Requests \ {r} : request'[q] = request[q]
        /\ ToBeQueued' \subseteq ToBeQueued /\ InFlight' \subseteq InFlight
        /\ InFlight \subseteq InFlight' \cup {c}
    BY <1>1, <2>1, RequestEffect
  <2> QED
    BY <1>1, <1>2, <1>3, <1>5, <2>2 DEF PushCommand
<1>6. CASE PushFails(r)
  <2>1. request' = [request EXCEPT ![r] = [pc |-> "cleanup", command |-> c]]
    <3>1. request' = [request EXCEPT ![r] = [request[r] EXCEPT !.pc = "cleanup"]]
      BY <1>6 DEF PushFails
    <3>2. [request[r] EXCEPT !.pc = "cleanup"] = [pc |-> "cleanup", command |-> c]
      BY DEF TypeOK
    <3> QED
      BY <3>1, <3>2, Zenon
  <2>2. /\ request'[r].pc = "cleanup" /\ request'[r].command = c
        /\ \A q \in Requests \ {r} : request'[q] = request[q]
        /\ ToBeQueued' \subseteq ToBeQueued /\ InFlight' \subseteq InFlight
        /\ InFlight \subseteq InFlight' \cup {c}
    BY <1>1, <2>1, RequestEffect
  <2>3. c \in InFlight'
    BY <2>2 DEF InFlight
  <2> QED
    BY <1>1, <1>2, <1>3, <1>4, <1>6, <2>2, <2>3 DEF PushFails
<1> QED
  BY <1>5, <1>6

\* A handler that ends without queueing leaves every live command alone.
LEMMA EndEffect ==
  ASSUME TypeOK, NEW r \in Requests, CleanupLock(r) \/ AbandonRequest(r)
  PROVE  LET c == request[r].command
         IN /\ c \in Command /\ request[r].pc \in {"locked", "cleanup"}
            /\ c \in InFlight
            /\ Live' = Live
            /\ request'[r].pc = "idle"
            /\ \A q \in Requests \ {r} : request'[q] = request[q]
            /\ ToBeQueued' \subseteq ToBeQueued
            /\ InFlight' \subseteq InFlight
            /\ InFlight \subseteq InFlight' \cup {c}
<1> DEFINE c == request[r].command
<1>1. c \in Command /\ request[r].pc \in {"locked", "cleanup"} /\ c \in InFlight
  BY DEF CleanupLock, AbandonRequest, TypeOK, InFlight
<1>2. Live' = Live
  BY DEF CleanupLock, AbandonRequest, Live
<1>3. request' = [request EXCEPT ![r] = [pc |-> "idle", command |-> NoCommand]]
  BY DEF CleanupLock, AbandonRequest, IdleRequest
<1> QED
  BY <1>1, <1>2, <1>3, RequestEffect

\* Steps that touch none of it change nothing that is alive.
LEMMA QuietEffect ==
  ASSUME UNCHANGED shared
  PROVE  /\ Live' = Live /\ InFlight' = InFlight /\ ToBeQueued' = ToBeQueued
         /\ UNCHANGED <<lock, request, fate>>
BY DEF shared, Live, InFlight, ToBeQueued

\* An acknowledgement takes the command and its lock, or, on a stopped bus,
\* nothing; a discarded command leaves its lock behind.
LEMMA LeaveEffect ==
  ASSUME TypeOK, OnePending, NoDuplicateCommand, DiscardCommand \/ Acknowledge
  PROVE  LET c == worker.command
         IN /\ c \in Live /\ c \in Command
            /\ InFlight' = InFlight /\ ToBeQueued' = ToBeQueued /\ request' = request
            /\ \/ UNCHANGED <<lock, fate>> /\ Live' = Live
               \/ /\ Live' = Live \ {c}
                  /\ fate' = fate
                  /\ lock' = [lock EXCEPT ![c.game] = IF @ = c.token THEN NoToken ELSE @]
               \/ /\ Live' = Live \ {c}
                  /\ lock' = lock
                  /\ fate' = [fate EXCEPT
                       ![c.token] = IF lock[c.game] = c.token THEN "stranded" ELSE @]
<1> DEFINE c == worker.command
<1>1. worker.pc \in {"claimed", "running"} /\ c \in Command
  BY DEF DiscardCommand, Acknowledge, TypeOK
<1>2. InFlight' = InFlight /\ ToBeQueued' = ToBeQueued /\ UNCHANGED <<request, queue>>
  BY DEF DiscardCommand, Acknowledge, InFlight, ToBeQueued
<1>3. processing' = RemoveFirst(processing, c) => Live' = Live \ {c}
  BY <1>1, <1>2, RemovalEffect
<1>4. processing' = processing => Live' = Live
  BY <1>2 DEF Live
<1>5. c \in Live
  BY <1>1, ToSetOfShort DEF OnePending, Live
<1>6. CASE DiscardCommand
  BY <1>1, <1>2, <1>3, <1>5, <1>6 DEF DiscardCommand
<1>7. CASE Acknowledge
  BY <1>1, <1>2, <1>3, <1>4, <1>5, <1>7 DEF Acknowledge
<1> QED
  BY <1>6, <1>7

\* A live command shares its token with no other command that is alive or
\* still to be queued.
LEMMA LiveToken ==
  ASSUME OwnTokens, NEW c \in Live, NEW d \in Live \cup ToBeQueued, c.token = d.token
  PROVE  d = c
BY DEF OwnTokens, ToBeQueued, Busy

\* Once a handler has ended, its token belongs at most to the command it
\* queued.
LEMMA EndedToken ==
  ASSUME TypeOK, OwnTokens, NEW r \in Requests, CleanupLock(r) \/ AbandonRequest(r),
         NEW d \in Live' \cup ToBeQueued', d.token = request[r].command.token
  PROVE  d \in Live /\ d = request[r].command
<1>1. /\ Live' = Live /\ request[r].pc # "idle" /\ request'[r].pc = "idle"
      /\ \A q \in Requests \ {r} : request'[q] = request[q]
  BY EndEffect
<1>2. CASE d \in Live
  BY <1>1, <1>2 DEF OwnTokens, Busy
<1>3. CASE d \in ToBeQueued'
  <2>1. PICK q \in Requests : request'[q].pc = "locked" /\ request'[q].command = d
    BY <1>3 DEF ToBeQueued
  <2>2. q # r /\ request[q].pc = "locked" /\ request[q].command = d
    BY <1>1, <2>1
  <2> QED
    BY <1>1, <2>2 DEF OwnTokens, Busy
<1> QED
  BY <1>1, <1>2, <1>3

\* A token keeps belonging to one command and one handler.
LEMMA OwnTokensNext ==
  TypeOK /\ OnePending /\ NoDuplicateCommand /\ OwnTokens /\ [Next]_vars => OwnTokens'
<1> SUFFICES ASSUME TypeOK, OnePending, NoDuplicateCommand, OwnTokens, [Next]_vars
             PROVE  OwnTokens'
  OBVIOUS
<1>1. ASSUME NEW r \in Requests, NEW g \in Games, NEW t \in Tokens, NEW k \in TickSettings,
             AcquireLock(r, g, t, k)
      PROVE  OwnTokens'
  <2>1. PICK c \in Command :
           /\ Live' = Live /\ request'[r].pc = "locked" /\ request'[r].command = c
           /\ \A q \in Requests \ {r} : request'[q] = request[q]
           /\ c.token = t
    BY <1>1, AcquireEffect
  <2>2. \A d \in Live : d.token # t
    BY <1>1 DEF AcquireLock, Fresh
  <2>3. \A q \in Requests : Busy(q) => request[q].command.token # t
    BY <1>1 DEF AcquireLock, Fresh, InFlight, Busy
  <2> QED
    BY <2>1, <2>2, <2>3 DEF OwnTokens, Busy
<1>2. ASSUME NEW r \in Requests, PushCommand(r) \/ PushFails(r)
      PROVE  OwnTokens'
  <2> DEFINE c == request[r].command
  <2>1. /\ request[r].pc = "locked"
        /\ \A d \in Live : d.token # c.token
        /\ \A q \in Requests \ {r} : request'[q] = request[q]
    BY <1>2, PushEffect
  <2>2. \A q \in Requests \ {r} : Busy(q) => request[q].command.token # c.token
    BY <2>1 DEF OwnTokens, Busy
  <2>3. /\ Live' = Live \/ Live' = Live \cup {c}
        /\ \/ request'[r].pc = "idle"
           \/ request'[r].pc = "cleanup" /\ request'[r].command = c
    BY <1>2, PushEffect
  <2> QED
    BY <2>1, <2>2, <2>3 DEF OwnTokens, Busy
<1>3. ASSUME NEW r \in Requests, CleanupLock(r) \/ AbandonRequest(r)
      PROVE  OwnTokens'
  BY <1>3, EndEffect DEF OwnTokens, Busy
<1>4. ASSUME NEW g \in Games, LockExpires(g)
      PROVE  OwnTokens'
  BY <1>4 DEF LockExpires, OwnTokens, Busy, Live
<1>5. CASE ClaimNext
  BY <1>5, ClaimEffect DEF ClaimNext, OwnTokens, Busy
<1>6. CASE DiscardCommand \/ Acknowledge
  <2>1. Live' \subseteq Live /\ request' = request
    BY <1>6, LeaveEffect
  <2> QED
    BY <2>1 DEF OwnTokens, Busy
<1>7. CASE UNCHANGED shared
  BY <1>7, QuietEffect DEF OwnTokens, Busy
<1> QED
  BY <1>1, <1>2, <1>3, <1>4, <1>5, <1>6, <1>7, StepKinds

\* Whatever is alive with a lock that has not lapsed keeps it.
LEMMA HoldsLockNext ==
  TypeOK /\ OnePending /\ NoDuplicateCommand /\ OwnTokens /\ HoldsLock /\ [Next]_vars
  => HoldsLock'
<1> SUFFICES ASSUME TypeOK, OnePending, NoDuplicateCommand, OwnTokens, HoldsLock, [Next]_vars
             PROVE  HoldsLock'
  OBVIOUS
<1>0. \A d \in Live \cup ToBeQueued : d \in Command /\ d.token \in Tokens /\ d.game \in Games
  BY AliveAreCommands DEF Command
<1>1. ASSUME NEW r \in Requests, NEW g \in Games, NEW t \in Tokens, NEW k \in TickSettings,
             AcquireLock(r, g, t, k)
      PROVE  HoldsLock'
  <2>1. PICK c \in Command :
           /\ Live' = Live /\ ToBeQueued' = ToBeQueued \cup {c}
           /\ c.token = t /\ c.game = g
    BY <1>1, AcquireEffect
  <2>2. \A d \in Live \cup ToBeQueued : d.token # t
    BY <1>1, AliveAreCommands DEF AcquireLock, Fresh
  <2>3. lock[g] = NoToken /\ lock' = [lock EXCEPT ![g] = t] /\ fate' = [fate EXCEPT ![t] = "ordinary"]
    BY <1>1 DEF AcquireLock
  <2>4. \A d \in Live \cup ToBeQueued : fate'[d.token] = "lapsed" \/ lock'[d.game] = d.token
    BY <1>0, <2>2, <2>3, QueueConstants DEF HoldsLock, TypeOK, QueueConstants
  <2>5. lock'[c.game] = c.token
    BY <2>1, <2>3 DEF TypeOK
  <2> QED
    BY <2>1, <2>4, <2>5 DEF HoldsLock
<1>2. ASSUME NEW r \in Requests, PushCommand(r) \/ PushFails(r)
      PROVE  HoldsLock'
  <2>1. Live' \cup ToBeQueued' \subseteq Live \cup ToBeQueued /\ UNCHANGED <<lock, fate>>
    BY <1>2, PushEffect
  <2> QED
    BY <2>1 DEF HoldsLock
<1>3. ASSUME NEW r \in Requests, CleanupLock(r) \/ AbandonRequest(r),
             NEW d \in Live' \cup ToBeQueued'
      PROVE  fate'[d.token] = "lapsed" \/ lock'[d.game] = d.token
  <2> DEFINE c == request[r].command
  <2>1. d \in Live \cup ToBeQueued /\ c \in Command /\ Live' = Live
    BY <1>3, EndEffect
  <2>2. CASE d.token = c.token
    <3>1. d = c /\ c \in Live
      BY <1>3, <2>2, EndedToken
    <3>2. CASE CleanupLock(r)
      BY <1>0, <2>1, <3>1, <3>2 DEF CleanupLock, TypeOK
    <3>3. CASE AbandonRequest(r)
      BY <1>0, <2>1, <3>1, <3>3 DEF AbandonRequest, TypeOK, HoldsLock
    <3> QED
      BY <1>3, <3>2, <3>3
  <2>3. CASE d.token # c.token
    <3>1. fate'[d.token] = fate[d.token]
      BY <1>0, <1>3, <2>1, <2>3 DEF CleanupLock, AbandonRequest, TypeOK
    <3>2. lock[d.game] = d.token => lock'[d.game] = d.token
      BY <1>0, <1>3, <2>1, <2>3 DEF CleanupLock, AbandonRequest, TypeOK
    <3> QED
      BY <2>1, <3>1, <3>2 DEF HoldsLock
  <2> QED
    BY <2>2, <2>3
<1>4. ASSUME NEW g \in Games, LockExpires(g), NEW d \in Live' \cup ToBeQueued'
      PROVE  fate'[d.token] = "lapsed" \/ lock'[d.game] = d.token
  <2>1. Live' = Live /\ ToBeQueued' = ToBeQueued
    BY <1>4 DEF LockExpires, Live, ToBeQueued
  <2>2. d \in Live \cup ToBeQueued /\ d \in Live \cup InFlight
    BY <1>4, <2>1, AliveAreCommands
  <2>3. CASE d.token = lock[g]
    BY <1>0, <1>4, <2>2, <2>3 DEF LockExpires, TypeOK
  <2>4. CASE d.token # lock[g]
    BY <1>0, <1>4, <2>2, <2>4 DEF LockExpires, TypeOK, HoldsLock
  <2> QED
    BY <2>3, <2>4
<1>5. CASE ClaimNext
  BY <1>5, ClaimEffect DEF ClaimNext, HoldsLock, ToBeQueued
<1>6. ASSUME DiscardCommand \/ Acknowledge, NEW d \in Live' \cup ToBeQueued'
      PROVE  fate'[d.token] = "lapsed" \/ lock'[d.game] = d.token
  <2> DEFINE c == worker.command
  <2>1. CASE UNCHANGED <<lock, fate>> /\ Live' = Live
    BY <1>6, <2>1, LeaveEffect DEF HoldsLock
  <2>2. CASE Live' = Live \ {c}
    <3>1. c \in Live /\ c \in Command /\ ToBeQueued' = ToBeQueued
      BY <1>6, LeaveEffect
    <3>2. d \in Live \cup ToBeQueued /\ d.token # c.token
      <4>1. d \in Live \cup ToBeQueued
        BY <1>6, <2>2, <3>1
      <4>2. d \in ToBeQueued => d.token # c.token
        BY <3>1 DEF OwnTokens, ToBeQueued, Busy
      <4> QED
        BY <1>6, <2>2, <3>1, <4>1, <4>2, LiveToken
    <3>3. /\ fate'[d.token] = fate[d.token]
          /\ lock[d.game] = d.token => lock'[d.game] = d.token
      BY <1>0, <1>6, <3>1, <3>2, LeaveEffect DEF TypeOK
    <3> QED
      BY <3>2, <3>3 DEF HoldsLock
  <2> QED
    BY <1>6, <2>1, <2>2, LeaveEffect
<1>7. CASE UNCHANGED shared
  BY <1>7, QuietEffect DEF HoldsLock
<1>8. ASSUME \A d \in Live' \cup ToBeQueued' :
               fate'[d.token] = "lapsed" \/ lock'[d.game] = d.token
      PROVE  HoldsLock'
  BY <1>8 DEF HoldsLock
<1> QED
  BY <1>1, <1>2, <1>3, <1>4, <1>5, <1>6, <1>7, <1>8, StepKinds

\* A token set in a game's lock belongs to a command of that game.
LEMMA LockOfGameNext ==
  TypeOK /\ OnePending /\ NoDuplicateCommand /\ OwnTokens /\ LockOfGame /\ [Next]_vars
  => LockOfGame'
<1> SUFFICES ASSUME TypeOK, OnePending, NoDuplicateCommand, OwnTokens, LockOfGame, [Next]_vars
             PROVE  LockOfGame'
  OBVIOUS
<1>1. ASSUME NEW r \in Requests, NEW g \in Games, NEW t \in Tokens, NEW k \in TickSettings,
             AcquireLock(r, g, t, k)
      PROVE  LockOfGame'
  <2>1. PICK c \in Command :
           /\ Live' = Live /\ InFlight' = InFlight \cup {c}
           /\ c.token = t /\ c.game = g
    BY <1>1, AcquireEffect
  <2>2. /\ \A d \in Live \cup InFlight : d.token # t
        /\ \A h \in Games : lock[h] # t
    BY <1>1 DEF AcquireLock, Fresh
  <2>3. lock' = [lock EXCEPT ![g] = t]
    BY <1>1 DEF AcquireLock
  <2> QED
    BY <2>1, <2>2, <2>3 DEF LockOfGame, TypeOK
<1>2. ASSUME /\ \A h \in Games : lock'[h] \in {lock[h], NoToken}
             /\ Live' \cup InFlight' \subseteq Live \cup InFlight
      PROVE  LockOfGame'
  <2>1. \A c \in Live \cup InFlight : c.token # NoToken
    BY AliveAreCommands, QueueConstants DEF QueueConstants, Command
  <2> QED
    BY <1>2, <2>1 DEF LockOfGame
<1>3. ASSUME NEW r \in Requests, PushCommand(r) \/ PushFails(r)
      PROVE  LockOfGame'
  <2>1. request[r].command \in InFlight
    BY <1>3, PushEffect, AliveAreCommands
  <2>2. Live' \cup InFlight' \subseteq Live \cup InFlight /\ lock' = lock
    BY <1>3, <2>1, PushEffect
  <2> QED
    BY <1>2, <2>2
<1>4. ASSUME NEW r \in Requests, CleanupLock(r) \/ AbandonRequest(r)
      PROVE  LockOfGame'
  <2>1. \A h \in Games : lock'[h] \in {lock[h], NoToken}
    BY <1>4, EndEffect DEF CleanupLock, AbandonRequest, TypeOK, Command
  <2>2. Live' \cup InFlight' \subseteq Live \cup InFlight
    BY <1>4, EndEffect
  <2> QED
    BY <1>2, <2>1, <2>2
<1>5. ASSUME NEW g \in Games, LockExpires(g)
      PROVE  LockOfGame'
  BY <1>2, <1>5 DEF LockExpires, Live, InFlight, TypeOK
<1>6. CASE ClaimNext
  BY <1>2, <1>6, ClaimEffect DEF ClaimNext, InFlight
<1>7. CASE DiscardCommand \/ Acknowledge
  <2>1. \A h \in Games : lock'[h] \in {lock[h], NoToken}
    BY <1>7, LeaveEffect DEF TypeOK
  <2>2. Live' \cup InFlight' \subseteq Live \cup InFlight
    BY <1>7, LeaveEffect
  <2> QED
    BY <1>2, <2>1, <2>2
<1>8. CASE UNCHANGED shared
  BY <1>2, <1>8, QuietEffect
<1> QED
  BY <1>1, <1>3, <1>4, <1>5, <1>6, <1>7, <1>8, StepKinds

Owned(g) ==
  \/ lock[g] = NoToken
  \/ \E c \in Live \cup InFlight : c.game = g /\ c.token = lock[g]
  \/ fate[lock[g]] = "stranded"

\* A held lock keeps its owner, or is marked as stranded when it loses it.
LEMMA HeldLockNext ==
  IInv /\ [Next]_vars => HeldLockHasOwner'
<1> SUFFICES ASSUME IInv, [Next]_vars, NEW g \in Games
             PROVE  Owned(g)'
  BY DEF HeldLockHasOwner, Owned
<1> USE DEF IInv
<1>0. Owned(g)
  BY DEF HeldLockHasOwner, Owned
<1>1. ASSUME NEW r \in Requests, NEW h \in Games, NEW t \in Tokens, NEW k \in TickSettings,
             AcquireLock(r, h, t, k)
      PROVE  Owned(g)'
  <2>1. PICK c \in Command :
           /\ Live' = Live /\ InFlight' = InFlight \cup {c}
           /\ c.token = t /\ c.game = h
    BY <1>1, AcquireEffect
  <2>2. /\ lock[g] # t /\ lock' = [lock EXCEPT ![h] = t]
        /\ fate' = [fate EXCEPT ![t] = "ordinary"]
    BY <1>1 DEF AcquireLock, Fresh
  <2>3. CASE g = h
    BY <2>1, <2>2, <2>3 DEF Owned, TypeOK
  <2>4. CASE g # h
    <3>1. lock'[g] = lock[g] /\ (lock[g] # NoToken => fate'[lock[g]] = fate[lock[g]])
      BY <2>2, <2>4 DEF TypeOK
    <3> QED
      BY <1>0, <2>1, <3>1 DEF Owned
  <2> QED
    BY <2>3, <2>4
<1>2. ASSUME UNCHANGED <<lock, fate>>, Live \cup InFlight \subseteq Live' \cup InFlight'
      PROVE  Owned(g)'
  BY <1>0, <1>2 DEF Owned
<1>3. ASSUME NEW r \in Requests, PushCommand(r) \/ PushFails(r)
      PROVE  Owned(g)'
  <2>1. UNCHANGED <<lock, fate>> /\ Live \cup InFlight \subseteq Live' \cup InFlight'
    BY <1>3, PushEffect
  <2> QED
    BY <1>2, <2>1
<1>4. ASSUME NEW r \in Requests, CleanupLock(r) \/ AbandonRequest(r)
      PROVE  Owned(g)'
  <2> DEFINE c == request[r].command
  <2>1. /\ c \in Command /\ c \in InFlight /\ Live' = Live
        /\ InFlight \subseteq InFlight' \cup {c}
    BY <1>4, EndEffect
  <2>2. CASE lock[g] = c.token
    <3>1. c.game = g
      BY <2>1, <2>2 DEF LockOfGame
    <3>2. CASE CleanupLock(r)
      BY <2>2, <3>1, <3>2 DEF CleanupLock, Owned, TypeOK
    <3>3. CASE AbandonRequest(r)
      <4>1. lock' = lock /\ fate'[c.token] = IF c \in Live THEN fate[c.token] ELSE "stranded"
        BY <2>1, <3>3 DEF AbandonRequest, TypeOK, Command
      <4> QED
        BY <2>1, <2>2, <3>1, <4>1 DEF Owned
    <3> QED
      BY <1>4, <3>2, <3>3
  <2>3. CASE lock[g] # c.token
    <3>1. lock'[g] \in {lock[g], NoToken}
      BY <1>4 DEF CleanupLock, AbandonRequest, TypeOK
    <3>2. lock[g] # NoToken => fate'[lock[g]] = fate[lock[g]]
      BY <1>4, <2>3 DEF CleanupLock, AbandonRequest, TypeOK
    <3> QED
      BY <1>0, <2>1, <2>3, <3>1, <3>2 DEF Owned
  <2> QED
    BY <2>2, <2>3
<1>5. ASSUME NEW h \in Games, LockExpires(h)
      PROVE  Owned(g)'
  <2>1. Live' = Live /\ InFlight' = InFlight
    BY <1>5 DEF LockExpires, Live, InFlight
  <2>2. CASE g = h
    BY <1>5, <2>2 DEF LockExpires, Owned, TypeOK
  <2>3. CASE g # h
    <3>1. lock'[g] = lock[g]
      BY <1>5, <2>3 DEF LockExpires, TypeOK
    <3>2. lock[g] # NoToken /\ fate'[lock[g]] # fate[lock[g]] =>
            \E c \in Live \cup InFlight : c.token = lock[h] /\ c.token = lock[g]
      BY <1>5 DEF LockExpires, TypeOK
    <3>3. ~\E c \in Live \cup InFlight : c.token = lock[h] /\ c.token = lock[g]
      BY <2>3 DEF LockOfGame
    <3> QED
      BY <1>0, <2>1, <3>1, <3>2, <3>3 DEF Owned
  <2> QED
    BY <2>2, <2>3
<1>6. CASE ClaimNext
  BY <1>2, <1>6, ClaimEffect DEF ClaimNext, InFlight
<1>7. CASE DiscardCommand \/ Acknowledge
  <2> DEFINE c == worker.command
  <2>1. c \in Live /\ c \in Command /\ InFlight' = InFlight
    BY <1>7, LeaveEffect
  <2>2. CASE UNCHANGED <<lock, fate>> /\ Live' = Live
    BY <1>2, <2>1, <2>2
  <2>3. CASE /\ Live' = Live \ {c} /\ fate' = fate
             /\ lock' = [lock EXCEPT ![c.game] = IF @ = c.token THEN NoToken ELSE @]
    <3>1. lock[g] = c.token => c.game = g
      BY <2>1 DEF LockOfGame
    <3>2. lock'[g] = IF lock[g] = c.token THEN NoToken ELSE lock[g]
      BY <2>1, <2>3, <3>1 DEF TypeOK
    <3> QED
      BY <1>0, <2>1, <2>3, <3>2 DEF Owned
  <2>4. CASE /\ Live' = Live \ {c} /\ lock' = lock
             /\ fate' = [fate EXCEPT
                  ![c.token] = IF lock[c.game] = c.token THEN "stranded" ELSE @]
    <3>1. lock[g] = c.token => c.game = g
      BY <2>1 DEF LockOfGame
    <3>2. CASE lock[g] = c.token
      BY <2>1, <2>4, <3>1, <3>2 DEF Owned, TypeOK, Command
    <3>3. CASE lock[g] # c.token
      <4>1. lock[g] # NoToken => fate'[lock[g]] = fate[lock[g]]
        BY <2>4, <3>3 DEF TypeOK
      <4> QED
        BY <1>0, <2>1, <2>4, <3>3, <4>1 DEF Owned
    <3> QED
      BY <3>2, <3>3
  <2> QED
    BY <1>7, <2>2, <2>3, <2>4, LeaveEffect
<1>8. CASE UNCHANGED shared
  BY <1>2, <1>8, QuietEffect
<1> QED
  BY <1>1, <1>3, <1>4, <1>5, <1>6, <1>7, <1>8, StepKinds

(***************************************************************************)
(* The invariants hold                                                     *)
(***************************************************************************)

\* The inductive invariant holds initially.
LEMMA IInvInit == Init => IInv
<1> SUFFICES ASSUME Init PROVE IInv
  OBVIOUS
<1>1. TypeOK
  BY TypeInit
<1>2. worker.pc = "down" /\ worker.frame = 0 /\ worker.delivered = 0
  BY DEF Init, DownWorker, WorkerAt
<1>3. \A r \in Requests : request[r].pc = "idle"
  BY DEF Init, IdleRequest
<1>4. Live = {} /\ InFlight = {} /\ ToBeQueued = {}
  BY <1>3, ToSetOfShort DEF Init, Live, InFlight, ToBeQueued
<1>5. Len(processing) = 0 /\ DOMAIN queue = {} /\ DOMAIN processing = {}
  BY DEF Init
<1> QED
  BY <1>1, <1>2, <1>3, <1>4, <1>5 DEF Init, IInv, OnePending, Progress, NoDuplicateCommand,
     OwnTokens, Busy, HoldsLock, LockOfGame, HeldLockHasOwner

\* Every step preserves it.
LEMMA IInvNext == IInv /\ [Next]_vars => IInv'
BY TypeNext, OnePendingNext, ProgressNext, NoDuplicateNext, OwnTokensNext, HoldsLockNext,
   LockOfGameNext, HeldLockNext DEF IInv

\* Two commands that both hold the lock of their game are one command.
LEMMA IInvExclusive == IInv => ExclusiveReplay
<1> SUFFICES ASSUME IInv, NEW c \in Live \cup ToBeQueued, NEW d \in Live \cup ToBeQueued,
                    c.game = d.game, fate[c.token] # "lapsed", fate[d.token] # "lapsed"
             PROVE  c = d
  BY DEF ExclusiveReplay
<1>1. c.token = d.token
  BY DEF IInv, HoldsLock
<1>2. c \in Live \/ d \in Live => c = d
  BY <1>1, LiveToken DEF IInv
<1>3. c \in ToBeQueued /\ d \in ToBeQueued => c = d
  BY <1>1 DEF IInv, OwnTokens, ToBeQueued, Busy
<1> QED
  BY <1>2, <1>3

\* IInv holds in every reachable state.
THEOREM Inductive == Spec => []IInv
BY IInvInit, IInvNext, PTL DEF Spec

\* worker.py:27: the processing list holds at most the command the one worker
\* is on, however it crashes and restarts.
THEOREM PendingIsSingle == Spec => []OnePending
<1>1. IInv => OnePending
  BY DEF IInv
<1> QED
  BY <1>1, Inductive, PTL

\* No interleaving of handlers, failures and restarts puts a command in Redis
\* twice.
THEOREM NeverDuplicated == Spec => []NoDuplicateCommand
<1>1. IInv => NoDuplicateCommand
  BY DEF IInv
<1> QED
  BY <1>1, Inductive, PTL

\* README.md:256: only the matching token's lock is released, so two commands
\* of one game are alive only after a lock lapsed.
THEOREM ReplaysAreExclusive == Spec => []ExclusiveReplay
BY Inductive, IInvExclusive, PTL

\* A lock outlives its command only where the code leaves it to the TTL.
THEOREM LocksHaveOwners == Spec => []HeldLockHasOwner
<1>1. IInv => HeldLockHasOwner
  BY DEF IInv
<1> QED
  BY <1>1, Inductive, PTL
=============================================================================
