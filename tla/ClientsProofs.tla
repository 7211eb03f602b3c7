---------------------------- MODULE ClientsProofs ----------------------------
(* The page and the phone on the feed of a game, for games of any length, any *)
(* number of replays, drops and appearances, and any reconnect policy.        *)
EXTENDS Clients, TLAPS

(***************************************************************************)
(* The feed: what it counts, and what it has still to say                  *)
(***************************************************************************)

Run == [pc : {"none", "pending", "read", "running", "done"},
        next : 1..(Plays + 1), upto : 0..stored]

Connection == [pc : {"closed", "read", "open"}, next : 1..(Plays + 1), upto : 0..stored,
               drops : 0..MaxDrops]

\* A run that did not start has every play before it.
FeedInv == FeedTypeOK /\ \A p \in Player : replay[p].pc = "read" => replay[p].next = 1

\* A client accounts for its plays: without a connection for those up to "seen",
\* and on one for every play, also for those above "seen", which become holes
\* when a later frame overtakes them.
Accounted(timeline, seen, lost) ==
  IF connection.pc = "closed"
  THEN 1..seen \subseteq timeline \cup lost
  ELSE \A s \in 1..Plays : s <= stored \/ s <= seen => s \in timeline \cup lost \cup ToCome

\* The numbers of the feed.
LEMMA FeedNumbers ==
  ASSUME FeedInv
  PROVE  /\ Plays \in Nat /\ stored \in Nat /\ stored <= Plays /\ unpublished \subseteq 1..stored
         /\ commands \in Nat /\ commands <= MaxCommands /\ MaxCommands \in Nat
         /\ connection \in Connection /\ connection.next \in Nat /\ connection.next >= 1
         /\ connection.upto \in Nat /\ connection.upto <= stored
         /\ replay \in [Player -> Run] /\ "worker" \in Player /\ "api" \in Player
         /\ replay["worker"].pc # "none" => commands > 0
         /\ replay["api"].pc \in {"none", "read", "running"}
<1>1. /\ stored \in 0..Plays /\ commands \in 0..MaxCommands /\ unpublished \subseteq 1..stored
      /\ connection \in Connection /\ replay \in [Player -> Run]
  BY DEF FeedInv, FeedTypeOK, Connection, Run
<1> QED BY <1>1, FeedConstants DEF FeedInv, FeedTypeOK, Connection, Player

\* The numbers of one run.
LEMMA RunNumbers ==
  ASSUME FeedInv, NEW p \in Player
  PROVE  /\ replay[p] \in Run /\ replay[p].next \in Nat /\ replay[p].next >= 1
         /\ replay[p].upto \in Nat /\ replay[p].upto <= stored
         /\ replay[p] = [pc |-> replay[p].pc, next |-> replay[p].next, upto |-> replay[p].upto]
         /\ replay[p].pc = "read" => replay[p].next = 1
<1>1. replay[p] \in Run
  BY FeedNumbers
<1> QED BY <1>1, FeedNumbers DEF Run, FeedInv

\* A step of a run changes one of its fields.
LEMMA RunFields ==
  ASSUME NEW r \in Run, NEW x
  PROVE  /\ [r EXCEPT !.pc = x] = [pc |-> x, next |-> r.next, upto |-> r.upto]
         /\ [r EXCEPT !.next = x] = [pc |-> r.pc, next |-> x, upto |-> r.upto]
BY DEF Run

\* A run brings stored plays.
LEMMA ComingIsStored == ASSUME FeedInv, NEW p \in Player PROVE Coming(p) \subseteq 1..stored
BY RunNumbers, FeedNumbers DEF Coming

\* A step of one player leaves the other one's run alone.
LEMMA OneRun ==
  ASSUME FeedInv, NEW p \in Player, NEW r \in Run, replay' = [replay EXCEPT ![p] = r],
         UNCHANGED <<stored, unpublished, connection>>, commands' \in 0..MaxCommands,
         r.pc = "read" => r.next = 1,
         p = "api" => commands' = commands /\ r.pc \in {"none", "read", "running"},
         p = "worker" /\ r.pc # "none" => commands' > 0
  PROVE  /\ FeedInv' /\ replay'[p] = r
         /\ \A q \in Player \ {p} : replay'[q] = replay[q] /\ Coming(q)' = Coming(q)
<1>1. replay' \in [Player -> Run] /\ replay'[p] = r /\ \A q \in Player \ {p} : replay'[q] = replay[q]
  BY FeedNumbers
<1>2. FeedTypeOK'
  <2>1. replay'["api"].pc \in {"none", "read", "running"} /\ (replay'["worker"].pc # "none" => commands' > 0)
    BY <1>1, FeedNumbers DEF Player
  <2> QED BY <1>1, <2>1 DEF FeedInv, FeedTypeOK, Run
<1>3. \A q \in Player : replay'[q].pc = "read" => replay'[q].next = 1
  BY <1>1 DEF FeedInv
<1> QED BY <1>1, <1>2, <1>3 DEF FeedInv, Coming

\* A run that ends, or starts over, has no plays in its hands.
LEMMA IdleRun ==
  ASSUME FeedInv, NEW pc \in {"none", "pending", "read", "running", "done"}
  PROVE  Idle(pc) \in Run /\ Idle(pc).pc = pc /\ Idle(pc).next = 1
BY FeedNumbers DEF Idle, Run

\* A run has its plays before it when it reads them.
LEMMA ReadBrings ==
  ASSUME FeedInv, NEW p \in Player, ReadPlays(p), UNCHANGED <<stored, unpublished, connection>>,
         commands' \in 0..MaxCommands, p = "api" => commands' = commands, p = "worker" => commands' > 0
  PROVE  /\ FeedInv' /\ replay'[p].pc = "read" /\ Coming(p)' = 1..stored
         /\ \A q \in Player \ {p} : replay'[q] = replay[q] /\ Coming(q)' = Coming(q)
<1> DEFINE r == [pc |-> "read", next |-> 1, upto |-> stored]
<1>1. r \in Run
  BY FeedNumbers DEF Run
<1>2. FeedInv' /\ replay'[p] = r /\ \A q \in Player \ {p} : replay'[q] = replay[q] /\ Coming(q)' = Coming(q)
  BY <1>1, OneRun DEF ReadPlays
<1> QED BY <1>2 DEF Coming

\* A frame of a run carries what it no longer has before it.
LEMMA RunBrings ==
  ASSUME FeedInv, NEW p \in Player, NEW f \in Frame, RunOnce(p, f)
  PROVE  /\ FeedInv' /\ UNCHANGED <<stored, unpublished, commands, connection>>
         /\ \A q \in Player : Coming(q) \subseteq Coming(q)' \cup Carried(f)
         /\ \A q \in Player \ {p} : replay'[q] = replay[q]
         /\ Carried(f) \subseteq 1..stored
         /\ f.type = "replay_started" => f = Started
         /\ f.type = "play" => f # Started
         /\ replay[p].pc \in {"read", "running"}
         /\ f.type # "replay_completed" => replay'[p].pc = "running"
<1>1. UNCHANGED <<stored, unpublished, commands, connection>> /\ commands \in 0..MaxCommands
  BY FeedNumbers DEF RunOnce, StartReplay, ReplayPlay, CompleteReplay
<1>2. CASE StartReplay(p, f)
  <2> DEFINE r == [pc |-> "running", next |-> replay[p].next, upto |-> replay[p].upto]
  <2>1. replay[p].pc = "read" /\ f = Started /\ replay' = [replay EXCEPT ![p] = r]
    <3>1. [replay[p] EXCEPT !.pc = "running"] = r
      BY RunNumbers, RunFields
    <3> QED BY <1>2, <3>1 DEF StartReplay
  <2>2. r \in Run
    BY RunNumbers DEF Run
  <2>3. FeedInv' /\ replay'[p] = r /\ \A q \in Player \ {p} : replay'[q] = replay[q] /\ Coming(q)' = Coming(q)
    BY <1>1, <2>1, <2>2, OneRun, FeedNumbers
  <2>4. Coming(p) = 1..replay[p].upto /\ Coming(p)' = 1..replay[p].upto
    <3>1. replay[p].next = 1
      BY <2>1, RunNumbers
    <3>2. replay'[p].pc = "running" /\ replay'[p].next = 1 /\ replay'[p].upto = replay[p].upto
      BY <2>3, <3>1
    <3> QED BY <2>1, <3>2 DEF Coming
  <2>5. Carried(f) = {} /\ f.type = "replay_started"
    BY <2>1 DEF Carried, Started
  <2> QED BY <1>1, <2>1, <2>3, <2>4, <2>5
<1>3. CASE ReplayPlay(p, f)
  <2> DEFINE r == [pc |-> "running", next |-> replay[p].next + 1, upto |-> replay[p].upto]
  <2>1. /\ replay[p].pc = "running" /\ replay[p].next <= replay[p].upto
        /\ f = Play(replay[p].next) /\ replay' = [replay EXCEPT ![p] = r]
    <3>1. [replay[p] EXCEPT !.next = replay[p].next + 1]
            = [pc |-> replay[p].pc, next |-> replay[p].next + 1, upto |-> replay[p].upto]
      BY RunNumbers, RunFields
    <3> QED BY <1>3, <3>1 DEF ReplayPlay
  <2>2. r \in Run
    <3>1. replay[p].next + 1 \in 1..(Plays + 1) /\ replay[p].upto \in 0..stored
      BY <2>1, RunNumbers, FeedNumbers
    <3> QED BY <3>1 DEF Run
  <2>3. FeedInv' /\ replay'[p] = r /\ \A q \in Player \ {p} : replay'[q] = replay[q] /\ Coming(q)' = Coming(q)
    BY <1>1, <2>1, <2>2, OneRun, FeedNumbers
  <2>4. Carried(f) = {replay[p].next} /\ f.type = "play" /\ f # Started
    BY <2>1 DEF Carried, Play, Started
  <2>5. Coming(p) \subseteq Coming(p)' \cup Carried(f)
    <3>1. Coming(p) = replay[p].next..replay[p].upto
      BY <2>1 DEF Coming
    <3>2. Coming(p)' = (replay[p].next + 1)..replay[p].upto
      BY <2>3 DEF Coming
    <3>3. replay[p].next \in Nat /\ replay[p].upto \in Nat
      BY RunNumbers
    <3> QED BY <2>4, <3>1, <3>2, <3>3
  <2>6. Carried(f) \subseteq 1..stored
    BY <2>1, <2>4, RunNumbers, FeedNumbers
  <2> QED BY <1>1, <2>1, <2>3, <2>4, <2>5, <2>6
<1>4. CASE CompleteReplay(p, f)
  <2> DEFINE pc == IF p = "worker" THEN "done" ELSE "none"
  <2>1. /\ replay[p].pc = "running" /\ replay[p].next > replay[p].upto
        /\ f = Completed(replay[p].upto) /\ replay' = [replay EXCEPT ![p] = Idle(pc)]
    BY <1>4 DEF CompleteReplay
  <2>2. pc \in {"none", "done"} /\ (p = "api" => pc = "none") /\ pc # "read"
    BY DEF Player
  <2> HIDE DEF pc
  <2>3. FeedInv' /\ replay'[p] = Idle(pc) /\ \A q \in Player \ {p} : replay'[q] = replay[q] /\ Coming(q)' = Coming(q)
    BY <1>1, <2>1, <2>2, OneRun, IdleRun, FeedNumbers
  <2>4. Carried(f) = {} /\ f.type = "replay_completed"
    BY <2>1 DEF Carried, Completed
  <2>5. Coming(p) = {}
    <3>1. Coming(p) = replay[p].next..replay[p].upto
      BY <2>1 DEF Coming
    <3>2. replay[p].next \in Nat /\ replay[p].upto \in Nat
      BY RunNumbers
    <3> QED BY <2>1, <3>1, <3>2
  <2> QED BY <1>1, <2>1, <2>3, <2>4, <2>5
<1> QED BY <1>2, <1>3, <1>4 DEF RunOnce

\* A broadcast carries a play of ingestion or a frame of a run.
LEMMA BroadcastBrings ==
  ASSUME FeedInv, NEW f \in Frame, Broadcast(f)
  PROVE  /\ FeedInv' /\ stored' = stored /\ connection' = connection
         /\ ToCome \subseteq ToCome' \cup Carried(f)
         /\ Carried(f) \subseteq 1..stored
         /\ f.type = "replay_started" => f = Started /\ UnderWay'
         /\ f.type = "play" => f # Started
         /\ f.type # "replay_completed" /\ UnderWay => UnderWay'
<1>1. CASE AnnouncePlay(f)
  <2>1. PICK n \in unpublished : f = Play(n) /\ unpublished' = unpublished \ {n}
    BY <1>1 DEF AnnouncePlay
  <2>2. UNCHANGED <<stored, commands, replay, connection>>
    BY <1>1 DEF AnnouncePlay
  <2>3. Carried(f) = {n} /\ f.type = "play" /\ f # Started
    BY <2>1 DEF Carried, Play, Started
  <2>4. FeedInv'
    BY <2>1, <2>2 DEF FeedInv, FeedTypeOK
  <2>5. Coming("worker")' = Coming("worker") /\ Coming("api")' = Coming("api")
    BY <2>2 DEF Coming
  <2>6. ToCome \subseteq ToCome' \cup Carried(f)
    BY <2>1, <2>2, <2>3, <2>5 DEF ToCome
  <2>7. UnderWay' = UnderWay
    BY <2>2 DEF UnderWay
  <2> QED BY <2>1, <2>2, <2>3, <2>4, <2>6, <2>7, FeedNumbers
<1>2. ASSUME NEW p \in Player, RunOnce(p, f)
      PROVE  /\ FeedInv' /\ stored' = stored /\ connection' = connection
             /\ ToCome \subseteq ToCome' \cup Carried(f)
             /\ Carried(f) \subseteq 1..stored
             /\ f.type = "replay_started" => f = Started /\ UnderWay'
             /\ f.type = "play" => f # Started
             /\ f.type # "replay_completed" /\ UnderWay => UnderWay'
  <2>1. /\ FeedInv' /\ UNCHANGED <<stored, unpublished, commands, connection>>
        /\ \A q \in Player : Coming(q) \subseteq Coming(q)' \cup Carried(f)
        /\ \A q \in Player \ {p} : replay'[q] = replay[q]
        /\ Carried(f) \subseteq 1..stored
        /\ f.type = "replay_started" => f = Started
        /\ f.type = "play" => f # Started
        /\ replay[p].pc \in {"read", "running"}
        /\ f.type # "replay_completed" => replay'[p].pc = "running"
    BY <1>2, RunBrings
  <2>2. ToCome \subseteq ToCome' \cup Carried(f)
    BY <2>1, FeedNumbers DEF ToCome
  <2>3. f.type # "replay_completed" => UnderWay'
    <3>1. CASE p = "worker"
      BY <2>1, <3>1, FeedNumbers DEF UnderWay
    <3>2. CASE p = "api"
      BY <2>1, <3>2, FeedNumbers DEF UnderWay
    <3> QED BY <3>1, <3>2 DEF Player
  <2> QED BY <2>1, <2>2, <2>3
<1> QED BY <1>1, <1>2 DEF Broadcast

\* What a frame leaves to come, heard or not.
LEMMA FrameBrings ==
  ASSUME FeedInv, NEW f \in Frame, Broadcast(f) \/ SendBacklog(f) \/ Heartbeat(f)
  PROVE  /\ FeedInv' /\ stored' = stored /\ connection'.pc = connection.pc
         /\ ToCome \subseteq ToCome' \cup Carried(f)
         /\ Carried(f) \subseteq 1..stored
         /\ f.type = "replay_started" => f = Started
         /\ f.type = "play" => f # Started
<1>1. CASE Broadcast(f)
  BY <1>1, BroadcastBrings
<1>2. CASE SendBacklog(f)
  <2>1. /\ connection.pc = "open" /\ connection.next <= connection.upto /\ f = Play(connection.next)
        /\ connection' = [connection EXCEPT !.next = connection.next + 1]
        /\ UNCHANGED <<stored, unpublished, commands, replay>>
    BY <1>2 DEF SendBacklog
  <2>2. connection' = [pc |-> "open", next |-> connection.next + 1, upto |-> connection.upto,
                       drops |-> connection.drops]
    BY <2>1, FeedNumbers DEF Connection
  <2>3. Carried(f) = {connection.next} /\ f.type = "play" /\ f # Started
    BY <2>1 DEF Carried, Play, Started
  <2>4. FeedInv'
    <3>1. connection.next + 1 \in 1..(Plays + 1) /\ connection.upto \in 0..stored
      BY <2>1, FeedNumbers
    <3> QED BY <2>1, <2>2, <3>1, FeedNumbers DEF FeedInv, FeedTypeOK, Connection
  <2>5. Coming("worker")' = Coming("worker") /\ Coming("api")' = Coming("api")
    BY <2>1 DEF Coming
  <2>6. connection.next..connection.upto \subseteq (connection'.next..connection'.upto) \cup Carried(f)
    BY <2>2, <2>3, FeedNumbers
  <2>7. ToCome \subseteq ToCome' \cup Carried(f)
    BY <2>1, <2>5, <2>6 DEF ToCome
  <2> QED BY <2>1, <2>2, <2>3, <2>4, <2>7, FeedNumbers
<1>3. CASE Heartbeat(f)
  <2>1. UNCHANGED <<stored, unpublished, commands, replay, connection>>
    BY <1>3 DEF Heartbeat, feedVars
  <2>2. f.type = "heartbeat" /\ Carried(f) = {}
    BY <1>3 DEF Heartbeat, Beat, Carried
  <2>3. FeedInv' /\ ToCome' = ToCome
    BY <2>1 DEF FeedInv, FeedTypeOK, ToCome, Coming
  <2> QED BY <2>1, <2>2, <2>3
<1> QED BY <1>1, <1>2, <1>3

\* The feed does not see that a frame is lost.
LEMMA LostIsBroadcast == ASSUME NEW f, LoseFrame(f) PROVE Broadcast(f)
BY DEF LoseFrame, Broadcast, Player

\* What ingestion, the worker and the viewers do leaves no less to come.
LEMMA QuietBrings ==
  ASSUME FeedInv,
         \/ CommitPlay \/ AcceptReplay \/ ClaimReplay \/ DiscardReplay \/ InterruptReplay
         \/ AcknowledgeReplay \/ UNCHANGED feedVars
  PROVE  /\ FeedInv' /\ connection' = connection /\ stored' \in Nat /\ stored <= stored'
         /\ ToCome \cup ((stored + 1)..stored') \subseteq ToCome'
<1>1. CASE CommitPlay
  <2>1. /\ stored < Plays /\ stored' = stored + 1 /\ unpublished' = unpublished \cup {stored + 1}
        /\ UNCHANGED <<commands, replay, connection>>
    BY <1>1 DEF CommitPlay
  <2>2. FeedInv'
    <3>1. stored' \in 0..Plays /\ unpublished' \subseteq 1..stored' /\ 0..stored \subseteq 0..stored'
      BY <2>1, FeedNumbers
    <3>2. replay \in [Player -> Run'] /\ connection \in Connection'
      BY <2>1, <3>1, FeedNumbers DEF Run, Connection
    <3> QED BY <2>1, <3>1, <3>2 DEF FeedInv, FeedTypeOK, Run, Connection
  <2>3. \A p \in Player : Coming(p) \subseteq Coming(p)'
    BY <2>1, FeedNumbers DEF Coming
  <2>4. (stored + 1)..stored' \subseteq unpublished'
    BY <2>1, FeedNumbers
  <2> QED BY <2>1, <2>2, <2>3, <2>4, FeedNumbers DEF ToCome
<1> DEFINE Keeps == /\ FeedInv' /\ UNCHANGED <<stored, unpublished, connection>>
                    /\ Coming("worker") \subseteq Coming("worker")'
                    /\ Coming("api") \subseteq Coming("api")'
<1>2. /\ Coming("worker") \subseteq 1..stored /\ Coming("api") \subseteq 1..stored
      /\ "api" \in Player \ {"worker"} /\ "worker" \in Player \ {"api"}
  BY ComingIsStored, FeedNumbers
<1>3. ASSUME AcceptReplay PROVE Keeps
  <2>1. UNCHANGED <<stored, unpublished, connection>>
    BY <1>3 DEF AcceptReplay
  <2>2. CASE commands < MaxCommands /\ commands' = commands + 1 /\ UNCHANGED replay
    <3>1. commands' \in 0..MaxCommands /\ commands' > 0
      BY <2>2, FeedNumbers
    <3>2. FeedInv'
      BY <2>1, <2>2, <3>1 DEF FeedInv, FeedTypeOK
    <3> QED BY <2>1, <2>2, <3>2 DEF Coming
  <2>3. CASE replay["api"].pc = "none" /\ ReadPlays("api") /\ UNCHANGED commands
    <3>1. /\ FeedInv' /\ Coming("api")' = 1..stored
          /\ \A q \in Player \ {"api"} : Coming(q)' = Coming(q)
      BY <2>1, <2>3, ReadBrings, FeedNumbers
    <3> QED BY <1>2, <2>1, <3>1
  <2> QED BY <1>3, <2>2, <2>3 DEF AcceptReplay
<1>4. ASSUME ClaimReplay PROVE Keeps
  <2>1. UNCHANGED <<stored, unpublished, commands, connection>> /\ ReadPlays("worker") /\ commands > 0
    BY <1>4, FeedNumbers DEF ClaimReplay
  <2>2. /\ FeedInv' /\ Coming("worker")' = 1..stored
        /\ \A q \in Player \ {"worker"} : Coming(q)' = Coming(q)
    BY <2>1, ReadBrings, FeedNumbers
  <2> QED BY <1>2, <2>1, <2>2
<1>5. ASSUME DiscardReplay PROVE Keeps
  <2>1. UNCHANGED <<stored, unpublished, replay, connection>> /\ commands' \in 0..MaxCommands
        /\ replay["worker"].pc = "none"
    BY <1>5, FeedNumbers DEF DiscardReplay
  <2>2. FeedInv'
    BY <2>1 DEF FeedInv, FeedTypeOK
  <2> QED BY <2>1, <2>2 DEF Coming
<1>6. ASSUME InterruptReplay PROVE Keeps
  <2>1. /\ UNCHANGED <<stored, unpublished, commands, connection>>
        /\ replay["worker"].pc \in {"read", "running", "done"}
        /\ replay' = [replay EXCEPT !["worker"] = Idle("pending")]
    BY <1>6 DEF InterruptReplay
  <2>2. /\ FeedInv' /\ replay'["worker"] = Idle("pending")
        /\ \A q \in Player \ {"worker"} : Coming(q)' = Coming(q)
    <3>1. commands > 0 /\ commands \in 0..MaxCommands /\ "worker" # "api"
      BY <2>1, FeedNumbers
    <3> QED BY <2>1, <3>1, OneRun, IdleRun, FeedNumbers
  <2>3. Coming("worker")' = 1..stored
    BY <2>1, <2>2 DEF Coming, Idle
  <2> QED BY <1>2, <2>1, <2>2, <2>3
<1>7. ASSUME AcknowledgeReplay PROVE Keeps
  <2>1. /\ UNCHANGED <<stored, unpublished, connection>> /\ replay["worker"].pc = "done"
        /\ replay' = [replay EXCEPT !["worker"] = Idle("none")] /\ commands' \in 0..MaxCommands
    BY <1>7, FeedNumbers DEF AcknowledgeReplay
  <2>2. FeedInv' /\ \A q \in Player \ {"worker"} : Coming(q)' = Coming(q)
    BY <2>1, OneRun, IdleRun, FeedNumbers
  <2>3. Coming("worker") = {}
    BY <2>1 DEF Coming
  <2> QED BY <1>2, <2>1, <2>2, <2>3
<1>8. ASSUME UNCHANGED feedVars PROVE Keeps
  <2>1. UNCHANGED <<stored, unpublished, commands, replay, connection>>
    BY <1>8 DEF feedVars
  <2>2. FeedInv'
    BY <2>1 DEF FeedInv, FeedTypeOK
  <2> QED BY <2>1, <2>2 DEF Coming
<1>9. Keeps => ToCome \subseteq ToCome' /\ ToCome \cup ((stored + 1)..stored') \subseteq ToCome'
  BY FeedNumbers DEF ToCome
<1> HIDE DEF Keeps
<1>10. Keeps => FeedInv' /\ connection' = connection /\ stored' = stored
  BY DEF Keeps
<1> QED BY <1>1, <1>3, <1>4, <1>5, <1>6, <1>7, <1>8, <1>9, <1>10, FeedNumbers

\* A replay that is under way stays so until it is acknowledged, discarded or
\* failed; one that is accepted is under way.
LEMMA QuietUnderWay ==
  ASSUME FeedInv,
         \/ CommitPlay \/ AcceptReplay \/ ClaimReplay \/ InterruptReplay \/ AcknowledgeReplay
  PROVE  (UnderWay => UnderWay') /\ (AcceptReplay => UnderWay')
<1>1. CASE CommitPlay
  BY <1>1 DEF CommitPlay, AcceptReplay, UnderWay
<1>2. CASE AcceptReplay
  <2>1. CASE commands' = commands + 1 /\ UNCHANGED replay
    BY <2>1, FeedNumbers DEF UnderWay
  <2>2. CASE ReadPlays("api")
    <3>1. replay'["api"].pc = "read"
      BY <2>2, FeedNumbers DEF ReadPlays
    <3> QED BY <3>1 DEF UnderWay
  <2> QED BY <1>2, <2>1, <2>2 DEF AcceptReplay
<1>3. CASE ClaimReplay
  <2>1. commands' = commands /\ commands > 0 /\ replay'["worker"].pc = "read"
    BY <1>3, FeedNumbers DEF ClaimReplay, ReadPlays
  <2> QED BY <2>1, FeedNumbers DEF UnderWay
<1>4. CASE InterruptReplay
  <2>1. commands' = commands /\ commands > 0 /\ replay'["worker"].pc = "pending"
    BY <1>4, FeedNumbers DEF InterruptReplay, Idle
  <2> QED BY <2>1, FeedNumbers DEF UnderWay
<1>5. CASE AcknowledgeReplay
  <2>1. /\ replay["worker"].pc = "done" /\ commands' = commands - 1 /\ replay'["worker"].pc = "none"
        /\ replay'["api"] = replay["api"]
    BY <1>5, FeedNumbers DEF AcknowledgeReplay, Idle
  <2>2. UnderWay => UnderWay'
    BY <2>1, FeedNumbers DEF UnderWay
  <2>3. ~AcceptReplay
    <3>1. replay' # replay /\ commands' # commands
      BY <2>1, FeedNumbers
    <3> QED BY <3>1, FeedNumbers DEF AcceptReplay
  <2> QED BY <2>2, <2>3
<1> QED BY <1>1, <1>2, <1>3, <1>4, <1>5

\* What the API's own run had still to send goes with it.
LEMMA FailBrings ==
  ASSUME FeedInv, FailReplay
  PROVE  /\ FeedInv' /\ connection' = connection /\ stored' = stored
         /\ ToCome \subseteq ToCome' \cup Coming("api") /\ Coming("api") \subseteq 1..stored
<1>1. /\ UNCHANGED <<stored, unpublished, commands, connection>>
      /\ replay' = [replay EXCEPT !["api"] = Idle("none")]
  BY DEF FailReplay
<1>2. FeedInv' /\ Coming("worker")' = Coming("worker")
  <2>1. commands \in 0..MaxCommands /\ "worker" \in Player \ {"api"} /\ Idle("none") \in Run
        /\ Idle("none").pc = "none"
    BY FeedNumbers, IdleRun
  <2> QED BY <1>1, <2>1, OneRun, FeedNumbers
<1> QED BY <1>1, <1>2, ComingIsStored, FeedNumbers DEF ToCome

\* A connection that is asked for reads all that is stored after the last play.
LEMMA ConnectBrings ==
  ASSUME FeedInv, NEW after \in 0..Plays, Connect(after)
  PROVE  /\ FeedInv' /\ stored' = stored /\ connection.pc = "closed" /\ connection'.pc = "read"
         /\ (after + 1)..stored \subseteq ToCome'
<1>1. /\ connection.pc = "closed" /\ UNCHANGED <<stored, unpublished, commands, replay>>
      /\ connection' = [connection EXCEPT !.pc = "read", !.next = after + 1, !.upto = stored]
  BY DEF Connect
<1>2. connection' = [pc |-> "read", next |-> after + 1, upto |-> stored, drops |-> connection.drops]
  BY <1>1, FeedNumbers DEF Connection
<1>3. connection' \in Connection
  <2>1. after + 1 \in 1..(Plays + 1) /\ stored \in 0..stored
    BY FeedNumbers
  <2> QED BY <1>2, <2>1, FeedNumbers DEF Connection
<1>4. FeedInv'
  BY <1>1, <1>3 DEF FeedInv, FeedTypeOK, Connection
<1> QED BY <1>1, <1>2, <1>4 DEF ToCome

\* Registration changes who hears a frame, not what is to come.
LEMMA RegisterBrings ==
  ASSUME FeedInv, Register
  PROVE  /\ FeedInv' /\ stored' = stored /\ connection.pc = "read" /\ connection'.pc = "open"
         /\ ToCome' = ToCome
<1>1. /\ connection.pc = "read" /\ UNCHANGED <<stored, unpublished, commands, replay>>
      /\ connection' = [connection EXCEPT !.pc = "open"]
  BY DEF Register
<1>2. connection' = [pc |-> "open", next |-> connection.next, upto |-> connection.upto,
                     drops |-> connection.drops]
  BY <1>1, FeedNumbers DEF Connection
<1>3. connection' \in Connection
  BY <1>2, FeedNumbers DEF Connection
<1>4. FeedInv'
  BY <1>1, <1>3 DEF FeedInv, FeedTypeOK, Connection
<1> QED BY <1>1, <1>2, <1>4 DEF ToCome, Coming

\* A client without a connection.
LEMMA NoConnectionBrings ==
  ASSUME FeedInv, NEW drops \in 0..MaxDrops, connection' = NoConnection(drops),
         UNCHANGED <<stored, unpublished, commands, replay>>
  PROVE  FeedInv' /\ connection'.pc = "closed"
<1>1. connection' \in Connection
  BY FeedNumbers DEF Connection, NoConnection
<1> QED BY <1>1 DEF FeedInv, FeedTypeOK, Connection, NoConnection

\* A connection that ends.
LEMMA DropBrings ==
  ASSUME FeedInv, Drop
  PROVE  /\ FeedInv' /\ stored' = stored /\ connection.pc # "closed" /\ connection'.pc = "closed"
<1>1. /\ connection.pc # "closed" /\ UNCHANGED <<stored, unpublished, commands, replay>>
      /\ connection.drops < MaxDrops /\ connection' = NoConnection(connection.drops + 1)
  BY DEF Drop
<1>2. connection.drops + 1 \in 0..MaxDrops
  BY <1>1, FeedNumbers, FeedConstants DEF Connection
<1> QED BY <1>1, <1>2, NoConnectionBrings

\* A step that goes by unheard leaves every play in the timeline, lost, or to
\* come, as long as what passes the connection by is counted as lost.
LEMMA PassedByIsLost ==
  ASSUME FeedInv, NEW timeline, NEW seen, NEW lost, NEW plays, Accounted(timeline, seen, lost),
         connection.pc # "closed", stored' \in Nat,
         ToCome \cup ((stored + 1)..stored') \subseteq ToCome' \cup plays
  PROVE  \A s \in 1..Plays : s <= stored' \/ s <= seen =>
           s \in timeline \cup (lost \cup (PassedBy(plays) \ timeline)) \cup ToCome'
<1> SUFFICES ASSUME NEW s \in 1..Plays, s <= stored' \/ s <= seen
             PROVE  s \in timeline \cup lost \cup plays \cup ToCome'
  BY DEF PassedBy
<1>1. CASE s <= stored \/ s <= seen
  BY <1>1 DEF Accounted
<1>2. CASE ~(s <= stored \/ s <= seen)
  <2>1. s \in (stored + 1)..stored'
    BY <1>2, FeedNumbers
  <2> QED BY <2>1
<1> QED BY <1>1, <1>2

(***************************************************************************)
(* WebClient: the connection and the replay flag                           *)
(***************************************************************************)

Web == [mode : {"loading", "connecting", "connected", "polling"},
        snapshot : 0..Plays, timeline : SUBSET (1..Plays), seen : -1..Plays,
        replaying : BOOLEAN, attempt : 0..(MaxReconnectAttempts + 1),
        timer : BOOLEAN, unfinished : BOOLEAN]

StartState == [pc : {"idle", "asking", "accepted"}, snapshot : 0..Plays, dropped : BOOLEAN]

\* A page that has a connection waits for it or listens, with no retry due.
ConnectedIsAlone ==
  connection.pc # "closed" => ~web.timer /\ web.mode \in {"connecting", "connected"}

\* A page that polls has no retry due.
PollingIsAlone == web.mode = "polling" => ~web.timer

\* An accepted start has its replay, unless the end of it was heard or missed.
AcceptedIsKnown ==
  start.pc = "accepted" /\ web.replaying => UnderWay \/ web.unfinished

FlagInv == ConnectedIsAlone /\ PollingIsAlone /\ AcceptedIsKnown /\ ReplayingIsKnown

\* A page that connects, or waits to, has a snapshot and an attempt left.
WebBounds ==
  /\ web.timer \/ connection.pc # "closed" => web.attempt <= MaxReconnectAttempts
  /\ web.mode = "loading" => ~web.timer /\ start.pc = "idle" /\ web.attempt = 0
  /\ web.mode # "loading" => web.seen >= 0

\* A page that follows the feed accounts for its plays; a start under way would
\* put the plays of its snapshot back, and no play is shown that neither the
\* snapshot nor the feed brought.
WebAccounts ==
  web.mode \in {"connecting", "connected"} =>
    /\ Accounted(web.timeline, web.seen, webLost)
    /\ start.pc # "idle" => start.snapshot = web.snapshot
    /\ web.timeline \subseteq (1..web.seen) \cup (1..web.snapshot)

PlaysInv == FeedInv /\ WebTypeOK /\ WebBounds /\ WebAccounts

WebInv == FlagInv /\ PlaysInv

allVars == <<feedVars, webVars>>

\* The shape of the page, and how its connection bounds its mode.
LEMMA WebShape ==
  ASSUME WebInv
  PROVE  /\ web \in Web /\ web.seen \in Int /\ web.seen <= Plays /\ web.snapshot \in 0..Plays
         /\ start \in StartState /\ FeedInv
         /\ webLost \subseteq 1..Plays /\ web.timeline \subseteq 1..Plays
         /\ web.attempt \in Nat /\ MaxReconnectAttempts \in Nat
         /\ connection.pc # "closed" => ~web.timer /\ web.mode \in {"connecting", "connected"}
         /\ web.mode = "polling" => connection.pc = "closed" /\ ~web.timer
BY WebConstants, FeedConstants
   DEF WebInv, PlaysInv, WebTypeOK, Web, StartState, FlagInv, ConnectedIsAlone, PollingIsAlone

\* A step that touches neither mode, timer nor connection.
KeepsConnection ==
  web'.mode = web.mode /\ web'.timer = web.timer /\ connection'.pc = connection.pc

\* A step that touches neither the flag, the start nor the replay's end.
KeepsReplay ==
  /\ web'.replaying => web.replaying
  /\ web.unfinished => web'.unfinished
  /\ start'.pc = start.pc
  /\ UnderWay => UnderWay'

\* What a step keeps by leaving the connection, or the replay, as it is.
LEMMA Kept ==
  ASSUME FlagInv
  PROVE  /\ KeepsConnection => ConnectedIsAlone' /\ PollingIsAlone'
         /\ KeepsReplay => AcceptedIsKnown' /\ ReplayingIsKnown'
BY DEF FlagInv, KeepsConnection, KeepsReplay, ConnectedIsAlone, PollingIsAlone, AcceptedIsKnown,
       ReplayingIsKnown

\* onmessage leaves mode and timer alone; the flag follows the replay's frames.
LEMMA ReceiveEffect ==
  ASSUME web \in Web, NEW f \in Frame, WebReceive(f)
  PROVE  /\ web'.mode = web.mode /\ web'.timer = web.timer /\ start' = start
         /\ f.type = "replay_completed" => ~web'.replaying
         /\ f.type \notin {"replay_started", "replay_completed"} =>
              web'.replaying = web.replaying /\ web'.unfinished = web.unfinished
<1> DEFINE heard == [web EXCEPT !.attempt = 0]
<1>1. CASE f.type = "replay_started"
  BY <1>1 DEF WebReceive, Rewound, Web
<1>2. CASE f.type = "replay_completed"
  BY <1>2 DEF WebReceive, Finished, Web
<1>3. CASE f.type = "play"
  BY <1>3 DEF WebReceive, Merged, Web
<1>4. CASE f.type \notin {"replay_started", "replay_completed", "play"}
  BY <1>4 DEF WebReceive, Web
<1> QED BY <1>1, <1>2, <1>3, <1>4

\* What goes by unheard may end a replay, and changes nothing else of the page.
LEMMA MissesEffect ==
  ASSUME web \in Web, NEW plays, NEW end \in BOOLEAN, WebMisses(plays, end)
  PROVE  /\ web' \in Web /\ web'.mode = web.mode /\ web'.timer = web.timer
         /\ web'.attempt = web.attempt /\ web'.snapshot = web.snapshot
         /\ web'.seen = web.seen /\ web'.timeline = web.timeline
         /\ web'.replaying = web.replaying
         /\ (web.unfinished => web'.unfinished) /\ (end => web'.unfinished)
         /\ start' = start /\ webLost' = webLost \cup (PassedBy(plays) \ web.timeline)
BY DEF WebMisses, Web

\* A frame of the feed, heard or not, keeps the flags.
LEMMA FrameFlagInv ==
  ASSUME WebInv, NEW f \in Frame,
         \/ Broadcast(f) /\ (WebReceive(f) \/ WebMissesFrame(f))
         \/ (SendBacklog(f) \/ Heartbeat(f)) /\ WebReceive(f)
  PROVE  FlagInv'
<1>0. web \in Web /\ FlagInv /\ FeedInv
  BY WebShape DEF WebInv
<1>1. CASE Broadcast(f) /\ WebReceive(f)
  <2>1. KeepsConnection
    BY <1>0, <1>1, BroadcastBrings, ReceiveEffect DEF KeepsConnection
  <2>2. AcceptedIsKnown' /\ ReplayingIsKnown'
    <3>1. CASE f.type = "replay_started"
      BY <1>0, <1>1, <3>1, BroadcastBrings DEF AcceptedIsKnown, ReplayingIsKnown
    <3>2. CASE f.type = "replay_completed"
      BY <1>0, <1>1, <3>2, ReceiveEffect DEF AcceptedIsKnown, ReplayingIsKnown
    <3>3. CASE f.type \notin {"replay_started", "replay_completed"}
      BY <1>0, <1>1, <3>3, BroadcastBrings, ReceiveEffect, Kept DEF KeepsReplay
    <3> QED BY <3>1, <3>2, <3>3
  <2> QED BY <1>0, <2>1, <2>2, Kept DEF FlagInv
<1>2. CASE Broadcast(f) /\ WebMissesFrame(f)
  <2> DEFINE end == f.type = "replay_completed"
  <2>1. end \in BOOLEAN /\ WebMisses(Carried(f), end)
    BY <1>2 DEF WebMissesFrame
  <2>2. /\ web'.mode = web.mode /\ web'.timer = web.timer /\ web'.replaying = web.replaying
        /\ (web.unfinished => web'.unfinished) /\ (end => web'.unfinished) /\ start' = start
    BY <1>0, <2>1, MissesEffect
  <2>3. KeepsConnection
    BY <1>0, <1>2, <2>2, BroadcastBrings DEF KeepsConnection
  <2>4. AcceptedIsKnown' /\ ReplayingIsKnown'
    <3>1. CASE end
      BY <2>2, <3>1 DEF AcceptedIsKnown, ReplayingIsKnown
    <3>2. CASE ~end
      BY <1>0, <1>2, <2>2, <3>2, BroadcastBrings, Kept DEF KeepsReplay
    <3> QED BY <3>1, <3>2
  <2> QED BY <1>0, <2>3, <2>4, Kept DEF FlagInv
<1>3. CASE (SendBacklog(f) \/ Heartbeat(f)) /\ WebReceive(f)
  <2>1. f.type \notin {"replay_started", "replay_completed"}
    BY <1>3 DEF SendBacklog, Heartbeat, Play, Beat
  <2>2. connection'.pc = connection.pc /\ replay' = replay /\ commands' = commands
    BY <1>0, <1>3, FrameBrings DEF SendBacklog, Heartbeat, feedVars
  <2>3. UnderWay' = UnderWay
    BY <2>2 DEF UnderWay
  <2>4. KeepsConnection /\ KeepsReplay
    BY <1>0, <1>3, <2>1, <2>2, <2>3, ReceiveEffect DEF KeepsConnection, KeepsReplay
  <2> QED BY <1>0, <2>4, Kept DEF FlagInv
<1> QED BY <1>1, <1>2, <1>3

\* Every step of the page, the API and the worker keeps the flags.
LEMMA FlagStepInv ==
  ASSUME WebInv, WebNext \/ UNCHANGED allVars
  PROVE  FlagInv'
<1>0. /\ web \in Web /\ start \in StartState /\ FlagInv /\ FeedInv /\ connection \in Connection
  BY WebShape, FeedNumbers DEF WebInv
<1> USE DEF FlagInv
<1>1. ASSUME NEW f \in Frame,
             \/ Broadcast(f) /\ (WebReceive(f) \/ WebMissesFrame(f))
             \/ (SendBacklog(f) \/ Heartbeat(f)) /\ WebReceive(f)
      PROVE  FlagInv'
  BY <1>1, FrameFlagInv
<1>2. ASSUME \/ CommitPlay \/ ClaimReplay \/ InterruptReplay \/ AcknowledgeReplay \/ AcceptReplay,
             UNCHANGED web, start'.pc = start.pc
      PROVE  FlagInv'
  <2>1. KeepsConnection /\ KeepsReplay
    BY <1>0, <1>2, QuietBrings, QuietUnderWay DEF KeepsConnection, KeepsReplay
  <2> QED BY <1>0, <2>1, Kept
<1>3. ASSUME UNCHANGED feedVars PROVE connection' = connection /\ UnderWay' = UnderWay
  BY <1>3 DEF feedVars, UnderWay
<1>4. ASSUME UNCHANGED <<replay, commands>> PROVE UnderWay' = UnderWay
  BY <1>4 DEF UnderWay
<1>5. CASE WebMissesEnd
  <2>1. connection' = connection
    BY <1>5 DEF WebMissesEnd, DiscardReplay, FailReplay
  <2>2. web'.mode = web.mode /\ web'.timer = web.timer /\ web'.unfinished
    BY <1>0, <1>5, MissesEffect DEF WebMissesEnd
  <2>3. KeepsConnection
    BY <2>1, <2>2 DEF KeepsConnection
  <2>4. AcceptedIsKnown' /\ ReplayingIsKnown'
    BY <2>2 DEF AcceptedIsKnown, ReplayingIsKnown
  <2> QED BY <1>0, <2>3, <2>4, Kept
<1>6. CASE LoadSnapshot
  <2>1. KeepsReplay
    BY <1>0, <1>3, <1>6 DEF LoadSnapshot, KeepsReplay, Web
  <2>2. ConnectedIsAlone' /\ PollingIsAlone'
    BY <1>0, <1>3, <1>6 DEF LoadSnapshot, Web, ConnectedIsAlone, PollingIsAlone
  <2> QED BY <1>0, <2>1, <2>2, Kept
<1>7. CASE WebConnect
  <2>1. KeepsReplay
    BY <1>0, <1>4, <1>7 DEF WebConnect, Connect, KeepsReplay, Web
  <2>2. ConnectedIsAlone' /\ PollingIsAlone'
    BY <1>0, <1>7 DEF WebConnect, Web, ConnectedIsAlone, PollingIsAlone
  <2> QED BY <1>0, <2>1, <2>2, Kept
<1>8. CASE WebOpens
  <2>1. KeepsReplay
    BY <1>0, <1>4, <1>8 DEF WebOpens, Register, KeepsReplay, Web
  <2>2. ConnectedIsAlone' /\ PollingIsAlone'
    BY <1>0, <1>8 DEF WebOpens, Register, Web, ConnectedIsAlone, PollingIsAlone
  <2> QED BY <1>0, <2>1, <2>2, Kept
<1>9. CASE WebCloses
  <2>1. KeepsReplay
    BY <1>0, <1>4, <1>9 DEF WebCloses, Drop, AfterClose, KeepsReplay, Web
  <2>2. ConnectedIsAlone' /\ PollingIsAlone'
    BY <1>0, <1>9 DEF WebCloses, Drop, NoConnection, AfterClose, Web, ConnectedIsAlone, PollingIsAlone
  <2> QED BY <1>0, <2>1, <2>2, Kept
<1>10. CASE Poll
  <2>1. KeepsReplay /\ KeepsConnection
    BY <1>0, <1>3, <1>10 DEF Poll, Web, KeepsReplay, KeepsConnection
  <2> QED BY <1>0, <2>1, Kept
<1>11. CASE ClickReplay
  <2>1. KeepsConnection
    BY <1>0, <1>3, <1>11 DEF ClickReplay, Web, KeepsConnection
  <2>2. AcceptedIsKnown' /\ ReplayingIsKnown'
    BY <1>11 DEF ClickReplay, NoStart, AcceptedIsKnown, ReplayingIsKnown
  <2> QED BY <1>0, <2>1, <2>2, Kept
<1>12. CASE StartAccepted
  <2>1. KeepsConnection
    BY <1>0, <1>12, QuietBrings DEF StartAccepted, KeepsConnection
  <2>2. AcceptedIsKnown' /\ ReplayingIsKnown'
    BY <1>0, <1>12, QuietUnderWay DEF StartAccepted, AcceptedIsKnown, ReplayingIsKnown
  <2> QED BY <1>0, <2>1, <2>2, Kept
<1>13. CASE StartReturns
  <2>1. KeepsConnection
    BY <1>3, <1>13 DEF StartReturns, KeepsConnection
  <2>2. AcceptedIsKnown' /\ ReplayingIsKnown'
    BY <1>0, <1>3, <1>13 DEF StartReturns, NoStart, AcceptedIsKnown, ReplayingIsKnown
  <2> QED BY <1>0, <2>1, <2>2, Kept
<1>14. CASE StartFails
  <2>1. KeepsConnection
    BY <1>0, <1>3, <1>14 DEF StartFails, Web, KeepsConnection
  <2>2. ~web'.replaying
    BY <1>0, <1>14 DEF StartFails, Web
  <2> QED BY <1>0, <2>1, <2>2, Kept DEF AcceptedIsKnown, ReplayingIsKnown
<1>15. CASE UNCHANGED allVars
  <2>1. KeepsConnection /\ KeepsReplay
    BY <1>3, <1>15 DEF allVars, webVars, KeepsConnection, KeepsReplay
  <2> QED BY <1>0, <2>1, Kept
<1>16. CASE OtherViewerStarts
  BY <1>2, <1>16 DEF OtherViewerStarts, webVars
<1>17. CASE (CommitPlay \/ ClaimReplay \/ InterruptReplay \/ AcknowledgeReplay) /\ UNCHANGED webVars
  BY <1>2, <1>17 DEF webVars
<1>18. ASSUME NEW f \in Frame,
              \/ Broadcast(f) /\ (IF connection.pc = "open" THEN WebReceive(f) ELSE WebMissesFrame(f))
              \/ LoseFrame(f) /\ WebMissesFrame(f)
              \/ SendBacklog(f) /\ WebReceive(f)
              \/ Heartbeat(f) /\ WebReceive(f)
       PROVE  FlagInv'
  BY <1>1, <1>18, LostIsBroadcast
<1> HIDE DEF FlagInv
<1> QED BY <1>5, <1>6, <1>7, <1>8, <1>9, <1>10, <1>11, <1>12, <1>13, <1>14, <1>15, <1>16, <1>17, <1>18
        DEF WebNext

(***************************************************************************)
(* WebClient: the plays of the page                                        *)
(***************************************************************************)

\* A feed that stands still keeps its invariant and what is to come.
LEMMA StandsStill ==
  ASSUME FeedInv, UNCHANGED feedVars
  PROVE  FeedInv' /\ UNCHANGED <<stored, connection>> /\ ToCome' = ToCome
BY DEF feedVars, FeedInv, FeedTypeOK, ToCome, Coming

\* A frame that is heard: it joins the timeline, or starts it over.
LEMMA HeardInv ==
  ASSUME WebInv, NEW f \in Frame, Broadcast(f) \/ SendBacklog(f) \/ Heartbeat(f),
         connection.pc = "open", WebReceive(f)
  PROVE  PlaysInv'
<1> DEFINE heard == [web EXCEPT !.attempt = 0]
<1>0. /\ web \in Web /\ web.mode \in {"connecting", "connected"} /\ ~web.timer
      /\ web.seen \in Int /\ web.seen >= 0 /\ web.seen <= Plays /\ FeedInv
      /\ Accounted(web.timeline, web.seen, webLost)
      /\ start.pc # "idle" => start.snapshot = web.snapshot
      /\ web.timeline \subseteq (1..web.seen) \cup (1..web.snapshot)
      /\ webLost \subseteq 1..Plays /\ start' = start /\ MaxReconnectAttempts \in Nat
  BY WebShape DEF WebInv, PlaysInv, WebBounds, WebAccounts, WebReceive
<1>1. /\ FeedInv' /\ stored' = stored /\ connection'.pc = "open"
      /\ ToCome \subseteq ToCome' \cup Carried(f) /\ Carried(f) \subseteq 1..stored
      /\ f.type = "replay_started" => f = Started
      /\ f.type = "play" => f # Started
  BY <1>0, FrameBrings
<1>2. ASSUME web' \in Web, web'.mode = web.mode, web'.timer = web.timer, web'.attempt = 0,
             web'.snapshot = web.snapshot, web'.seen >= 0, webLost' \subseteq 1..Plays,
             web'.timeline \subseteq (1..web'.seen) \cup (1..web.snapshot),
             \A s \in 1..Plays : s <= stored \/ s <= web'.seen =>
               s \in web'.timeline \cup webLost' \cup ToCome'
      PROVE  PlaysInv'
  <2>1. WebTypeOK'
    BY <1>0, <1>2, WebShape DEF WebTypeOK, Web, StartState
  <2>2. WebBounds'
    BY <1>0, <1>2 DEF WebBounds
  <2>3. Accounted(web.timeline, web.seen, webLost)'
    BY <1>1, <1>2 DEF Accounted
  <2> QED BY <1>0, <1>1, <1>2, <2>1, <2>2, <2>3 DEF PlaysInv, WebAccounts
<1>3. \A s \in 1..Plays : s <= stored \/ s <= web.seen =>
        s \in web.timeline \cup webLost \cup ToCome' \cup Carried(f)
  BY <1>0, <1>1 DEF Accounted
<1>4. CASE f.type = "replay_started"
  <2>1. web' = Rewound(heard) /\ webLost' = (webLost \cup web.timeline) \ ToCome'
    BY <1>1, <1>4 DEF WebReceive
  <2>2. /\ web' \in Web /\ web'.mode = web.mode /\ web'.timer = web.timer /\ web'.attempt = 0
        /\ web'.snapshot = web.snapshot /\ web'.seen = 0 /\ web'.timeline = {}
    <3>1. 0 \in -1..Plays
      BY <1>0, FeedNumbers
    <3>2. web' = [mode |-> web.mode, snapshot |-> web.snapshot, timeline |-> {}, seen |-> 0,
                  replaying |-> TRUE, attempt |-> 0, timer |-> web.timer, unfinished |-> FALSE]
      BY <1>0, <2>1 DEF Rewound, Web
    <3> QED BY <1>0, <3>1, <3>2 DEF Web
  <2>3. Carried(f) = {}
    BY <1>4 DEF Carried
  <2>4. ASSUME NEW s \in 1..Plays, s <= stored
        PROVE  s \in webLost' \cup ToCome'
    BY <1>3, <2>1, <2>3, <2>4
  <2> QED BY <1>0, <1>2, <2>1, <2>2, <2>4, WebShape, FeedNumbers
<1>5. CASE f.type = "play"
  <2> DEFINE n == f.sequence
             seen == IF web.seen < n THEN n ELSE web.seen
  <2>1. web' = Merged(heard, n) /\ webLost' = webLost \ web'.timeline
    BY <1>1, <1>5 DEF WebReceive
  <2>2. n \in 1..stored /\ Carried(f) = {n}
    BY <1>1, <1>5 DEF Carried
  <2>3. seen \in 0..Plays /\ web.seen <= seen /\ n <= seen /\ seen \in {n, web.seen}
    BY <1>0, <2>2, FeedNumbers
  <2>4. heard \in Web /\ heard.seen = web.seen /\ heard.timeline = web.timeline
        /\ heard.mode = web.mode /\ heard.timer = web.timer /\ heard.attempt = 0
        /\ heard.snapshot = web.snapshot
    BY <1>0 DEF Web
  <2>5. web' = [heard EXCEPT !.seen = seen, !.timeline = web.timeline \cup {n}]
    BY <2>1, <2>4 DEF Merged
  <2> HIDE DEF heard, seen, n
  <2>6. /\ web' \in Web /\ web'.mode = web.mode /\ web'.timer = web.timer /\ web'.attempt = 0
        /\ web'.snapshot = web.snapshot /\ web'.seen = seen /\ web'.timeline = web.timeline \cup {n}
    <3>1. seen \in -1..Plays /\ web.timeline \cup {n} \subseteq 1..Plays
      BY <1>0, <2>2, <2>3, FeedNumbers, WebShape
    <3> QED BY <2>4, <2>5, <3>1 DEF Web
  <2>7. web'.timeline \subseteq (1..web'.seen) \cup (1..web.snapshot)
    BY <1>0, <2>2, <2>3, <2>6, WebShape, FeedNumbers
  <2>8. ASSUME NEW s \in 1..Plays, s <= stored \/ s <= seen
        PROVE  s \in web'.timeline \cup webLost' \cup ToCome'
    <3>1. s <= stored \/ s <= web.seen
      <4>1. CASE seen = n
        BY <1>0, <2>2, <2>8, <4>1, FeedNumbers
      <4> QED BY <2>3, <2>8, <4>1
    <3> QED BY <1>3, <2>1, <2>2, <2>6, <3>1
  <2>9. webLost' \subseteq 1..Plays /\ web'.seen >= 0
    <3>1. webLost' \subseteq 1..Plays
      BY <1>0, <2>1
    <3>2. seen >= 0
      BY <2>3, FeedNumbers, <1>0
    <3> QED BY <2>6, <3>1, <3>2
  <2>10. \A s \in 1..Plays : s <= stored \/ s <= web'.seen =>
           s \in web'.timeline \cup webLost' \cup ToCome'
    BY <2>6, <2>8
  <2> QED BY <1>2, <2>6, <2>7, <2>9, <2>10
<1>6. CASE f.type \notin {"replay_started", "play"}
  <2>1. /\ web' \in Web /\ web'.mode = web.mode /\ web'.timer = web.timer /\ web'.attempt = 0
        /\ web'.snapshot = web.snapshot /\ web'.seen = web.seen /\ web'.timeline = web.timeline
    <3>1. heard \in Web /\ heard.seen = web.seen /\ heard.timeline = web.timeline
          /\ heard.mode = web.mode /\ heard.timer = web.timer /\ heard.attempt = 0
          /\ heard.snapshot = web.snapshot
      BY <1>0 DEF Web
    <3>2. web' = heard \/ web' = [heard EXCEPT !.replaying = FALSE]
      BY <1>6 DEF WebReceive, Finished
    <3> HIDE DEF heard
    <3> QED BY <3>1, <3>2 DEF Web
  <2>2. Carried(f) = {} /\ f # Started
    BY <1>6 DEF Carried, Started
  <2>3. webLost' = webLost \ web'.timeline
    BY <2>2 DEF WebReceive
  <2> QED BY <1>0, <1>2, <1>3, <2>1, <2>2, <2>3
<1> QED BY <1>4, <1>5, <1>6

\* A step that moves neither the timeline nor the socket of the page: the plays
\* that pass it by are lost, for a known reason.
LEMMA UnheardInv ==
  ASSUME WebInv, NEW plays, plays \subseteq 1..Plays,
         FeedInv', connection'.pc = connection.pc, stored' \in Nat, stored <= stored',
         ToCome \cup ((stored + 1)..stored') \subseteq ToCome' \cup plays,
         web' \in Web, web'.mode = web.mode, web'.timer = web.timer, web'.attempt = web.attempt,
         web'.snapshot = web.snapshot, web'.seen = web.seen, web'.timeline = web.timeline,
         start' \in StartState,
         start'.pc # "idle" =>
           /\ web.mode # "loading"
           /\ start'.snapshot = web.snapshot \/ (start.pc # "idle" /\ start'.snapshot = start.snapshot),
         webLost' = webLost \cup (PassedBy(plays) \ web.timeline)
  PROVE  PlaysInv'
<1>1. webLost' \subseteq 1..Plays
  BY WebShape DEF PassedBy
<1>2. WebTypeOK' /\ WebBounds'
  BY <1>1, WebShape DEF WebTypeOK, Web, StartState, WebBounds, WebInv, PlaysInv
<1>3. ASSUME web.mode \in {"connecting", "connected"}
      PROVE  Accounted(web.timeline, web.seen, webLost)'
  <2>1. Accounted(web.timeline, web.seen, webLost) /\ FeedInv
    BY <1>3 DEF WebInv, PlaysInv, WebAccounts
  <2>2. CASE connection.pc = "closed"
    BY <2>1, <2>2 DEF Accounted
  <2>3. CASE connection.pc # "closed"
    <3>1. \A s \in 1..Plays : s <= stored' \/ s <= web.seen =>
            s \in web.timeline \cup webLost' \cup ToCome'
      BY <2>1, <2>3, PassedByIsLost
    <3> QED BY <2>3, <3>1 DEF Accounted
  <2> QED BY <2>2, <2>3
<1>4. WebAccounts'
  BY <1>3 DEF WebAccounts, WebInv, PlaysInv
<1> QED BY <1>2, <1>4 DEF PlaysInv

\* The snapshot, or the fixture in its place.
LEMMA LoadSnapshotInv == ASSUME WebInv, LoadSnapshot PROVE PlaysInv'
<1>1. PICK n \in {stored, FixturePlays} :
        web' = [web EXCEPT !.mode = "connecting", !.snapshot = n, !.timeline = 1..n,
                           !.seen = n, !.timer = TRUE]
  BY DEF LoadSnapshot
<1>2. /\ web.mode = "loading" /\ UNCHANGED feedVars /\ UNCHANGED <<start, webLost>>
      /\ connection.pc = "closed" /\ start.pc = "idle" /\ web.attempt <= MaxReconnectAttempts
      /\ web \in Web
  BY WebShape DEF LoadSnapshot, WebInv, PlaysInv, WebBounds, FlagInv, ConnectedIsAlone
<1>3. n \in 0..Plays /\ n \in -1..Plays /\ 1..n \subseteq 1..Plays /\ n \in Nat
  BY <1>1, FeedNumbers, WebConstants DEF WebInv, PlaysInv
<1>4. /\ web' \in Web /\ web'.mode = "connecting" /\ web'.snapshot = n /\ web'.timeline = 1..n
      /\ web'.seen = n /\ web'.attempt = web.attempt
  BY <1>1, <1>2, <1>3 DEF Web
<1>5. FeedInv' /\ connection' = connection
  BY <1>2, StandsStill DEF WebInv, PlaysInv
<1>6. WebTypeOK' /\ WebBounds'
  BY <1>2, <1>3, <1>4, <1>5, WebShape DEF WebTypeOK, Web, StartState, WebBounds
<1>7. WebAccounts'
  BY <1>2, <1>4, <1>5 DEF WebAccounts, Accounted
<1> QED BY <1>5, <1>6, <1>7 DEF PlaysInv

\* A socket is asked for after the last sequence seen.
LEMMA WebConnectInv == ASSUME WebInv, WebConnect PROVE PlaysInv'
<1>1. /\ web.timer /\ Connect(web.seen) /\ start' = start
      /\ webLost' = webLost \cap 1..web.seen
      /\ web' = [web EXCEPT !.mode = "connecting", !.timer = FALSE]
  BY DEF WebConnect
<1>2. web \in Web /\ web.mode \in {"connecting", "connected"} /\ web.seen \in 0..Plays
  BY <1>1, WebShape DEF WebInv, PlaysInv, WebBounds, Web, FlagInv, PollingIsAlone
<1>3. /\ FeedInv' /\ stored' = stored /\ connection.pc = "closed" /\ connection'.pc = "read"
      /\ (web.seen + 1)..stored \subseteq ToCome'
  BY <1>1, <1>2, ConnectBrings DEF WebInv, PlaysInv
<1>4. /\ web' \in Web /\ web'.mode = "connecting" /\ web'.timer = FALSE /\ web'.attempt = web.attempt
      /\ web'.snapshot = web.snapshot /\ web'.seen = web.seen /\ web'.timeline = web.timeline
  BY <1>1, <1>2 DEF Web
<1>5. WebTypeOK' /\ WebBounds'
  BY <1>1, <1>2, <1>4, WebShape DEF WebTypeOK, Web, StartState, WebBounds, WebInv, PlaysInv
<1>6. 1..web.seen \subseteq web.timeline \cup webLost'
  BY <1>1, <1>2, <1>3 DEF WebInv, PlaysInv, WebAccounts, Accounted
<1>7. Accounted(web.timeline, web.seen, webLost)'
  <2> SUFFICES ASSUME NEW s \in 1..Plays, s <= stored \/ s <= web.seen
               PROVE  s \in web.timeline \cup webLost' \cup ToCome'
    BY <1>3, <1>4 DEF Accounted
  <2>1. CASE s <= web.seen
    BY <1>2, <1>6, <2>1
  <2>2. CASE ~(s <= web.seen)
    <3>1. s \in (web.seen + 1)..stored
      BY <1>2, <2>2, FeedNumbers DEF WebInv, PlaysInv
    <3> QED BY <1>3, <3>1
  <2> QED BY <2>1, <2>2
<1>8. WebAccounts'
  BY <1>1, <1>2, <1>4, <1>7 DEF WebAccounts, WebInv, PlaysInv
<1> QED BY <1>3, <1>5, <1>8 DEF PlaysInv

\* The socket opens.
LEMMA WebOpensInv == ASSUME WebInv, WebOpens PROVE PlaysInv'
<1>1. /\ web.mode = "connecting" /\ Register /\ UNCHANGED <<start, webLost>>
      /\ web' = [web EXCEPT !.mode = "connected"] /\ web \in Web
  BY WebShape DEF WebOpens
<1>2. /\ FeedInv' /\ stored' = stored /\ connection.pc = "read" /\ connection'.pc = "open"
      /\ ToCome' = ToCome
  BY <1>1, RegisterBrings DEF WebInv, PlaysInv
<1>3. /\ web' \in Web /\ web'.mode = "connected" /\ web'.timer = web.timer /\ web'.attempt = web.attempt
      /\ web'.snapshot = web.snapshot /\ web'.seen = web.seen /\ web'.timeline = web.timeline
  BY <1>1 DEF Web
<1>4. WebTypeOK' /\ WebBounds'
  BY <1>1, <1>2, <1>3, WebShape DEF WebTypeOK, Web, StartState, WebBounds, WebInv, PlaysInv
<1>5. WebAccounts'
  BY <1>1, <1>2, <1>3 DEF WebAccounts, Accounted, WebInv, PlaysInv
<1> QED BY <1>2, <1>4, <1>5 DEF PlaysInv

\* onclose: what was still to come is lost, for a known reason.
LEMMA WebClosesInv == ASSUME WebInv, WebCloses PROVE PlaysInv'
<1>1. /\ Drop /\ web' = AfterClose(web) /\ start' = start
      /\ webLost' = webLost \cup (((1..web.seen) \cap ToCome) \ web.timeline)
  BY DEF WebCloses
<1>2. FeedInv' /\ stored' = stored /\ connection.pc # "closed" /\ connection'.pc = "closed"
  BY <1>1, DropBrings DEF WebInv, PlaysInv
<1>3. /\ web \in Web /\ web.mode \in {"connecting", "connected"} /\ ~web.timer
      /\ web.attempt \in 0..MaxReconnectAttempts /\ MaxReconnectAttempts \in Nat /\ web.seen >= 0
  BY <1>2, WebShape DEF WebInv, PlaysInv, WebBounds
<1>4. /\ web' \in Web /\ web'.snapshot = web.snapshot /\ web'.seen = web.seen
      /\ web'.timeline = web.timeline /\ web'.attempt = web.attempt + 1
      /\ \/ web'.mode = "polling" /\ web'.timer = FALSE
         \/ web'.mode = "connecting" /\ web.attempt < MaxReconnectAttempts
  <2>1. web.attempt + 1 \in 0..(MaxReconnectAttempts + 1)
    BY <1>3
  <2>2. CASE web.attempt >= MaxReconnectAttempts
    <3>1. web' = [web EXCEPT !.attempt = web.attempt + 1, !.mode = "polling"]
      BY <1>1, <2>2 DEF AfterClose
    <3> QED BY <1>3, <2>1, <3>1 DEF Web
  <2>3. CASE ~(web.attempt >= MaxReconnectAttempts)
    <3>1. web' = [web EXCEPT !.attempt = web.attempt + 1, !.mode = "connecting", !.timer = TRUE]
      BY <1>1, <2>3 DEF AfterClose
    <3>2. web.attempt < MaxReconnectAttempts
      BY <1>3, <2>3
    <3>3. /\ web' \in Web /\ web'.snapshot = web.snapshot /\ web'.seen = web.seen
          /\ web'.timeline = web.timeline /\ web'.attempt = web.attempt + 1
          /\ web'.mode = "connecting"
      BY <1>3, <2>1, <3>1 DEF Web
    <3> QED BY <3>2, <3>3
  <2> QED BY <2>2, <2>3
<1>5. WebTypeOK'
  <2>1. 1..web.seen \subseteq 1..Plays
    BY WebShape, FeedNumbers DEF WebInv, PlaysInv
  <2>2. webLost' \subseteq 1..Plays
    BY <1>1, <2>1, WebShape
  <2> QED BY <1>1, <1>4, <2>2, WebShape DEF WebTypeOK, Web, StartState
<1>6. WebBounds'
  BY <1>2, <1>3, <1>4 DEF WebBounds
<1>7. 1..web.seen \subseteq web.timeline \cup webLost'
  <2> SUFFICES ASSUME NEW s \in 1..web.seen
               PROVE  s \in web.timeline \cup webLost'
    OBVIOUS
  <2>1. s \in 1..Plays /\ s <= web.seen
    BY WebShape, FeedNumbers DEF WebInv, PlaysInv
  <2>2. s \in web.timeline \cup webLost \cup ToCome
    BY <1>2, <1>3, <2>1 DEF WebInv, PlaysInv, WebAccounts, Accounted
  <2> QED BY <1>1, <2>2
<1>8. Accounted(web.timeline, web.seen, webLost)'
  BY <1>2, <1>4, <1>7 DEF Accounted
<1>9. WebAccounts'
  BY <1>1, <1>3, <1>4, <1>8 DEF WebAccounts, WebInv, PlaysInv
<1> QED BY <1>2, <1>5, <1>6, <1>9 DEF PlaysInv

\* A page that polls does not follow the feed.
LEMMA PollInv == ASSUME WebInv, Poll PROVE PlaysInv'
<1>1. /\ web.mode = "polling" /\ UNCHANGED feedVars /\ start' = start /\ webLost' = {}
      /\ web' = [web EXCEPT !.snapshot = stored, !.seen = stored,
                            !.timeline = IF web.replaying THEN web.timeline ELSE 1..stored]
      /\ web \in Web
  BY WebShape DEF Poll
<1>2. stored \in 0..Plays /\ stored \in -1..Plays /\ 1..stored \subseteq 1..Plays /\ stored >= 0
  BY FeedNumbers DEF WebInv, PlaysInv
<1>3. /\ web' \in Web /\ web'.mode = "polling" /\ web'.seen = stored /\ web'.timer = web.timer
  BY <1>1, <1>2 DEF Web
<1>4. FeedInv' /\ connection' = connection
  BY <1>1, StandsStill DEF WebInv, PlaysInv
<1>5. WebTypeOK' /\ WebBounds' /\ WebAccounts'
  BY <1>1, <1>2, <1>3, <1>4, WebShape DEF WebTypeOK, Web, StartState, WebBounds, WebAccounts
<1> QED BY <1>4, <1>5 DEF PlaysInv

\* A start that fails puts the snapshot's plays back; what goes was known.
LEMMA StartFailsInv == ASSUME WebInv, StartFails PROVE PlaysInv'
<1> DEFINE n == start.snapshot
<1>1. /\ start.pc # "idle" /\ UNCHANGED feedVars
      /\ web' = [web EXCEPT !.replaying = FALSE, !.timeline = 1..n]
      /\ webLost' = (webLost \cup 1..web.seen) \ 1..n
      /\ start' = [NoStart EXCEPT !.dropped = ~(web.timeline \subseteq 1..n)]
      /\ web \in Web /\ n \in 0..Plays
  BY WebShape DEF StartFails, StartState
<1>2. start'.pc = "idle" /\ start' \in StartState
  <2> DEFINE dropped == ~(web.timeline \subseteq 1..n)
  <2>1. start' = [pc |-> "idle", snapshot |-> 0, dropped |-> dropped] /\ 0 \in 0..Plays
    BY <1>1, FeedNumbers DEF NoStart, WebInv, PlaysInv
  <2>2. dropped \in BOOLEAN
    OBVIOUS
  <2> HIDE DEF dropped
  <2> QED BY <2>1, <2>2 DEF StartState
<1> HIDE DEF n
<1>3. 1..n \subseteq 1..Plays
  BY <1>1, FeedNumbers DEF WebInv, PlaysInv
<1>4. /\ web' \in Web /\ web'.mode = web.mode /\ web'.timer = web.timer /\ web'.attempt = web.attempt
      /\ web'.snapshot = web.snapshot /\ web'.seen = web.seen /\ web'.timeline = 1..n
  BY <1>1, <1>3 DEF Web
<1>5. FeedInv' /\ ToCome' = ToCome /\ UNCHANGED <<stored, connection>>
  BY <1>1, StandsStill DEF WebInv, PlaysInv
<1>6. webLost' \subseteq 1..Plays
  BY <1>1, WebShape, FeedNumbers DEF WebInv, PlaysInv
<1>7. WebTypeOK' /\ WebBounds'
  BY <1>1, <1>2, <1>4, <1>5, <1>6, WebShape DEF WebTypeOK, Web, StartState, WebBounds, WebInv, PlaysInv
<1>8. ASSUME web.mode \in {"connecting", "connected"}
      PROVE  /\ Accounted(web.timeline, web.seen, webLost)'
             /\ web'.timeline \subseteq (1..web.seen) \cup (1..web.snapshot)
  <2>1. /\ Accounted(web.timeline, web.seen, webLost) /\ n = web.snapshot
        /\ web.timeline \subseteq (1..web.seen) \cup (1..web.snapshot)
    BY <1>1, <1>8 DEF WebInv, PlaysInv, WebAccounts, n
  <2>2. web.timeline \cup webLost \cup (1..web.seen) \subseteq web'.timeline \cup webLost'
    BY <1>1, <1>4, <2>1
  <2>3. Accounted(web.timeline, web.seen, webLost)'
    BY <1>4, <1>5, <2>1, <2>2 DEF Accounted
  <2> QED BY <1>4, <2>1, <2>3
<1>9. WebAccounts'
  BY <1>2, <1>4, <1>8 DEF WebAccounts
<1> QED BY <1>5, <1>7, <1>9 DEF PlaysInv

\* Every step of the page, the API and the worker keeps the plays accounted for.
LEMMA WebStepInv ==
  ASSUME WebInv, WebNext \/ UNCHANGED allVars
  PROVE  WebInv'
<1>1. FlagInv'
  BY FlagStepInv DEF WebInv
<1> SUFFICES PlaysInv'
  BY <1>1 DEF WebInv
<1>2. /\ web \in Web /\ start \in StartState /\ FeedInv /\ 0 \in 0..Plays /\ 1..stored \subseteq 1..Plays
      /\ start.pc # "idle" => web.mode # "loading"
  BY WebShape, FeedNumbers DEF WebInv, PlaysInv, WebBounds
<1>3. ASSUME NEW f \in Frame, Broadcast(f) \/ SendBacklog(f) \/ Heartbeat(f),
             connection.pc = "open", WebReceive(f)
      PROVE  PlaysInv'
  BY <1>3, HeardInv
<1>4. ASSUME NEW f \in Frame, Broadcast(f), WebMissesFrame(f)
      PROVE  PlaysInv'
  <2>1. /\ FeedInv' /\ stored' = stored /\ connection' = connection
        /\ ToCome \subseteq ToCome' \cup Carried(f) /\ Carried(f) \subseteq 1..stored
    BY <1>2, <1>4, BroadcastBrings
  <2>2. /\ web' \in Web /\ web'.mode = web.mode /\ web'.timer = web.timer
        /\ web'.attempt = web.attempt /\ web'.snapshot = web.snapshot
        /\ web'.seen = web.seen /\ web'.timeline = web.timeline
        /\ start' = start /\ webLost' = webLost \cup (PassedBy(Carried(f)) \ web.timeline)
    BY <1>2, <1>4, MissesEffect DEF WebMissesFrame
  <2>3. stored \in Nat /\ stored <= stored /\ (stored + 1)..stored = {}
    BY <1>2, FeedNumbers
  <2> QED BY <1>2, <2>1, <2>2, <2>3, UnheardInv
<1>5. ASSUME \/ CommitPlay \/ AcceptReplay \/ ClaimReplay \/ DiscardReplay \/ InterruptReplay
             \/ AcknowledgeReplay \/ UNCHANGED feedVars,
             web' \in Web, web'.mode = web.mode, web'.timer = web.timer, web'.attempt = web.attempt,
             web'.snapshot = web.snapshot, web'.seen = web.seen, web'.timeline = web.timeline,
             start' \in StartState,
             start'.pc # "idle" =>
               /\ web.mode # "loading"
               /\ start'.snapshot = web.snapshot \/ (start.pc # "idle" /\ start'.snapshot = start.snapshot),
             webLost' = webLost
      PROVE  PlaysInv'
  <2>1. /\ FeedInv' /\ connection' = connection /\ stored' \in Nat /\ stored <= stored'
        /\ ToCome \cup ((stored + 1)..stored') \subseteq ToCome' \cup {}
    BY <1>2, <1>5, QuietBrings
  <2>2. webLost' = webLost \cup (PassedBy({}) \ web.timeline)
    BY <1>5 DEF PassedBy
  <2> QED BY <1>5, <2>1, <2>2, UnheardInv
<1>6. CASE WebMissesEnd
  <2>1. CASE DiscardReplay /\ WebMisses({}, TRUE)
    <3>1. /\ web' \in Web /\ web'.mode = web.mode /\ web'.timer = web.timer
          /\ web'.attempt = web.attempt /\ web'.snapshot = web.snapshot
          /\ web'.seen = web.seen /\ web'.timeline = web.timeline
          /\ start' = start /\ webLost' = webLost \cup (PassedBy({}) \ web.timeline)
      BY <1>2, <2>1, MissesEffect
    <3>2. webLost' = webLost
      BY <3>1 DEF PassedBy
    <3> QED BY <1>2, <1>5, <2>1, <3>1, <3>2
  <2>2. CASE FailReplay /\ WebMisses(Coming("api"), TRUE)
    <3>1. /\ web' \in Web /\ web'.mode = web.mode /\ web'.timer = web.timer
          /\ web'.attempt = web.attempt /\ web'.snapshot = web.snapshot
          /\ web'.seen = web.seen /\ web'.timeline = web.timeline
          /\ start' = start /\ webLost' = webLost \cup (PassedBy(Coming("api")) \ web.timeline)
      BY <1>2, <2>2, MissesEffect
    <3>2. /\ FeedInv' /\ connection' = connection /\ stored' = stored
          /\ ToCome \subseteq ToCome' \cup Coming("api") /\ Coming("api") \subseteq 1..stored
      BY <1>2, <2>2, FailBrings
    <3>3. stored \in Nat /\ stored <= stored /\ (stored + 1)..stored = {}
      BY <1>2, FeedNumbers
    <3> QED BY <1>2, <3>1, <3>2, <3>3, UnheardInv
  <2> QED BY <1>6, <2>1, <2>2 DEF WebMissesEnd
<1>7. CASE (CommitPlay \/ ClaimReplay \/ InterruptReplay \/ AcknowledgeReplay) /\ UNCHANGED webVars
  BY <1>2, <1>5, <1>7 DEF webVars
<1>8. CASE OtherViewerStarts
  BY <1>2, <1>5, <1>8 DEF webVars, OtherViewerStarts
<1>9. CASE UNCHANGED allVars
  BY <1>2, <1>5, <1>9 DEF webVars, allVars
<1>10. CASE ClickReplay
  <2>1. /\ web' = [web EXCEPT !.replaying = TRUE, !.unfinished = FALSE] /\ UNCHANGED feedVars
        /\ UNCHANGED webLost /\ web.mode # "loading"
        /\ start' = [NoStart EXCEPT !.pc = "asking", !.snapshot = web.snapshot]
    BY <1>10 DEF ClickReplay
  <2>2. start' \in StartState /\ start'.snapshot = web.snapshot
    BY <2>1, WebShape DEF NoStart, StartState
  <2>3. /\ web' \in Web /\ web'.mode = web.mode /\ web'.timer = web.timer /\ web'.attempt = web.attempt
        /\ web'.snapshot = web.snapshot /\ web'.seen = web.seen /\ web'.timeline = web.timeline
    BY <1>2, <2>1 DEF Web
  <2> QED BY <1>5, <2>1, <2>2, <2>3
<1>11. CASE StartAccepted
  <2>1. /\ start' = [start EXCEPT !.pc = "accepted"] /\ start.pc = "asking" /\ UNCHANGED <<web, webLost>>
        /\ AcceptReplay
    BY <1>11 DEF StartAccepted
  <2>2. start' \in StartState /\ start'.snapshot = start.snapshot
    BY <1>2, <2>1 DEF StartState
  <2> QED BY <1>2, <1>5, <2>1, <2>2
<1>12. CASE StartReturns
  <2>1. start'.pc = "idle" /\ start' \in StartState /\ UNCHANGED <<web, webLost>> /\ UNCHANGED feedVars
    BY <1>2, <1>12 DEF StartReturns, NoStart, StartState
  <2> QED BY <1>2, <1>5, <2>1
<1>13. CASE LoadSnapshot \/ WebConnect \/ WebOpens \/ WebCloses \/ Poll \/ StartFails
  BY <1>13, LoadSnapshotInv, WebConnectInv, WebOpensInv, WebClosesInv, PollInv, StartFailsInv
<1>14. ASSUME NEW f \in Frame,
              \/ Broadcast(f) /\ (IF connection.pc = "open" THEN WebReceive(f) ELSE WebMissesFrame(f))
              \/ LoseFrame(f) /\ WebMissesFrame(f)
              \/ SendBacklog(f) /\ WebReceive(f)
              \/ Heartbeat(f) /\ WebReceive(f)
       PROVE  PlaysInv'
  <2>1. SendBacklog(f) \/ Heartbeat(f) => connection.pc = "open"
    BY DEF SendBacklog, Heartbeat
  <2> QED BY <1>3, <1>4, <1>14, <2>1, LostIsBroadcast
<1> QED BY <1>6, <1>7, <1>8, <1>9, <1>10, <1>11, <1>12, <1>13, <1>14 DEF WebNext

\* At first there is nothing to account for.
LEMMA FeedInitInv == FeedInit => FeedInv
<1> SUFFICES ASSUME FeedInit PROVE FeedInv
  OBVIOUS
<1>1. /\ stored \in 0..Plays /\ 0 \in 0..stored /\ 1 \in 1..(Plays + 1) /\ 0 \in 0..MaxDrops
      /\ 0 \in 0..MaxCommands
  BY FeedConstants DEF FeedInit
<1>2. \A p \in Player : replay[p] = Idle("none")
  BY DEF FeedInit
<1>3. Idle("none") \in Run /\ Idle("none").pc = "none"
  BY <1>1 DEF Idle, Run
<1>4. replay \in [Player -> Run] /\ \A p \in Player : replay[p].pc = "none"
  BY <1>3 DEF FeedInit
<1>5. connection \in Connection
  BY <1>1 DEF FeedInit, NoConnection, Connection
<1>6. unpublished = {} /\ commands = 0 /\ "worker" \in Player /\ "api" \in Player
  BY DEF FeedInit, Player
<1> QED BY <1>1, <1>4, <1>5, <1>6 DEF FeedInv, FeedTypeOK, Run, Connection

\* The page loads, with no connection and no replay of its own.
LEMMA WebInitInv == FeedInit /\ WebInit => WebInv
<1> SUFFICES ASSUME FeedInit, WebInit PROVE WebInv
  OBVIOUS
<1>1. connection.pc = "closed"
  BY DEF FeedInit, NoConnection
<1>2. FlagInv
  BY <1>1 DEF WebInit, NoStart, FlagInv, ConnectedIsAlone, PollingIsAlone, AcceptedIsKnown, ReplayingIsKnown
<1>3. WebTypeOK
  <2>1. /\ 0 \in 0..Plays /\ -1 \in -1..Plays /\ 0 \in 0..(MaxReconnectAttempts + 1)
        /\ {} \in SUBSET (1..Plays)
    BY FeedConstants, WebConstants
  <2> QED BY <2>1 DEF WebInit, WebTypeOK, NoStart
<1>4. WebBounds /\ WebAccounts
  BY <1>1, WebConstants DEF WebInit, WebBounds, WebAccounts, NoStart
<1> QED BY <1>2, <1>3, <1>4, FeedInitInv DEF WebInv, PlaysInv

\* Plays that are accounted for make no unknown hole.
LEMMA AccountedIsKnown ==
  ASSUME FeedInv, NEW timeline, NEW seen \in 0..Plays, NEW lost, Accounted(timeline, seen, lost)
  PROVE  NoUnknownHole(timeline, seen, lost)
<1> SUFFICES ASSUME NEW s \in 1..seen
             PROVE  s \in timeline \cup lost \/ (connection.pc # "closed" /\ s \in ToCome)
  BY DEF NoUnknownHole
<1>1. s \in 1..Plays /\ s <= seen
  BY FeedNumbers
<1> QED BY <1>1 DEF Accounted

\* What the invariant says of the page.
LEMMA WebInvImplies ==
  WebInv => WebTypeOK /\ WebHolesAreKnown /\ ReplayingIsKnown /\ PollsOrListens
<1> SUFFICES ASSUME WebInv PROVE WebTypeOK /\ WebHolesAreKnown /\ ReplayingIsKnown /\ PollsOrListens
  OBVIOUS
<1>1. ASSUME web.mode \in {"connecting", "connected"}
      PROVE  NoUnknownHole(web.timeline, web.seen, webLost)
  <2>1. web.seen \in 0..Plays
    BY <1>1, WebShape DEF WebInv, PlaysInv, WebBounds
  <2> QED BY <1>1, <2>1, AccountedIsKnown DEF WebInv, PlaysInv, WebAccounts
<1> QED BY <1>1 DEF WebInv, PlaysInv, FlagInv, WebHolesAreKnown, PollsOrListens, ConnectedIsAlone,
                    PollingIsAlone
(***************************************************************************)
(* IosClient: the selected point and its shot quality                      *)
(***************************************************************************)

Quality == [selected : 0..Plays, asked : 0..Plays, shown : 0..Plays,
            state : {"unavailable", "loading", "loaded", "failed"}]

Task == [point : 1..Plays, cancelled : BOOLEAN]

\* A result is shown for the point it was asked for, which is the selected one
\* until there is nothing to ask for; a request that was not cancelled is its.
QualityInv ==
  /\ quality \in Quality /\ tasks \subseteq Task
  /\ quality.state = "loaded" => quality.shown = quality.asked
  /\ quality.state # "loaded" => quality.shown = 0
  /\ quality.state # "unavailable" => quality.asked = quality.selected
  /\ \A t \in tasks : ~t.cancelled => t.point = quality.selected /\ t.point = quality.asked

\* A point that loads has its request under way.
LoadingIsAsked ==
  quality.state = "loading" => [point |-> quality.selected, cancelled |-> FALSE] \in tasks

\* A cancelled request is still one, and none of those may answer.
LEMMA CancelledTasks ==
  ASSUME tasks \subseteq Task
  PROVE  Cancelled \subseteq Task /\ \A t \in Cancelled : t.cancelled
<1> SUFFICES ASSUME NEW u \in Task
             PROVE  [u EXCEPT !.cancelled = TRUE] \in Task /\ [u EXCEPT !.cancelled = TRUE].cancelled
  BY DEF Cancelled
<1>1. [u EXCEPT !.cancelled = TRUE] \in Task
  BY DEF Task
<1>2. [u EXCEPT !.cancelled = TRUE].cancelled = TRUE
  BY DEF Task
<1> QED BY <1>1, <1>2

\* Nothing selected: whatever is under way is cancelled.
LEMMA SelectNone ==
  ASSUME QualityInv, NEW n \in 0..Plays, tasks' = Cancelled,
         quality' = [selected |-> n, asked |-> 0, shown |-> 0, state |-> "unavailable"]
  PROVE  QualityInv' /\ LoadingIsAsked'
<1>1. quality' \in Quality /\ quality'.state = "unavailable" /\ quality'.shown = 0
  BY FeedConstants DEF Quality
<1>2. tasks' \subseteq Task /\ \A t \in tasks' : t.cancelled
  BY CancelledTasks DEF QualityInv
<1> QED BY <1>1, <1>2 DEF QualityInv, LoadingIsAsked

\* A selection leaves the quality of the selected point, or its request.
LEMMA SelectInv ==
  ASSUME QualityInv, NEW n \in 1..Plays, Select(n)
  PROVE  QualityInv' /\ LoadingIsAsked'
<1>0. n \in 0..Plays /\ 0 \in 0..Plays /\ quality \in Quality
  BY FeedConstants DEF QualityInv
<1>1. CASE n \notin Shots
  <2>1. quality' = [NoQuality EXCEPT !.selected = n] /\ tasks' = Cancelled
    BY <1>1 DEF Select
  <2>2. quality' = [selected |-> n, asked |-> 0, shown |-> 0, state |-> "unavailable"]
    BY <2>1 DEF NoQuality
  <2> QED BY <1>0, <2>1, <2>2, SelectNone
<1>2. CASE n \in Shots /\ Remembered(n)
  <2>1. /\ quality' = [quality EXCEPT !.selected = n] /\ tasks' = tasks
        /\ quality.asked = n /\ quality.state = "loaded"
    BY <1>2 DEF Select, Remembered
  <2>2. quality' = [selected |-> n, asked |-> n, shown |-> quality.shown, state |-> "loaded"]
    BY <1>0, <2>1 DEF Quality
  <2>3. quality' \in Quality
    BY <1>0, <2>2 DEF Quality
  <2> QED BY <2>1, <2>2, <2>3 DEF QualityInv, LoadingIsAsked
<1>3. CASE n \in Shots /\ ~Remembered(n)
  <2> DEFINE task == [point |-> n, cancelled |-> FALSE]
  <2>1. /\ quality' = [selected |-> n, asked |-> n, shown |-> 0, state |-> "loading"]
        /\ tasks' = Cancelled \cup {task}
    BY <1>3 DEF Select
  <2>2. quality' \in Quality
    BY <1>0, <2>1 DEF Quality
  <2>3. task \in Task /\ task.point = n
    BY DEF Task
  <2>4. tasks' \subseteq Task
    BY <2>1, <2>3, CancelledTasks DEF QualityInv
  <2>5. \A t \in tasks' : ~t.cancelled => t = task
    BY <2>1, CancelledTasks DEF QualityInv
  <2>6. LoadingIsAsked'
    BY <2>1 DEF LoadingIsAsked
  <2> HIDE DEF task
  <2> QED BY <2>1, <2>2, <2>3, <2>4, <2>5, <2>6 DEF QualityInv
<1> QED BY <1>1, <1>2, <1>3

\* The last play of a snapshot is selected, if there is one.
LEMMA ApplyInv ==
  ASSUME QualityInv, NEW n \in 0..Plays, Apply(n)
  PROVE  QualityInv' /\ LoadingIsAsked'
<1>1. CASE n = 0
  <2>1. /\ quality' = [selected |-> n, asked |-> 0, shown |-> 0, state |-> "unavailable"]
        /\ tasks' = Cancelled
    BY <1>1 DEF Apply, NoQuality
  <2> QED BY <1>1, <2>1, SelectNone
<1>2. CASE n # 0
  BY <1>2, SelectInv, FeedConstants DEF Apply
<1> QED BY <1>1, <1>2

\* An answer is shown only for the selected point; the others go unheard.
LEMMA ReturnsInv ==
  ASSUME QualityInv, NEW t \in tasks, ShotQualityReturns(t)
  PROVE  QualityInv' /\ (LoadingIsAsked => LoadingIsAsked')
<1>0. quality \in Quality /\ t \in Task /\ t.point \in 0..Plays /\ 0 \in 0..Plays
  BY FeedConstants DEF QualityInv, Task
<1>1. tasks' = tasks \ {t}
  BY DEF ShotQualityReturns
<1>2. CASE MayApply(t)
  <2>1. PICK state \in {"loaded", "unavailable", "failed"} :
          quality' = [quality EXCEPT !.state = state,
                                     !.shown = IF state = "loaded" THEN t.point ELSE 0]
    BY <1>2 DEF ShotQualityReturns
  <2> DEFINE shown == IF state = "loaded" THEN t.point ELSE 0
  <2>2. quality' = [selected |-> quality.selected, asked |-> quality.asked, shown |-> shown, state |-> state]
    BY <1>0, <2>1 DEF Quality
  <2>3. shown \in 0..Plays
    BY <1>0
  <2>4. state = "loaded" => shown = t.point
    OBVIOUS
  <2>5. state # "loaded" => shown = 0
    OBVIOUS
  <2> HIDE DEF shown
  <2>6. quality' \in Quality
    BY <1>0, <2>2, <2>3 DEF Quality
  <2>7. t.point = quality.selected /\ t.point = quality.asked
    BY <1>2 DEF MayApply, QualityInv
  <2>8. LoadingIsAsked'
    BY <2>1, <2>2 DEF LoadingIsAsked
  <2> QED BY <1>1, <2>2, <2>4, <2>5, <2>6, <2>7, <2>8 DEF QualityInv
<1>3. CASE ~MayApply(t)
  <2>1. quality' = quality
    BY <1>3 DEF ShotQualityReturns
  <2>2. t # [point |-> quality.selected, cancelled |-> FALSE]
    BY <1>3 DEF MayApply
  <2> QED BY <1>1, <2>1, <2>2 DEF QualityInv, LoadingIsAsked
<1> QED BY <1>2, <1>3

(***************************************************************************)
(* IosClient: the plays of the phone                                       *)
(***************************************************************************)

Ios == [pc : {"hidden", "connecting", "streaming", "polling"},
        timeline : SUBSET (1..Plays), resume : 0..Plays,
        attempt : 0..(MaxIosReconnectAttempts + 1), appearances : 0..MaxAppearances]

\* Only a view that streams has a connection, and one that follows the feed has
\* an attempt left.
IosBounds ==
  /\ connection.pc # "closed" => ios.pc = "streaming"
  /\ ios.pc \in {"connecting", "streaming"} => ios.attempt <= MaxIosReconnectAttempts

\* A view that follows the feed accounts for its plays and asks for its quality.
IosAccounts ==
  ios.pc \in {"connecting", "streaming"} =>
    Accounted(ios.timeline, ios.resume, iosLost) /\ LoadingIsAsked

IosInv ==
  FeedInv /\ ios \in Ios /\ iosLost \subseteq 1..Plays /\ QualityInv /\ IosBounds /\ IosAccounts

\* The numbers of the view.
LEMMA IosShape ==
  ASSUME IosInv
  PROVE  /\ ios \in Ios /\ ios.resume \in Nat /\ ios.resume <= Plays /\ ios.timeline \subseteq 1..Plays
         /\ ios.attempt \in Nat /\ MaxIosReconnectAttempts \in Nat /\ MaxAppearances \in Nat
         /\ ios.appearances \in 0..MaxAppearances /\ Plays \in Nat
         /\ stored \in 0..Plays /\ 1..stored \subseteq 1..Plays
BY IosConstants, FeedConstants, FeedNumbers DEF IosInv, Ios

\* At first the view is hidden.
LEMMA IosInitInv == FeedInit /\ IosInit => IosInv
<1> SUFFICES ASSUME FeedInit, IosInit PROVE IosInv
  OBVIOUS
<1>1. FeedInv /\ connection.pc = "closed"
  BY FeedInitInv DEF FeedInit, NoConnection
<1>2. 0 \in 0..Plays /\ 0 \in 0..(MaxIosReconnectAttempts + 1) /\ 0 \in 0..MaxAppearances
  BY FeedConstants, IosConstants
<1>3. ios \in Ios /\ quality \in Quality
  BY <1>2 DEF IosInit, NoQuality, Ios, Quality
<1>4. IosBounds /\ IosAccounts
  BY <1>1 DEF IosInit, IosBounds, IosAccounts
<1> QED BY <1>1, <1>3, <1>4 DEF IosInit, NoQuality, IosInv, QualityInv

\* A frame that is heard.
LEMMA IosHeardInv ==
  ASSUME IosInv, NEW f \in Frame, Broadcast(f) \/ SendBacklog(f) \/ Heartbeat(f),
         connection.pc = "open", IosReceive(f)
  PROVE  IosInv'
<1>1. /\ FeedInv' /\ stored' = stored /\ connection'.pc = "open"
      /\ ToCome \subseteq ToCome' \cup Carried(f) /\ Carried(f) \subseteq 1..stored
  BY FrameBrings DEF IosInv
<1>2. /\ ios \in Ios /\ ios.pc = "streaming" /\ QualityInv /\ LoadingIsAsked
      /\ Accounted(ios.timeline, ios.resume, iosLost) /\ iosLost' = iosLost \ ios'.timeline
  BY IosShape DEF IosInv, IosBounds, IosAccounts, IosReceive
<1>3. ASSUME ios' \in Ios, ios'.pc = "streaming", ios'.attempt = 0, QualityInv', LoadingIsAsked',
             ios.timeline \cup Carried(f) \subseteq ios'.timeline,
             \A s \in 1..Plays : s <= ios'.resume => s <= stored \/ s <= ios.resume
      PROVE  IosInv'
  <2>1. ASSUME NEW s \in 1..Plays, s <= stored \/ s <= ios'.resume
        PROVE  s \in ios'.timeline \cup iosLost' \cup ToCome'
    <3>1. s \in ios.timeline \cup iosLost \cup ToCome
      BY <1>2, <1>3, <2>1 DEF Accounted
    <3> QED BY <1>1, <1>2, <1>3, <3>1
  <2>2. Accounted(ios.timeline, ios.resume, iosLost)'
    BY <1>1, <2>1 DEF Accounted
  <2>3. iosLost' \subseteq 1..Plays
    BY <1>2 DEF IosInv
  <2>4. IosBounds' /\ IosAccounts'
    BY <1>3, <2>2, IosShape DEF IosBounds, IosAccounts
  <2> QED BY <1>1, <1>3, <2>3, <2>4 DEF IosInv
<1>4. CASE f.type = "play"
  <2> DEFINE n == f.sequence
             resume == IF ios.resume < n THEN n ELSE ios.resume
  <2>1. /\ ios' = [ios EXCEPT !.attempt = 0, !.timeline = ios.timeline \cup {n}, !.resume = resume]
        /\ Select(n)
    BY <1>4 DEF IosReceive, Merge
  <2>2. n \in 1..stored /\ n \in 1..Plays /\ Carried(f) = {n}
    BY <1>1, <1>4, IosShape DEF Carried
  <2>3. resume \in 0..Plays /\ resume \in {n, ios.resume}
    BY <2>2, IosShape
  <2> HIDE DEF n, resume
  <2>4. /\ ios' \in Ios /\ ios'.pc = ios.pc /\ ios'.attempt = 0 /\ ios'.resume = resume
        /\ ios'.timeline = ios.timeline \cup {n}
    <3>1. ios.timeline \cup {n} \subseteq 1..Plays /\ 0 \in 0..(MaxIosReconnectAttempts + 1)
      BY <2>2, IosShape
    <3> QED BY <1>2, <2>1, <2>3, <3>1 DEF Ios
  <2>5. QualityInv' /\ LoadingIsAsked'
    BY <1>2, <2>1, <2>2, SelectInv
  <2>6. \A s \in 1..Plays : s <= resume => s <= stored \/ s <= ios.resume
    BY <2>2, <2>3, IosShape
  <2> QED BY <1>2, <1>3, <2>2, <2>4, <2>5, <2>6
<1>5. CASE f.type # "play"
  <2>1. ios' = [ios EXCEPT !.attempt = 0] /\ quality' = quality /\ tasks' = tasks /\ Carried(f) = {}
    BY <1>5 DEF IosReceive, Carried
  <2>2. /\ ios' \in Ios /\ ios'.pc = ios.pc /\ ios'.attempt = 0 /\ ios'.resume = ios.resume
        /\ ios'.timeline = ios.timeline
    <3>1. 0 \in 0..(MaxIosReconnectAttempts + 1)
      BY IosShape
    <3> QED BY <1>2, <2>1, <3>1 DEF Ios
  <2>3. QualityInv' /\ LoadingIsAsked'
    BY <1>2, <2>1 DEF QualityInv, LoadingIsAsked
  <2> QED BY <1>2, <1>3, <2>1, <2>2, <2>3
<1> QED BY <1>4, <1>5

\* A step of the feed that brings the view nothing: the plays that pass it by
\* are lost, for a known reason.
LEMMA IosUnheardInv ==
  ASSUME IosInv, NEW plays, plays \subseteq 1..Plays,
         FeedInv', connection'.pc = connection.pc, stored' \in Nat,
         ToCome \cup ((stored + 1)..stored') \subseteq ToCome' \cup plays,
         UNCHANGED <<ios, quality, tasks>>, iosLost' = iosLost \cup (PassedBy(plays) \ ios.timeline)
  PROVE  IosInv'
<1>1. iosLost' \subseteq 1..Plays
  BY DEF PassedBy, IosInv
<1>2. QualityInv' /\ (LoadingIsAsked => LoadingIsAsked') /\ IosBounds'
  BY DEF IosInv, QualityInv, LoadingIsAsked, IosBounds
<1>3. ASSUME ios.pc \in {"connecting", "streaming"}
      PROVE  Accounted(ios.timeline, ios.resume, iosLost)'
  <2>1. Accounted(ios.timeline, ios.resume, iosLost) /\ FeedInv
    BY <1>3 DEF IosInv, IosAccounts
  <2>2. CASE connection.pc = "closed"
    BY <2>1, <2>2 DEF Accounted
  <2>3. CASE connection.pc # "closed"
    <3>1. \A s \in 1..Plays : s <= stored' \/ s <= ios.resume =>
            s \in ios.timeline \cup iosLost' \cup ToCome'
      BY <2>1, <2>3, PassedByIsLost
    <3> QED BY <2>3, <3>1 DEF Accounted
  <2> QED BY <2>2, <2>3
<1>4. IosAccounts'
  BY <1>2, <1>3 DEF IosAccounts, IosInv
<1> QED BY <1>1, <1>2, <1>4 DEF IosInv

\* A frame that nobody hears.
LEMMA IosMissesInv ==
  ASSUME IosInv, NEW f \in Frame, Broadcast(f), IosMisses(Carried(f))
  PROVE  IosInv'
<1>1. /\ FeedInv' /\ stored' = stored /\ connection' = connection
      /\ ToCome \subseteq ToCome' \cup Carried(f) /\ Carried(f) \subseteq 1..stored
  BY BroadcastBrings DEF IosInv
<1>2. stored \in Nat /\ (stored + 1)..stored = {} /\ 1..stored \subseteq 1..Plays
  BY IosShape
<1> QED BY <1>1, <1>2, IosUnheardInv DEF IosMisses

\* What ingestion, the worker and the other viewers do.
LEMMA IosQuietInv ==
  ASSUME IosInv, UNCHANGED iosVars,
         \/ CommitPlay \/ AcceptReplay \/ ClaimReplay \/ DiscardReplay \/ InterruptReplay
         \/ AcknowledgeReplay \/ UNCHANGED feedVars
  PROVE  IosInv'
<1>1. /\ FeedInv' /\ connection' = connection /\ stored' \in Nat
      /\ ToCome \cup ((stored + 1)..stored') \subseteq ToCome' \cup {}
  BY QuietBrings DEF IosInv
<1>2. UNCHANGED <<ios, quality, tasks>> /\ iosLost' = iosLost \cup (PassedBy({}) \ ios.timeline)
  BY DEF iosVars, PassedBy
<1> QED BY <1>1, <1>2, IosUnheardInv

\* What the API's own run had still to send is lost with it.
LEMMA IosFailInv == ASSUME IosInv, FailReplay, IosMisses(Coming("api")) PROVE IosInv'
<1>1. /\ FeedInv' /\ connection' = connection /\ stored' = stored
      /\ ToCome \subseteq ToCome' \cup Coming("api") /\ Coming("api") \subseteq 1..stored
  BY FailBrings DEF IosInv
<1>2. stored \in Nat /\ (stored + 1)..stored = {} /\ 1..stored \subseteq 1..Plays
  BY IosShape
<1> QED BY <1>1, <1>2, IosUnheardInv DEF IosMisses

\* The view appears: it has all of a snapshot, or it polls.
LEMMA LoadInv == ASSUME IosInv, Load PROVE IosInv'
<1>1. /\ ios.pc = "hidden" /\ ios.appearances < MaxAppearances /\ connection.pc = "closed"
      /\ UNCHANGED feedVars
  BY FeedNumbers DEF Load, IosInv, IosBounds
<1>2. FeedInv' /\ stored' = stored /\ connection' = connection
  BY <1>1, StandsStill DEF IosInv
<1>3. ios.appearances + 1 \in 0..MaxAppearances /\ 0 \in 0..(MaxIosReconnectAttempts + 1)
  BY <1>1, IosShape
<1>4. CASE Apply(stored) /\ iosLost' = {}
           /\ ios' = [ios EXCEPT !.pc = "connecting", !.timeline = 1..stored, !.resume = stored,
                                 !.attempt = 0, !.appearances = ios.appearances + 1]
  <2>1. QualityInv' /\ LoadingIsAsked'
    BY <1>4, ApplyInv, IosShape DEF IosInv
  <2>2. /\ ios' \in Ios /\ ios'.pc = "connecting" /\ ios'.timeline = 1..stored
        /\ ios'.resume = stored /\ ios'.attempt = 0
    BY <1>3, <1>4, IosShape DEF Ios
  <2>3. Accounted(ios.timeline, ios.resume, iosLost)'
    BY <1>1, <1>2, <2>2 DEF Accounted
  <2> QED BY <1>1, <1>2, <1>4, <2>1, <2>2, <2>3, IosShape DEF IosInv, IosBounds, IosAccounts
<1>5. CASE /\ ios' = [ios EXCEPT !.pc = "polling", !.appearances = ios.appearances + 1]
           /\ UNCHANGED <<quality, tasks, iosLost>>
  <2>1. ios' \in Ios /\ ios'.pc = "polling"
    BY <1>3, <1>5, IosShape DEF Ios
  <2> QED BY <1>1, <1>2, <1>5, <2>1 DEF IosInv, QualityInv, IosBounds, IosAccounts
<1> QED BY <1>4, <1>5 DEF Load

\* A stream is asked for after the last sequence of the view.
LEMMA IosConnectInv == ASSUME IosInv, IosConnect PROVE IosInv'
<1>1. /\ ios.pc = "connecting" /\ Connect(ios.resume) /\ ios' = [ios EXCEPT !.pc = "streaming"]
      /\ UNCHANGED <<quality, tasks>> /\ iosLost' = iosLost \cap 1..ios.resume
      /\ ios.resume \in 0..Plays
  BY IosShape DEF IosConnect
<1>2. /\ FeedInv' /\ stored' = stored /\ connection.pc = "closed" /\ connection'.pc = "read"
      /\ (ios.resume + 1)..stored \subseteq ToCome'
  BY <1>1, ConnectBrings DEF IosInv
<1>3. /\ ios' \in Ios /\ ios'.pc = "streaming" /\ ios'.timeline = ios.timeline
      /\ ios'.resume = ios.resume /\ ios'.attempt = ios.attempt
  BY <1>1, IosShape DEF Ios
<1>4. 1..ios.resume \subseteq ios.timeline \cup iosLost' /\ LoadingIsAsked
  BY <1>1, <1>2 DEF IosInv, IosAccounts, Accounted
<1>5. Accounted(ios.timeline, ios.resume, iosLost)'
  <2> SUFFICES ASSUME NEW s \in 1..Plays, s <= stored \/ s <= ios.resume
               PROVE  s \in ios.timeline \cup iosLost' \cup ToCome'
    BY <1>2, <1>3 DEF Accounted
  <2>1. CASE s <= ios.resume
    BY <1>1, <1>4, <2>1
  <2>2. CASE ~(s <= ios.resume)
    <3>1. s \in (ios.resume + 1)..stored
      BY <2>2, IosShape
    <3> QED BY <1>2, <3>1
  <2> QED BY <2>1, <2>2
<1>6. QualityInv' /\ LoadingIsAsked' /\ IosBounds' /\ iosLost' \subseteq 1..Plays
  BY <1>1, <1>3, <1>4 DEF IosInv, QualityInv, LoadingIsAsked, IosBounds
<1> QED BY <1>2, <1>3, <1>5, <1>6 DEF IosInv, IosAccounts

\* The stream opens.
LEMMA IosRegisterInv == ASSUME IosInv, IosRegister PROVE IosInv'
<1>1. Register /\ ios' = ios /\ quality' = quality /\ tasks' = tasks /\ iosLost' = iosLost
  BY DEF IosRegister, iosVars
<1>2. /\ FeedInv' /\ stored' = stored /\ connection.pc = "read" /\ connection'.pc = "open"
      /\ ToCome' = ToCome
  BY <1>1, RegisterBrings DEF IosInv
<1>3. QualityInv' /\ (LoadingIsAsked => LoadingIsAsked') /\ IosBounds'
  BY <1>1, <1>2 DEF IosInv, QualityInv, LoadingIsAsked, IosBounds
<1>4. IosAccounts'
  BY <1>1, <1>2, <1>3 DEF IosInv, IosAccounts, Accounted
<1> QED BY <1>1, <1>2, <1>3, <1>4 DEF IosInv

\* The stream ends: what was still to come is lost, for a known reason.
LEMMA IosClosesInv == ASSUME IosInv, IosCloses PROVE IosInv'
<1> DEFINE pc == IF ios.attempt >= MaxIosReconnectAttempts THEN "polling" ELSE "connecting"
<1>1. /\ Drop /\ ios' = [ios EXCEPT !.attempt = ios.attempt + 1, !.pc = pc]
      /\ iosLost' = iosLost \cup (((1..ios.resume) \cap ToCome) \ ios.timeline)
      /\ quality' = quality /\ tasks' = tasks
  BY DEF IosCloses
<1>2. FeedInv' /\ stored' = stored /\ connection.pc # "closed" /\ connection'.pc = "closed"
  BY <1>1, DropBrings DEF IosInv
<1>3. /\ ios.pc = "streaming" /\ ios.attempt <= MaxIosReconnectAttempts /\ LoadingIsAsked
      /\ Accounted(ios.timeline, ios.resume, iosLost)
  BY <1>2 DEF IosInv, IosBounds, IosAccounts
<1>4. pc \in {"polling", "connecting"} /\ (pc = "connecting" => ios.attempt < MaxIosReconnectAttempts)
  BY IosShape
<1> HIDE DEF pc
<1>5. /\ ios' \in Ios /\ ios'.pc = pc /\ ios'.attempt = ios.attempt + 1
      /\ ios'.timeline = ios.timeline /\ ios'.resume = ios.resume
  <2>1. ios.attempt + 1 \in 0..(MaxIosReconnectAttempts + 1)
    BY <1>3, IosShape
  <2> QED BY <1>1, <1>4, <2>1, IosShape DEF Ios
<1>6. 1..ios.resume \subseteq ios.timeline \cup iosLost'
  <2> SUFFICES ASSUME NEW s \in 1..ios.resume
               PROVE  s \in ios.timeline \cup iosLost'
    OBVIOUS
  <2>1. s \in 1..Plays /\ s <= ios.resume
    BY IosShape
  <2>2. s \in ios.timeline \cup iosLost \cup ToCome
    BY <1>2, <1>3, <2>1 DEF Accounted
  <2> QED BY <1>1, <2>2
<1>7. Accounted(ios.timeline, ios.resume, iosLost)'
  BY <1>2, <1>5, <1>6 DEF Accounted
<1>8. QualityInv' /\ LoadingIsAsked'
  BY <1>1, <1>3 DEF IosInv, QualityInv, LoadingIsAsked
<1>9. IosBounds'
  BY <1>2, <1>4, <1>5, IosShape DEF IosBounds
<1>10. iosLost' \subseteq 1..Plays
  BY <1>1, IosShape DEF IosInv
<1> QED BY <1>2, <1>5, <1>7, <1>8, <1>9, <1>10 DEF IosInv, IosAccounts

\* A snapshot while polling.
LEMMA PollSnapshotInv == ASSUME IosInv, PollSnapshot PROVE IosInv'
<1>1. /\ ios.pc = "polling" /\ connection.pc = "closed" /\ Apply(stored) /\ iosLost' = {}
      /\ ios' = [ios EXCEPT !.timeline = 1..stored] /\ UNCHANGED feedVars
  BY FeedNumbers DEF PollSnapshot, IosInv, IosBounds
<1>2. FeedInv' /\ connection' = connection
  BY <1>1, StandsStill DEF IosInv
<1>3. QualityInv'
  BY <1>1, ApplyInv, IosShape DEF IosInv
<1>4. ios' \in Ios /\ ios'.pc = "polling"
  BY <1>1, IosShape DEF Ios
<1> QED BY <1>1, <1>2, <1>3, <1>4 DEF IosInv, IosBounds, IosAccounts

\* The view goes: nothing is under way for it.
LEMMA DisappearInv == ASSUME IosInv, Disappear PROVE IosInv'
<1>1. /\ ios' = [ios EXCEPT !.pc = "hidden"] /\ tasks' = Cancelled /\ quality' = quality
      /\ connection' = NoConnection(connection.drops) /\ iosLost' = iosLost
      /\ UNCHANGED <<stored, unpublished, commands, replay>>
  BY DEF Disappear
<1>2. connection.drops \in 0..MaxDrops
  BY FeedNumbers DEF IosInv, Connection
<1>3. FeedInv' /\ connection'.pc = "closed"
  BY <1>1, <1>2, NoConnectionBrings DEF IosInv
<1>4. QualityInv'
  BY <1>1, CancelledTasks DEF IosInv, QualityInv
<1>5. ios' \in Ios /\ ios'.pc = "hidden"
  BY <1>1, IosShape DEF Ios
<1> QED BY <1>1, <1>3, <1>4, <1>5 DEF IosInv, IosBounds, IosAccounts

\* A step that only selects, or only shows a result.
LEMMA IosSelectsInv ==
  ASSUME IosInv, UNCHANGED <<feedVars, ios, iosLost>>, QualityInv', LoadingIsAsked => LoadingIsAsked'
  PROVE  IosInv'
<1>1. FeedInv' /\ ToCome' = ToCome /\ UNCHANGED <<stored, connection, ios, iosLost>>
  BY StandsStill DEF IosInv
<1>2. IosBounds' /\ IosAccounts'
  BY <1>1 DEF IosInv, IosBounds, IosAccounts, Accounted
<1> QED BY <1>1, <1>2 DEF IosInv

\* Every step of the phone, the API and the worker keeps the plays accounted
\* for, and the quality with its point.
LEMMA IosStepInv ==
  ASSUME IosInv, IosNext \/ UNCHANGED <<feedVars, iosVars>>
  PROVE  IosInv'
<1>1. ASSUME NEW f \in Frame,
             \/ Broadcast(f) /\ (IF connection.pc = "open" THEN IosReceive(f) ELSE IosMisses(Carried(f)))
             \/ LoseFrame(f) /\ IosMisses(Carried(f))
             \/ SendBacklog(f) /\ IosReceive(f)
             \/ Heartbeat(f) /\ IosReceive(f)
      PROVE  IosInv'
  <2>1. SendBacklog(f) \/ Heartbeat(f) => connection.pc = "open"
    BY DEF SendBacklog, Heartbeat
  <2> QED BY <1>1, <2>1, IosHeardInv, IosMissesInv, LostIsBroadcast
<1>2. CASE (CommitPlay \/ ClaimReplay \/ DiscardReplay \/ InterruptReplay \/ AcknowledgeReplay)
           /\ UNCHANGED iosVars
  BY <1>2, IosQuietInv
<1>3. CASE ViewerStarts
  BY <1>3, IosQuietInv DEF ViewerStarts
<1>4. CASE UNCHANGED <<feedVars, iosVars>>
  BY <1>4, IosQuietInv
<1>5. CASE Load \/ IosConnect \/ IosRegister \/ IosCloses \/ PollSnapshot \/ Disappear
  BY <1>5, LoadInv, IosConnectInv, IosRegisterInv, IosClosesInv, PollSnapshotInv, DisappearInv
<1>6. ASSUME NEW t \in tasks, ShotQualityReturns(t) PROVE IosInv'
  <2>1. QualityInv' /\ (LoadingIsAsked => LoadingIsAsked')
    BY <1>6, ReturnsInv DEF IosInv
  <2> QED BY <1>6, <2>1, IosSelectsInv DEF ShotQualityReturns
<1>7. ASSUME NEW n \in 1..Plays, Tap(n) PROVE IosInv'
  <2>1. QualityInv' /\ LoadingIsAsked'
    BY <1>7, SelectInv DEF IosInv, Tap
  <2> QED BY <1>7, <2>1, IosSelectsInv DEF Tap
<1>8. CASE FailReplay /\ IosMisses(Coming("api"))
  BY <1>8, IosFailInv
<1> QED BY <1>1, <1>2, <1>3, <1>4, <1>5, <1>6, <1>7, <1>8 DEF IosNext

\* What the invariant says of the phone.
LEMMA IosInvImplies ==
  IosInv => IosTypeOK /\ IosHolesAreKnown /\ QualityIsOfSelection /\ LoadingIsUnderWay
<1> SUFFICES ASSUME IosInv
             PROVE  IosTypeOK /\ IosHolesAreKnown /\ QualityIsOfSelection /\ LoadingIsUnderWay
  OBVIOUS
<1>1. ASSUME ios.pc \in {"connecting", "streaming"}
      PROVE  NoUnknownHole(ios.timeline, ios.resume, iosLost)
  <2>1. ios.resume \in 0..Plays
    BY IosShape
  <2> QED BY <1>1, <2>1, AccountedIsKnown DEF IosInv, IosAccounts
<1>2. IosTypeOK
  BY DEF IosInv, QualityInv, IosTypeOK, Ios, Quality, Task
<1> QED BY <1>1, <1>2
        DEF IosInv, QualityInv, IosAccounts, LoadingIsAsked, IosHolesAreKnown, QualityIsOfSelection,
            LoadingIsUnderWay

(***************************************************************************)
(* Clients: the page or the phone                                          *)
(***************************************************************************)

\* The client that is there has its invariant, the other one has not begun.
ClientsInv ==
  /\ client \in Kinds
  /\ client = "web" => WebInv /\ IosInit
  /\ client = "ios" => IosInv /\ WebInit

\* Initially neither has begun.
LEMMA InitInv == Init => ClientsInv
BY WebInitInv, IosInitInv DEF Init, ClientsInv

\* Only the client that is there takes steps.
LEMMA StepInv == ClientsInv /\ [Next]_vars => ClientsInv'
<1> SUFFICES ASSUME ClientsInv, [Next]_vars PROVE ClientsInv'
  OBVIOUS
<1>1. CASE client = "web"
  <2>1. /\ WebInv /\ IosInit /\ UNCHANGED <<iosVars, client>>
        /\ WebNext \/ UNCHANGED <<feedVars, webVars>>
    BY <1>1 DEF ClientsInv, Next, vars
  <2>2. WebInv'
    BY <2>1, WebStepInv DEF allVars
  <2>3. IosInit'
    BY <2>1 DEF iosVars, IosInit, NoQuality
  <2> QED BY <1>1, <2>1, <2>2, <2>3 DEF ClientsInv
<1>2. CASE client = "ios"
  <2>1. /\ IosInv /\ WebInit /\ UNCHANGED <<webVars, client>>
        /\ IosNext \/ UNCHANGED <<feedVars, iosVars>>
    BY <1>2 DEF ClientsInv, Next, vars
  <2>2. IosInv'
    BY <2>1, IosStepInv
  <2>3. WebInit'
    BY <2>1 DEF webVars, WebInit, NoStart
  <2> QED BY <1>2, <2>1, <2>2, <2>3 DEF ClientsInv
<1> QED BY <1>1, <1>2, KindsAssumption DEF ClientsInv

\* Every reachable state satisfies the invariant.
LEMMA Invariance == Spec => []ClientsInv
BY InitInv, StepInv, PTL DEF Spec

\* What holds of the page holds when it has not begun, and so for the phone.
LEMMA InvImplies ==
  ClientsInv =>
    /\ TypeOK /\ WebHolesAreKnown /\ ReplayingIsKnown /\ PollsOrListens
    /\ IosHolesAreKnown /\ QualityIsOfSelection /\ LoadingIsUnderWay
<1> SUFFICES ASSUME ClientsInv
             PROVE  /\ TypeOK /\ WebHolesAreKnown /\ ReplayingIsKnown /\ PollsOrListens
                    /\ IosHolesAreKnown /\ QualityIsOfSelection /\ LoadingIsUnderWay
  OBVIOUS
<1>1. ASSUME WebInit
      PROVE  WebTypeOK /\ WebHolesAreKnown /\ ReplayingIsKnown /\ PollsOrListens
  <2>1. /\ 0 \in 0..Plays /\ -1 \in -1..Plays /\ 0 \in 0..(MaxReconnectAttempts + 1)
        /\ {} \in SUBSET (1..Plays)
    BY FeedConstants, WebConstants
  <2>2. WebTypeOK
    BY <1>1, <2>1 DEF WebInit, WebTypeOK, NoStart
  <2> QED BY <1>1, <2>2 DEF WebInit, WebHolesAreKnown, ReplayingIsKnown, PollsOrListens
<1>2. ASSUME IosInit
      PROVE  IosTypeOK /\ IosHolesAreKnown /\ QualityIsOfSelection /\ LoadingIsUnderWay
  <2>1. 0 \in 0..Plays /\ 0 \in 0..(MaxIosReconnectAttempts + 1) /\ 0 \in 0..MaxAppearances
    BY FeedConstants, IosConstants
  <2>2. IosTypeOK
    BY <1>2, <2>1 DEF IosInit, IosTypeOK, NoQuality
  <2> QED BY <1>2, <2>2 DEF IosInit, NoQuality, IosHolesAreKnown, QualityIsOfSelection, LoadingIsUnderWay
<1>3. CASE client = "web"
  <2>1. WebInv /\ IosInit
    BY <1>3 DEF ClientsInv
  <2>2. FeedTypeOK
    BY <2>1 DEF WebInv, PlaysInv, FeedInv
  <2> QED BY <1>2, <1>3, <2>1, <2>2, WebInvImplies DEF TypeOK, ClientsInv
<1>4. CASE client = "ios"
  <2>1. IosInv /\ WebInit
    BY <1>4 DEF ClientsInv
  <2>2. FeedTypeOK
    BY <2>1 DEF IosInv, FeedInv
  <2> QED BY <1>1, <1>4, <2>1, <2>2, IosInvImplies DEF TypeOK, ClientsInv
<1> QED BY <1>3, <1>4, KindsAssumption DEF ClientsInv

\* Every variable of the feed and of both clients keeps its range.
THEOREM TypeCorrect == Spec => []TypeOK
BY Invariance, InvImplies, PTL

\* use-live-game.ts:79-192: a page that follows the feed misses a play below its
\* sequence only if its publication was lost or fell into the API's window, a
\* later frame overtook it before a cut-off, a replay started over its read plays
\* and was cut off or failed before them, or a refused start dropped it.
THEOREM WebHolesAreKnownTheorem == Spec => []WebHolesAreKnown
BY Invariance, InvImplies, PTL

\* startReplay and onmessage (use-live-game.ts:113-126, 194-205): a page that
\* shows a replay has one asked for, queued or running, or could not hear of its
\* end: it was lost, the worker discarded the command, or the API's run failed.
THEOREM ReplayingIsKnownTheorem == Spec => []ReplayingIsKnown
BY Invariance, InvImplies, PTL

\* onclose and the polling effect (use-live-game.ts:141-192): a page that polls
\* has no socket and no retry due, so no socket resumes from a poll's sequence.
THEOREM PollsOrListensTheorem == Spec => []PollsOrListens
BY Invariance, InvImplies, PTL

\* connect and apply (GameDetailModel.swift): a view that follows the feed misses
\* a play below its sequence only if its publication was lost or fell into the
\* API's window, a later frame overtook it before a cut-off, or the API's own
\* replay failed before it.
THEOREM IosHolesAreKnownTheorem == Spec => []IosHolesAreKnown
BY Invariance, InvImplies, PTL

\* loadShotQualityIfNeeded (GameDetailModel.swift): the quality on the screen is
\* that of the selected point, whichever requests return in which order.
THEOREM QualityIsOfSelectionTheorem == Spec => []QualityIsOfSelection
BY Invariance, InvImplies, PTL

\* select and disconnect (GameDetailModel.swift): a view that follows the feed
\* and says "loading" has a request under way that may answer it.
THEOREM LoadingIsUnderWayTheorem == Spec => []LoadingIsUnderWay
BY Invariance, InvImplies, PTL
=============================================================================
