------------------------------ MODULE LiveFeed ------------------------------
(***************************************************************************)
(* One game as one client sees it: REST snapshots of the committed plays,  *)
(* and a WebSocket that carries a backlog and broadcasts.  This is what    *)
(* Ingestion, ReplayQueue, ReplayCoordinator and LiveStream say of the API *)
(* and the worker, without their inner steps.  A frame is delivered when   *)
(* it is sent, or never: what an ended connection had in flight was sent   *)
(* after it.                                                               *)
(***************************************************************************)
EXTENDS Integers

CONSTANTS
  Plays,        \* bound: plays of the game
  MaxCommands,  \* bound: the game's replay commands in Redis at once; a
                \* second one is let in when the start lock has lapsed
  MaxDrops      \* bound: connections that end

ASSUME FeedConstants == Plays \in Nat /\ MaxCommands \in Nat /\ MaxDrops \in Nat

\* Who replays a game: the worker, or the API itself when it has no Redis.
Player == {"worker", "api"}

VARIABLES
  stored,       \* committed plays have sequences 1..stored
  unpublished,  \* committed plays whose publish_results has still to come
  commands,     \* replay commands of the game in Redis, the worker's included
  replay,       \* the run of each player
  connection    \* the client's WebSocket, as the API has it

feedVars == <<stored, unpublished, commands, replay, connection>>

Play(n) == [type |-> "play", sequence |-> n]
Started == [type |-> "replay_started", sequence |-> 0]
Completed(n) == [type |-> "replay_completed", sequence |-> n]
Beat(n) == [type |-> "heartbeat", sequence |-> n]

Frame == [type : {"play", "replay_started", "replay_completed", "heartbeat"}, sequence : 0..Plays]

\* A run that has no plays in its hands.
Idle(pc) == [pc |-> pc, next |-> 1, upto |-> 0]

NoConnection(drops) == [pc |-> "closed", next |-> 1, upto |-> 0, drops |-> drops]

FeedInit ==
  /\ stored \in 0..Plays
  /\ unpublished = {}
  /\ commands = 0
  /\ replay = [p \in Player |-> Idle("none")]
  /\ connection = NoConnection(0)

(***************************************************************************)
(* Ingestion: publish_results runs after the commit and outside the game's *)
(* lock, so plays of different sessions go out in any order.               *)
(***************************************************************************)

CommitPlay ==
  /\ stored < Plays
  /\ stored' = stored + 1
  /\ unpublished' = unpublished \cup {stored + 1}
  /\ UNCHANGED <<commands, replay, connection>>

AnnouncePlay(f) ==
  /\ \E n \in unpublished : f = Play(n) /\ unpublished' = unpublished \ {n}
  /\ UNCHANGED <<stored, commands, replay, connection>>

(***************************************************************************)
(* Replays                                                                 *)
(***************************************************************************)

\* The run's plays are those committed when it reads them.
ReadPlays(p) == replay' = [replay EXCEPT ![p] = [pc |-> "read", next |-> 1, upto |-> stored]]

\* start_replay, when it answers "started".
AcceptReplay ==
  /\ \/ commands < MaxCommands /\ commands' = commands + 1 /\ UNCHANGED replay
     \/ replay["api"].pc = "none" /\ ReadPlays("api") /\ UNCHANGED commands
  /\ UNCHANGED <<stored, unpublished, connection>>

\* The worker goes back to the command it was interrupted in, or takes one.
ClaimReplay ==
  /\ replay["worker"].pc = "pending" \/ (replay["worker"].pc = "none" /\ commands > 0)
  /\ ReadPlays("worker")
  /\ UNCHANGED <<stored, unpublished, commands, connection>>

\* The worker takes a command that is not valid.
DiscardReplay ==
  /\ replay["worker"].pc = "none" /\ commands > 0
  /\ commands' = commands - 1
  /\ UNCHANGED <<stored, unpublished, replay, connection>>

\* The worker ends before its acknowledgement.
InterruptReplay ==
  /\ replay["worker"].pc \in {"read", "running", "done"}
  /\ replay' = [replay EXCEPT !["worker"] = Idle("pending")]
  /\ UNCHANGED <<stored, unpublished, commands, connection>>

\* Mutant of AcknowledgeReplay: the worker stays with the command.
AcknowledgeAgain ==
  /\ replay["worker"].pc = "done"
  /\ commands' = commands - 1
  /\ UNCHANGED <<stored, unpublished, replay, connection>>

AcknowledgeReplay ==
  /\ replay["worker"].pc = "done"
  /\ commands' = commands - 1
  /\ replay' = [replay EXCEPT !["worker"] = Idle("none")]
  /\ UNCHANGED <<stored, unpublished, connection>>

\* The API's own run raises, or ends with its process: nothing takes it up.
FailReplay ==
  /\ replay["api"].pc \in {"read", "running"}
  /\ replay' = [replay EXCEPT !["api"] = Idle("none")]
  /\ UNCHANGED <<stored, unpublished, commands, connection>>

StartReplay(p, f) ==
  /\ replay[p].pc = "read"
  /\ f = Started
  /\ replay' = [replay EXCEPT ![p].pc = "running"]
  /\ UNCHANGED <<stored, unpublished, commands, connection>>

ReplayPlay(p, f) ==
  /\ replay[p].pc = "running" /\ replay[p].next <= replay[p].upto
  /\ f = Play(replay[p].next)
  /\ replay' = [replay EXCEPT ![p].next = @ + 1]
  /\ UNCHANGED <<stored, unpublished, commands, connection>>

CompleteReplay(p, f) ==
  /\ replay[p].pc = "running" /\ replay[p].next > replay[p].upto
  /\ f = Completed(replay[p].upto)
  /\ replay' = [replay EXCEPT ![p] = Idle(IF p = "worker" THEN "done" ELSE "none")]
  /\ UNCHANGED <<stored, unpublished, commands, connection>>

RunOnce(p, f) == StartReplay(p, f) \/ ReplayPlay(p, f) \/ CompleteReplay(p, f)

Broadcast(f) == AnnouncePlay(f) \/ \E p \in Player : RunOnce(p, f)

\* The frame reaches no API process: its publisher ended before it, its
\* publish failed, or the API's listener has ended.  (Frames of the API's own
\* run do not go through Redis.)
LoseFrame(f) == AnnouncePlay(f) \/ RunOnce("worker", f)

(***************************************************************************)
(* websocket_game                                                          *)
(***************************************************************************)

\* Mutant of Connect: the backlog starts one play late.
ConnectLate(after) ==
  /\ connection.pc = "closed"
  /\ connection' = [connection EXCEPT !.pc = "read", !.next = after + 2, !.upto = stored]
  /\ UNCHANGED <<stored, unpublished, commands, replay>>

\* A connection is asked for with after_sequence; the backlog is read.
Connect(after) ==
  /\ connection.pc = "closed"
  /\ connection' = [connection EXCEPT !.pc = "read", !.next = after + 1, !.upto = stored]
  /\ UNCHANGED <<stored, unpublished, commands, replay>>

Register ==
  /\ connection.pc = "read"
  /\ connection' = [connection EXCEPT !.pc = "open"]
  /\ UNCHANGED <<stored, unpublished, commands, replay>>

SendBacklog(f) ==
  /\ connection.pc = "open"
  /\ connection.next <= connection.upto
  /\ f = Play(connection.next)
  /\ connection' = [connection EXCEPT !.next = @ + 1]
  /\ UNCHANGED <<stored, unpublished, commands, replay>>

Heartbeat(f) ==
  /\ connection.pc = "open"
  /\ connection.next > connection.upto
  /\ f = Beat(connection.upto)
  /\ UNCHANGED feedVars

\* The connection ends, or could not be made.
Drop ==
  /\ connection.pc # "closed"
  /\ connection.drops < MaxDrops
  /\ connection' = NoConnection(connection.drops + 1)
  /\ UNCHANGED <<stored, unpublished, commands, replay>>

(***************************************************************************)
(* What the clients' properties say of the feed                            *)
(***************************************************************************)

\* What a run has still to send.  A command is not a run yet: it may be
\* discarded.
Coming(p) ==
  CASE replay[p].pc = "running" -> replay[p].next..replay[p].upto
    [] replay[p].pc = "read" -> 1..replay[p].upto
    [] replay[p].pc = "pending" -> 1..stored
    [] OTHER -> {}

\* What an open connection has still to deliver.
ToCome ==
  (connection.next..connection.upto) \cup unpublished \cup Coming("worker") \cup Coming("api")

\* Of the plays that a step was to bring and that nobody heard, those that
\* passed the client's connection by for good.
PassedBy(plays) == IF connection.pc = "closed" THEN {} ELSE plays \ ToCome'

Carried(f) == IF f.type = "play" THEN {f.sequence} ELSE {}

\* A run is under way, or a command that will be one.
UnderWay ==
  \/ replay["api"].pc # "none"
  \/ commands > (IF replay["worker"].pc = "done" THEN 1 ELSE 0)

FeedTypeOK ==
  /\ stored \in 0..Plays /\ unpublished \subseteq 1..stored
  /\ commands \in 0..MaxCommands
  /\ replay \in [Player -> [pc : {"none", "pending", "read", "running", "done"},
                            next : 1..(Plays + 1), upto : 0..stored]]
  /\ replay["worker"].pc # "none" => commands > 0
  /\ replay["api"].pc \in {"none", "read", "running"}
  /\ connection \in [pc : {"closed", "read", "open"}, next : 1..(Plays + 1), upto : 0..stored,
                     drops : 0..MaxDrops]

\* Every play up to "seen" is in the timeline, was lost for a known reason, or
\* is still to come on the connection.
NoUnknownHole(timeline, seen, lost) ==
  \A s \in 1..seen :
    s \in timeline \cup lost \/ (connection.pc # "closed" /\ s \in ToCome)
=============================================================================
