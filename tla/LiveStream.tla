----------------------------- MODULE LiveStream -----------------------------
(***************************************************************************)
(* The WebSocket side of one API process, for one game (broadcast.py,      *)
(* ConnectionManager and EventBus; api.py, websocket_game).                *)
(*                                                                         *)
(* Everything runs on one event loop.  A task gives way to the others only *)
(* where it awaits something that takes time: a database read, a send.     *)
(* asyncio.Lock is never contended (no critical section awaits anything),  *)
(* so what the manager does under its lock is part of the step around it.  *)
(* A send is two steps: the frame is on the wire, and later the sender     *)
(* goes on.  In between, the same socket's handler, the broadcast and the  *)
(* peer all move.                                                          *)
(***************************************************************************)
EXTENDS Integers, SequencesExt

CONSTANTS
  Sockets,       \* websocket objects; one that was used is not used again
  Plays,         \* bound: plays of the game, numbered 1..Plays
  MaxPublished,  \* bound: envelopes published before the model stops
  MaxBeats,      \* bound: heartbeats of one socket
  NoSocket, Nothing

ASSUME StreamConstants ==
  /\ Plays \in Nat
  /\ MaxPublished \in Nat
  /\ MaxBeats \in Nat
  /\ NoSocket \notin Sockets
  /\ Nothing \notin 0..Plays

VARIABLES
  stored,       \* plays committed so far: 1..stored
  publisher,    \* the ingestor and the replay worker: how far they are
  bus,          \* event_bus: its channel and its listener
  connections,  \* manager._connections[game]
  tracked,      \* manager._last_sequences: [Sockets -> Nat or Nothing]
  fanout,       \* the broadcast under way
  handler,      \* websocket_game, one per socket
  wire          \* what each client was sent while its peer is there

vars == <<stored, publisher, bus, connections, tracked, fanout, handler, wire>>
Play(n) == [type |-> "play", sequence |-> n]
Status(n) == [type |-> "status", sequence |-> n]
Beat(n) == [type |-> "heartbeat", sequence |-> n]

Envelope == [type : {"play", "status", "heartbeat"}, sequence : 0..Plays]

NoFanout ==
  [busy |-> FALSE, envelope |-> Status(0), waiting |-> {}, sending |-> NoSocket, stale |-> {}]

NoHandler ==
  [pc |-> "unused", after |-> -1, next |-> 0, upto |-> 0, last |-> 0, beats |-> 0, missed |-> {}]

NoPeer == [open |-> FALSE, sent |-> {}]

Init ==
  /\ stored \in 0..Plays
  /\ publisher = [announced |-> stored, replaying |-> FALSE, replayed |-> 0, count |-> 0]
  \* without Redis at start-up there is no listener
  /\ \E listening \in BOOLEAN : bus = [listening |-> listening, channel |-> <<>>, unheard |-> {}]
  /\ connections = {}
  /\ tracked = [s \in Sockets |-> Nothing]
  /\ fanout = NoFanout
  /\ handler = [s \in Sockets |-> NoHandler]
  /\ wire = [s \in Sockets |-> NoPeer]

api == <<connections, tracked, fanout, handler, wire>>

(***************************************************************************)
(* The start of a broadcast                                                *)
(***************************************************************************)

\* Mutant of Audience: only the sockets that have had their whole backlog.
AudienceListening == {s \in connections : handler[s].pc \in {"listening", "beating"}}

\* tuple(self._connections[game]), taken when the broadcast begins.
Audience == connections

\* The broadcast of an envelope begins.  A socket whose handler has read its
\* backlog and has not registered yet misses a play the backlog lacks.
Broadcast(e) ==
  LET misses(h) == e.type = "play" /\ h.pc = "read" /\ e.sequence > Max({h.upto, h.after})
  IN /\ ~fanout.busy
     /\ fanout' = [NoFanout EXCEPT !.busy = TRUE, !.envelope = e, !.waiting = Audience]
     /\ handler' = [s \in Sockets |->
          IF misses(handler[s])
          THEN [handler[s] EXCEPT !.missed = @ \cup {e.sequence}]
          ELSE handler[s]]

(***************************************************************************)
(* Who publishes: the ingestor its commits in order, and a replay what is  *)
(* stored, from the start, as often as it is asked or restarted.  The      *)
(* replay is the worker's while this process listens to Redis, and its own *)
(* (ReplayCoordinator) after that.                                         *)
(***************************************************************************)

CommitPlay ==
  /\ stored < Plays
  /\ stored' = stored + 1
  /\ UNCHANGED <<publisher, bus, api>>

\* EventBus.publish of another process: what nobody listens to is gone.
Publish(envelope) ==
  /\ bus' = IF bus.listening
            THEN [bus EXCEPT !.channel = Append(@, envelope)]
            ELSE [bus EXCEPT !.unheard = @ \cup {envelope}]
  /\ UNCHANGED <<stored, api>>

\* EventBus.publish of a replay: over Redis, or to the sockets at once.
PublishReplay(envelope) ==
  IF bus.listening THEN Publish(envelope)
  ELSE Broadcast(envelope) /\ UNCHANGED <<stored, bus, connections, tracked, wire>>

MayPublish == publisher.count < MaxPublished

AnnouncePlay ==
  /\ MayPublish
  /\ publisher.announced < stored
  /\ Publish(Play(publisher.announced + 1))
  /\ publisher' = [publisher EXCEPT !.announced = @ + 1, !.count = @ + 1]

\* replay_started carries sequence 0.
StartReplay ==
  /\ MayPublish
  /\ PublishReplay(Status(0))
  /\ publisher' = [publisher EXCEPT !.replaying = TRUE, !.replayed = 0, !.count = @ + 1]

\* The replay's plays were read before it began, announced or not.  How many
\* they are is left open until it ends.
ReplayPlay ==
  /\ MayPublish
  /\ publisher.replaying
  /\ publisher.replayed < stored
  /\ PublishReplay(Play(publisher.replayed + 1))
  /\ publisher' = [publisher EXCEPT !.replayed = @ + 1, !.count = @ + 1]

\* replay_completed carries the sequence of the last play.
CompleteReplay ==
  /\ MayPublish
  /\ publisher.replaying
  /\ PublishReplay(Status(publisher.replayed))
  /\ publisher' = [publisher EXCEPT !.replaying = FALSE, !.count = @ + 1]

\* _listen meets an exception while it waits for a message: the process gives
\* Redis up, with what it had not read; the worker's replay is out of hearing.
ListenerFails ==
  /\ bus.listening
  /\ ~fanout.busy
  /\ bus' = [listening |-> FALSE, channel |-> <<>>, unheard |-> ToSet(bus.channel)]
  /\ publisher' = [publisher EXCEPT !.replaying = FALSE]
  /\ UNCHANGED <<stored, api>>

(***************************************************************************)
(* ConnectionManager                                                       *)
(***************************************************************************)

\* Mutant of Noted: without the test that the socket is still registered.
NotedAlways(s, n) ==
  [tracked EXCEPT ![s] = IF @ = Nothing THEN n ELSE Max({@, n})]

\* Mutant of Noted: the last sequence instead of the highest.
NotedLast(s, n) ==
  [tracked EXCEPT ![s] = IF @ = Nothing THEN Nothing ELSE n]

\* note_sequence
Noted(s, n) ==
  [tracked EXCEPT ![s] = IF @ = Nothing THEN Nothing ELSE Max({@, n})]

\* disconnect, and the end of broadcast
Unregister(gone) ==
  /\ connections' = connections \ gone
  /\ tracked' = [s \in Sockets |-> IF s \in gone THEN Nothing ELSE tracked[s]]

OnWire(s, envelope) == wire' = [wire EXCEPT ![s].sent = @ \cup {envelope}]

\* _listen: the next message is broadcast.
BeginFanout ==
  /\ bus.channel # <<>>
  /\ bus' = [bus EXCEPT !.channel = Tail(@)]
  /\ Broadcast(Head(bus.channel))
  /\ UNCHANGED <<stored, publisher, connections, tracked, wire>>

\* send_json of one connection.  With the peer gone it raises at once, or it
\* is handed to a transport that has not noticed.
FanoutSend(s) ==
  /\ fanout.busy
  /\ fanout.sending = NoSocket
  /\ s \in fanout.waiting
  /\ \/ /\ fanout' = [fanout EXCEPT !.waiting = @ \ {s}, !.sending = s]
        /\ IF wire[s].open THEN OnWire(s, fanout.envelope) ELSE UNCHANGED wire
     \/ /\ ~wire[s].open
        /\ fanout' = [fanout EXCEPT !.waiting = @ \ {s}, !.stale = @ \cup {s}]
        /\ UNCHANGED wire
  /\ UNCHANGED <<stored, publisher, bus, connections, tracked, handler>>

\* The send returns and the sequence is noted; or it raises after all.
FanoutSent(s) ==
  /\ fanout.sending = s
  /\ \/ /\ fanout' = [fanout EXCEPT !.sending = NoSocket]
        /\ tracked' = Noted(s, fanout.envelope.sequence)
     \/ /\ ~wire[s].open
        /\ fanout' = [fanout EXCEPT !.sending = NoSocket, !.stale = @ \cup {s}]
        /\ UNCHANGED tracked
  /\ UNCHANGED <<stored, publisher, bus, connections, handler, wire>>

EndFanout ==
  /\ fanout.busy
  /\ fanout.waiting = {}
  /\ fanout.sending = NoSocket
  /\ fanout' = NoFanout
  /\ Unregister(fanout.stale)
  /\ UNCHANGED <<stored, publisher, bus, handler, wire>>

(***************************************************************************)
(* websocket_game                                                          *)
(***************************************************************************)

\* A client asks for what follows "after", a sequence it has seen (the default
\* of -1 reads what 0 reads: the first sequence is 1).  The backlog is read
\* before the socket is registered.
ReadBacklog(s, after) ==
  /\ handler[s].pc = "unused"
  /\ handler' = [handler EXCEPT
       ![s] = [NoHandler EXCEPT !.pc = "read", !.after = after, !.upto = stored,
                                !.next = Max({after, 0}) + 1]]
  /\ wire' = [wire EXCEPT ![s].open = TRUE]
  /\ UNCHANGED <<stored, publisher, bus, connections, tracked, fanout>>

\* accept and connect
Register(s) ==
  /\ handler[s].pc = "read"
  /\ wire[s].open
  /\ connections' = connections \cup {s}
  /\ tracked' = [tracked EXCEPT ![s] = 0]
  /\ handler' = [handler EXCEPT ![s].pc = "sending"]
  /\ UNCHANGED <<stored, publisher, bus, fanout, wire>>

\* Mutant of SendBacklog: one frame too many.
SendOneMore(s) ==
  /\ handler[s].pc = "sending"
  /\ handler[s].next <= handler[s].upto + 1
  /\ wire[s].open
  /\ OnWire(s, Play(handler[s].next))
  /\ handler' = [handler EXCEPT ![s].pc = "sent"]
  /\ UNCHANGED <<stored, publisher, bus, connections, tracked, fanout>>

SendBacklog(s) ==
  /\ handler[s].pc = "sending"
  /\ handler[s].next <= handler[s].upto
  /\ wire[s].open
  /\ OnWire(s, Play(handler[s].next))
  /\ handler' = [handler EXCEPT ![s].pc = "sent"]
  /\ UNCHANGED <<stored, publisher, bus, connections, tracked, fanout>>

BacklogSent(s) ==
  /\ handler[s].pc = "sent"
  /\ tracked' = Noted(s, handler[s].next)
  /\ handler' = [handler EXCEPT ![s].pc = "sending", ![s].next = @ + 1]
  /\ UNCHANGED <<stored, publisher, bus, connections, fanout, wire>>

Listen(s) ==
  /\ handler[s].pc = "sending"
  /\ handler[s].next > handler[s].upto
  /\ handler' = [handler EXCEPT
       ![s].pc = "listening", ![s].last = Max({handler[s].upto, handler[s].after, 0})]
  /\ UNCHANGED <<stored, publisher, bus, connections, tracked, fanout, wire>>

\* 15 s without a word from the client.  The manager's sequence is the one
\* sent, and the handler's own only when the manager has none.
Heartbeat(s) ==
  LET last == IF tracked[s] = Nothing THEN handler[s].last ELSE tracked[s]
  IN /\ handler[s].pc = "listening"
     /\ wire[s].open
     /\ handler[s].beats < MaxBeats
     /\ OnWire(s, Beat(last))
     /\ handler' = [handler EXCEPT ![s].pc = "beating", ![s].last = last, ![s].beats = @ + 1]
     /\ UNCHANGED <<stored, publisher, bus, connections, tracked, fanout>>

HeartbeatSent(s) ==
  /\ handler[s].pc = "beating"
  /\ handler' = [handler EXCEPT ![s].pc = "listening"]
  /\ UNCHANGED <<stored, publisher, bus, connections, tracked, fanout, wire>>

\* The client or the network ends the connection.
PeerCloses(s) ==
  /\ wire[s].open
  /\ wire' = [wire EXCEPT ![s] = NoPeer]
  /\ UNCHANGED <<stored, publisher, bus, connections, tracked, fanout, handler>>

\* The send or the receive raises; "finally" unregisters the socket.  Before
\* the registration (accept raises) there is nothing to undo.
EndHandler(s) ==
  /\ ~wire[s].open
  /\ handler[s].pc \in {"read", "sending", "sent", "listening", "beating"}
  /\ handler' = [handler EXCEPT ![s] = [NoHandler EXCEPT !.pc = "done"]]
  /\ Unregister({s})
  /\ UNCHANGED <<stored, publisher, bus, fanout, wire>>

Publishing ==
  CommitPlay \/ AnnouncePlay \/ StartReplay \/ ReplayPlay \/ CompleteReplay \/ ListenerFails

\* What the event loop does by itself.
LoopStep ==
  \/ BeginFanout
  \/ EndFanout
  \/ \E s \in Sockets :
       \/ FanoutSend(s) \/ FanoutSent(s)
       \/ Register(s) \/ SendBacklog(s) \/ BacklogSent(s) \/ Listen(s)
       \/ HeartbeatSent(s) \/ EndHandler(s)

Next ==
  \/ Publishing
  \/ LoopStep
  \/ \E s \in Sockets :
       \/ \E after \in 0..stored : ReadBacklog(s, after)
       \/ Heartbeat(s)
       \/ PeerCloses(s)

Spec == Init /\ [][Next]_vars

(***************************************************************************)
(* Properties                                                              *)
(***************************************************************************)

Handler ==
  [pc : {"unused", "read", "sending", "sent", "listening", "beating", "done"},
   after : -1..Plays, next : 0..(Plays + 1), upto : 0..Plays, last : 0..Plays,
   beats : 0..MaxBeats, missed : SUBSET (0..Plays)]

TypeOK ==
  /\ stored \in 0..Plays
  /\ publisher \in [announced : 0..Plays, replaying : BOOLEAN, replayed : 0..Plays,
                    count : 0..MaxPublished]
  /\ bus \in [listening : BOOLEAN, channel : Seq(Envelope), unheard : SUBSET Envelope]
  /\ connections \subseteq Sockets
  /\ tracked \in [Sockets -> (0..Plays) \cup {Nothing}]
  /\ fanout \in [busy : BOOLEAN, envelope : Envelope, waiting : SUBSET Sockets,
                 sending : Sockets \cup {NoSocket}, stale : SUBSET Sockets]
  /\ handler \in [Sockets -> Handler]
  /\ wire \in [Sockets -> [open : BOOLEAN, sent : SUBSET Envelope]]

Serving == {"sending", "sent", "listening", "beating"}

\* A socket is registered only while its handler runs, and its sequence is
\* kept exactly as long: a broadcast that was under way when the handler ended
\* never brings either back.
SubscribersAreLive ==
  \A s \in Sockets :
    /\ s \in connections <=> tracked[s] # Nothing
    /\ s \in connections => handler[s].pc \in Serving

Sequences(sent, types) == {e.sequence : e \in {f \in sent : f.type \in types}}

\* Two tasks send on one socket, each noting what it sent; the manager's
\* sequence is always the highest of both, whatever a status frame carries.
TrackedIsHighestSent ==
  \A s \in connections :
    LET sent == {0} \cup Sequences(wire[s].sent, {"play", "status"})
    IN wire[s].open =>
         /\ tracked[s] \in sent
         /\ handler[s].pc # "sent" /\ fanout.sending # s => tracked[s] = Max(sent)

\* A registered client gets every play after the one it named: from its
\* backlog, or as a broadcast it has had or is about to have.  The ways to miss
\* a play are to have it broadcast between the read of the backlog and the
\* registration, or announced where the process does not hear it.
OnlyTheWindowIsLost ==
  \A s \in connections :
    wire[s].open =>
      \A n \in (handler[s].after + 1)..publisher.announced :
        \/ n \in Sequences(wire[s].sent, {"play"})
        \/ n \in handler[s].next..handler[s].upto
        \/ Play(n) \in ToSet(bus.channel)
        \/ s \in fanout.waiting /\ fanout.envelope = Play(n)
        \/ n \in handler[s].missed
        \/ Play(n) \in bus.unheard

\* HANDOFF.md:337-340: "Heartbeat frames now use that tracked sequence after
\* replay events stream over the connection, and lower-sequence status frames
\* cannot rewind the resume point": no heartbeat is below what the client said
\* it has.
HeartbeatKeepsResumePoint ==
  \A s \in Sockets : \A n \in Sequences(wire[s].sent, {"heartbeat"}) :
    n >= handler[s].after
=============================================================================
