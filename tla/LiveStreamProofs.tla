-------------------------- MODULE LiveStreamProofs --------------------------
(* LiveStream for any number of sockets, plays, envelopes and heartbeats.     *)
EXTENDS LiveStream, TLAPS

(***************************************************************************)
(* The inductive invariant                                                 *)
(***************************************************************************)

\* The sequences a client was sent in plays and status frames, and 0.
Told(s) == {0} \cup Sequences(wire[s].sent, {"play", "status"})

\* Broadcasts are plays and status frames.
Plain == {e \in Envelope : e.type \in {"play", "status"}}

BusIsPlain ==
  /\ publisher.announced <= stored
  /\ \A i \in DOMAIN bus.channel : bus.channel[i] \in Plain
  /\ fanout.envelope \in Plain
  /\ bus.listening => bus.unheard = {}

\* A broadcast has sockets that were registered, and a frame that is being
\* sent is on the wire.
FanoutIsSound ==
  /\ ~fanout.busy => fanout.waiting = {} /\ fanout.sending = NoSocket
  /\ \A s \in Sockets :
       s \in fanout.waiting \/ fanout.sending = s => handler[s].pc \in Serving \cup {"done"}
  /\ \A s \in Sockets :
       fanout.sending = s /\ wire[s].open => fanout.envelope \in wire[s].sent

HandlersAreSound ==
  \A s \in Sockets :
    /\ handler[s].pc \in {"unused", "read"} => wire[s].sent = {}
    /\ handler[s].pc = "read" => handler[s].after >= 0 /\ handler[s].next = handler[s].after + 1
    /\ handler[s].pc = "sent" => /\ handler[s].next <= handler[s].upto
                                 /\ wire[s].open => Play(handler[s].next) \in wire[s].sent

\* What is above the tracked sequence is a frame whose sender has not come to
\* note it.
TrackedIsNoted ==
  \A s \in connections :
    wire[s].open =>
      /\ tracked[s] \in Told(s)
      /\ \A n \in Told(s) :
           \/ n <= tracked[s]
           \/ handler[s].pc = "sent" /\ n = handler[s].next
           \/ fanout.sending = s /\ n = fanout.envelope.sequence

\* Where a play after the one the client named may be.
Accounted(s, n) ==
  \/ Play(n) \in wire[s].sent
  \/ n \in handler[s].next..handler[s].upto
  \/ \E i \in DOMAIN bus.channel : bus.channel[i] = Play(n)
  \/ s \in fanout.waiting /\ fanout.envelope = Play(n)
  \/ n \in handler[s].missed
  \/ Play(n) \in bus.unheard

\* The window is open from the read of the backlog on.
PlaysAreAccounted ==
  \A s \in Sockets :
    (s \in connections \/ handler[s].pc = "read") /\ wire[s].open =>
      \A n \in (handler[s].after + 1)..publisher.announced : Accounted(s, n)

IInv ==
  /\ TypeOK /\ BusIsPlain /\ FanoutIsSound /\ HandlersAreSound
  /\ SubscribersAreLive /\ TrackedIsNoted /\ PlaysAreAccounted

(***************************************************************************)
(* Lemmas about the operators                                              *)
(***************************************************************************)

\* The greatest member is Max.
LEMMA MaxIs ==
  ASSUME NEW S \in SUBSET Int, NEW m \in S, \A x \in S : x <= m
  PROVE  Max(S) = m
<1>1. \E x \in S : \A y \in S : x >= y
  OBVIOUS
<1>2. Max(S) \in S /\ \A x \in S : Max(S) >= x
  BY <1>1, Zenon DEF Max
<1>3. Max(S) \in Int /\ m \in Int /\ Max(S) <= m /\ Max(S) >= m
  BY <1>2
<1> HIDE DEF Max
<1> QED BY <1>3

\* Max of two numbers.
LEMMA MaxOfTwo ==
  ASSUME NEW a \in Int, NEW b \in Int
  PROVE  Max({a, b}) = IF a >= b THEN a ELSE b
<1>1. CASE a >= b
  <2>1. {a, b} \in SUBSET Int /\ a \in {a, b} /\ \A x \in {a, b} : x <= a
    BY <1>1
  <2>2. Max({a, b}) = a
    BY <2>1, MaxIs
  <2> HIDE DEF Max
  <2> QED BY <1>1, <2>2
<1>2. CASE ~(a >= b)
  <2>1. {a, b} \in SUBSET Int /\ b \in {a, b} /\ \A x \in {a, b} : x <= b
    BY <1>2
  <2>2. Max({a, b}) = b
    BY <2>1, MaxIs
  <2> HIDE DEF Max
  <2> QED BY <1>2, <2>2
<1> QED BY <1>1, <1>2

\* Max of a set of three, one of them 0.
LEMMA MaxOfThree ==
  ASSUME NEW a \in Int, NEW b \in Int
  PROVE  Max({a, b, 0}) \in {a, b, 0} /\ Max({a, b, 0}) >= 0
<1> DEFINE S == {a, b, 0}
<1>1. \E m \in S : \A x \in S : x <= m
  <2>1. CASE a >= b /\ a >= 0
    BY <2>1
  <2>2. CASE b >= a /\ b >= 0
    BY <2>2
  <2>3. CASE 0 >= a /\ 0 >= b
    BY <2>3
  <2> QED BY <2>1, <2>2, <2>3
<1>2. PICK m \in S : \A x \in S : x <= m
  BY <1>1
<1>3. Max(S) = m
  BY <1>2, MaxIs
<1>4. m \in S /\ m >= 0
  BY <1>2
<1> HIDE DEF Max
<1> QED BY <1>3, <1>4

\* note_sequence: nothing for a socket that is not registered, else the higher.
LEMMA NotedIs ==
  ASSUME tracked \in [Sockets -> (0..Plays) \cup {Nothing}], NEW s \in Sockets, NEW n \in 0..Plays
  PROVE  /\ Noted(s, n) \in [Sockets -> (0..Plays) \cup {Nothing}]
         /\ \A t \in Sockets : t # s => Noted(s, n)[t] = tracked[t]
         /\ tracked[s] = Nothing => Noted(s, n)[s] = Nothing
         /\ tracked[s] # Nothing =>
              /\ tracked[s] \in 0..Plays
              /\ Noted(s, n)[s] \in {tracked[s], n}
              /\ Noted(s, n)[s] >= tracked[s] /\ Noted(s, n)[s] >= n
<1>1. Plays \in Nat /\ Nothing \notin 0..Plays
  BY StreamConstants
<1>2. CASE tracked[s] = Nothing
  <2>1. Noted(s, n) = [tracked EXCEPT ![s] = Nothing]
    BY <1>2 DEF Noted
  <2> HIDE DEF Noted
  <2> QED BY <1>2, <2>1
<1>3. CASE tracked[s] # Nothing
  <2>1. tracked[s] \in 0..Plays
    BY <1>3
  <2>2. Max({tracked[s], n}) = IF tracked[s] >= n THEN tracked[s] ELSE n
    BY <1>1, <2>1, MaxOfTwo
  <2>3. Noted(s, n) = [tracked EXCEPT ![s] = Max({tracked[s], n})]
    BY <1>3 DEF Noted
  <2> HIDE DEF Noted, Max
  <2> QED BY <1>1, <1>3, <2>1, <2>2, <2>3
<1> QED BY <1>2, <1>3

\* A plays or status frame on the wire is told, a heartbeat is not.
LEMMA ToldAdd ==
  ASSUME NEW s \in Sockets, NEW e, wire'[s].sent = wire[s].sent \cup {e}
  PROVE  Told(s)' = IF e.type \in {"play", "status"} THEN Told(s) \cup {e.sequence} ELSE Told(s)
BY DEF Told, Sequences

(***************************************************************************)
(* Initial states and publishing                                           *)
(***************************************************************************)

\* Nothing is published yet and nobody is connected.
LEMMA InitIInv == Init => IInv
<1> SUFFICES ASSUME Init PROVE IInv
  OBVIOUS
<1> USE StreamConstants DEF Init
<1>1. PICK listening \in BOOLEAN : bus = [listening |-> listening, channel |-> <<>>, unheard |-> {}]
  OBVIOUS
<1>2. /\ Status(0) \in Plain
      /\ NoHandler \in Handler
      /\ \A s \in Sockets : handler[s] = NoHandler /\ wire[s] = NoPeer
  BY DEF Status, Plain, Envelope, NoHandler, Handler
<1>3. TypeOK
  BY <1>1, <1>2 DEF TypeOK, NoFanout, NoPeer, Plain
<1>4. BusIsPlain /\ FanoutIsSound /\ HandlersAreSound
  BY <1>1, <1>2 DEF BusIsPlain, FanoutIsSound, HandlersAreSound, NoFanout, NoHandler, NoPeer
<1>5. SubscribersAreLive /\ TrackedIsNoted /\ PlaysAreAccounted
  BY <1>2 DEF SubscribersAreLive, TrackedIsNoted, PlaysAreAccounted, NoHandler, NoPeer
<1> QED BY <1>3, <1>4, <1>5 DEF IInv

\* Nothing of the sockets' side has changed.
LEMMA ApiUnchanged ==
  ASSUME IInv, UNCHANGED api
  PROVE  /\ FanoutIsSound' /\ HandlersAreSound' /\ SubscribersAreLive' /\ TrackedIsNoted'
         /\ fanout.envelope' \in Plain
         /\ \A s \in Sockets : Told(s)' = Told(s)
BY DEF IInv, api, BusIsPlain, FanoutIsSound, HandlersAreSound, SubscribersAreLive, TrackedIsNoted,
       Told

\* The database gains a play; nothing in the process moves.
LEMMA CommitPlayIInv ==
  ASSUME IInv, CommitPlay
  PROVE  IInv'
<1> USE DEF CommitPlay
<1>1. TypeOK'
  BY StreamConstants DEF IInv, TypeOK, api
<1>2. BusIsPlain'
  BY StreamConstants DEF IInv, TypeOK, BusIsPlain, api
<1>3. PlaysAreAccounted'
  BY DEF IInv, PlaysAreAccounted, Accounted, api
<1> QED BY <1>1, <1>2, <1>3, ApiUnchanged DEF IInv

\* An envelope on the channel, or lost where nobody listens: the next play is
\* accounted for.
LEMMA PublishIInv ==
  ASSUME IInv, NEW e \in Plain, Publish(e),
         publisher' \in [announced : 0..Plays, replaying : BOOLEAN, replayed : 0..Plays,
                         count : 0..MaxPublished],
         publisher'.announced <= stored,
         \/ publisher'.announced = publisher.announced
         \/ publisher'.announced = publisher.announced + 1 /\ e = Play(publisher.announced + 1)
  PROVE  IInv'
<1>1. UNCHANGED <<stored, connections, tracked, fanout, handler, wire>> /\ UNCHANGED api
  BY DEF Publish, api
<1>2. /\ bus' \in [listening : BOOLEAN, channel : Seq(Envelope), unheard : SUBSET Envelope]
      /\ bus'.listening => bus'.unheard = {}
      /\ \A i \in DOMAIN bus'.channel : bus'.channel[i] \in Plain
      /\ bus.unheard \subseteq bus'.unheard
      /\ \A i \in DOMAIN bus.channel : i \in DOMAIN bus'.channel /\ bus'.channel[i] = bus.channel[i]
      /\ e \in bus'.unheard \/ \E i \in DOMAIN bus'.channel : bus'.channel[i] = e
  <2>1. /\ bus.channel \in Seq(Envelope) /\ bus.unheard \subseteq Envelope /\ e \in Envelope
        /\ \A i \in DOMAIN bus.channel : bus.channel[i] \in Plain
    BY DEF IInv, TypeOK, BusIsPlain, Plain
  <2>2. CASE bus.listening
    <3> DEFINE channel == Append(bus.channel, e)
    <3>1. bus' = [bus EXCEPT !.channel = channel]
      BY <2>2 DEF Publish
    <3>2. /\ channel \in Seq(Envelope)
          /\ \A i \in DOMAIN channel : channel[i] \in Plain
          /\ \A i \in DOMAIN bus.channel : i \in DOMAIN channel /\ channel[i] = bus.channel[i]
          /\ \E i \in DOMAIN channel : channel[i] = e
      <4>1. /\ Len(bus.channel) \in Nat
            /\ DOMAIN bus.channel = 1..Len(bus.channel)
            /\ DOMAIN channel = 1..(Len(bus.channel) + 1)
            /\ \A i \in 1..Len(bus.channel) : channel[i] = bus.channel[i]
            /\ channel[Len(bus.channel) + 1] = e
            /\ channel \in Seq(Envelope)
        BY <2>1
      <4> HIDE DEF channel
      <4>2. Len(bus.channel) + 1 \in DOMAIN channel
        BY <4>1
      <4>3. \A i \in 1..(Len(bus.channel) + 1) : i \in 1..Len(bus.channel) \/ i = Len(bus.channel) + 1
        BY <4>1
      <4>4. \A i \in DOMAIN channel : channel[i] \in Plain
        BY <2>1, <4>1, <4>3
      <4>5. \A i \in DOMAIN bus.channel : i \in DOMAIN channel /\ channel[i] = bus.channel[i]
        BY <4>1
      <4> QED BY <4>1, <4>2, <4>4, <4>5
    <3> HIDE DEF channel
    <3>3. /\ bus'.channel = channel /\ bus'.listening = bus.listening /\ bus'.unheard = bus.unheard
          /\ bus' \in [listening : BOOLEAN, channel : Seq(Envelope), unheard : SUBSET Envelope]
          /\ bus.listening => bus.unheard = {}
      BY <3>1, <3>2 DEF IInv, TypeOK, BusIsPlain
    <3> QED BY <2>1, <2>2, <3>2, <3>3
  <2>3. CASE ~bus.listening
    <3>1. /\ bus'.channel = bus.channel /\ bus'.listening = bus.listening
          /\ bus'.unheard = bus.unheard \cup {e}
          /\ bus' \in [listening : BOOLEAN, channel : Seq(Envelope), unheard : SUBSET Envelope]
      BY <2>1, <2>3 DEF Publish, IInv, TypeOK
    <3> QED BY <2>1, <2>3, <3>1
  <2> QED BY <2>2, <2>3
<1>3. TypeOK'
  BY <1>1, <1>2 DEF IInv, TypeOK
<1>4. BusIsPlain'
  BY <1>1, <1>2 DEF IInv, BusIsPlain
<1>5. PlaysAreAccounted'
  <2>1. \A s \in Sockets, n \in Nat : Accounted(s, n) => Accounted(s, n)'
    BY <1>1, <1>2 DEF Accounted
  <2>2. \A s \in Sockets, n \in Nat : e = Play(n) => Accounted(s, n)'
    BY <1>2 DEF Accounted
  <2> SUFFICES ASSUME NEW s \in Sockets, s \in connections \/ handler[s].pc = "read", wire[s].open,
                      NEW n \in (handler[s].after + 1)..publisher'.announced
               PROVE  Accounted(s, n)'
    BY <1>1 DEF PlaysAreAccounted
  <2>3. /\ handler[s].after \in -1..Plays /\ publisher.announced \in 0..Plays
        /\ publisher'.announced \in 0..Plays /\ Plays \in Nat
    BY StreamConstants DEF IInv, TypeOK, Handler
  <2>4. n \in Nat
    BY <2>3
  <2>5. n \in (handler[s].after + 1)..publisher.announced \/ e = Play(n)
    BY <2>3
  <2> QED BY <2>1, <2>2, <2>4, <2>5 DEF IInv, PlaysAreAccounted
<1> QED BY <1>1, <1>3, <1>4, <1>5, ApiUnchanged DEF IInv

\* A broadcast begins: who is registered will be sent it, and who has read its
\* backlog and is not has it in the backlog or misses it.
LEMMA BroadcastIInv ==
  ASSUME IInv, NEW e \in Plain, Broadcast(e), UNCHANGED <<stored, connections, tracked, wire>>,
         publisher' \in [announced : 0..Plays, replaying : BOOLEAN, replayed : 0..Plays,
                         count : 0..MaxPublished],
         publisher'.announced = publisher.announced,
         bus' \in [listening : BOOLEAN, channel : Seq(Envelope), unheard : SUBSET Envelope],
         bus'.unheard = bus.unheard, bus'.listening = bus.listening,
         \A i \in DOMAIN bus'.channel : bus'.channel[i] \in Plain,
         \A i \in DOMAIN bus.channel :
           bus.channel[i] = e \/ \E j \in DOMAIN bus'.channel : bus'.channel[j] = bus.channel[i]
  PROVE  IInv'
<1> DEFINE misses(s) == /\ e.type = "play" /\ handler[s].pc = "read"
                        /\ e.sequence > Max({handler[s].upto, handler[s].after})
<1>1. /\ ~fanout.busy
      /\ fanout' = [NoFanout EXCEPT !.busy = TRUE, !.envelope = e, !.waiting = connections]
  BY DEF Broadcast, Audience
<1>2. handler' = [s \in Sockets |->
                    IF misses(s) THEN [handler[s] EXCEPT !.missed = @ \cup {e.sequence}]
                    ELSE handler[s]]
  BY DEF Broadcast
<1>3. /\ e \in Envelope /\ e.sequence \in 0..Plays
      /\ handler \in [Sockets -> Handler]
  BY DEF Plain, Envelope, IInv, TypeOK
<1>4. \A s \in Sockets : misses(s) => e.type = "play" /\ handler[s].pc = "read"
  OBVIOUS
<1> HIDE DEF misses
<1>5. /\ handler' \in [Sockets -> Handler]
      /\ \A s \in Sockets :
           /\ handler'[s].pc = handler[s].pc /\ handler'[s].after = handler[s].after
           /\ handler'[s].next = handler[s].next /\ handler'[s].upto = handler[s].upto
           /\ handler[s].missed \subseteq handler'[s].missed
           /\ misses(s) => e.sequence \in handler'[s].missed
  <2>1. ASSUME NEW s \in Sockets
        PROVE  /\ handler'[s] \in Handler
               /\ handler'[s].pc = handler[s].pc /\ handler'[s].after = handler[s].after
               /\ handler'[s].next = handler[s].next /\ handler'[s].upto = handler[s].upto
               /\ handler[s].missed \subseteq handler'[s].missed
               /\ misses(s) => e.sequence \in handler'[s].missed
    <3> DEFINE missed == handler[s].missed \cup {e.sequence}
    <3>1. missed \subseteq 0..Plays /\ handler[s] \in Handler
      BY <1>3 DEF Handler
    <3>2. CASE misses(s)
      <4>1. handler'[s] = [handler[s] EXCEPT !.missed = missed]
        BY <1>2, <3>2
      <4>2. e.sequence \in missed /\ handler[s].missed \subseteq missed
        OBVIOUS
      <4> HIDE DEF missed
      <4> QED BY <3>1, <4>1, <4>2 DEF Handler
    <3>3. CASE ~misses(s)
      BY <1>2, <3>1, <3>3
    <3> QED BY <3>2, <3>3
  <2>2. handler' = [s \in Sockets |-> handler'[s]]
    BY <1>2
  <2> QED BY <2>1, <2>2
<1>6. /\ fanout'.busy /\ fanout'.envelope = e /\ fanout'.waiting = connections
      /\ fanout'.sending = NoSocket
      /\ fanout' \in [busy : BOOLEAN, envelope : Envelope, waiting : SUBSET Sockets,
                      sending : Sockets \cup {NoSocket}, stale : SUBSET Sockets]
  BY <1>1, <1>3 DEF NoFanout, IInv, TypeOK
<1>7. fanout.waiting = {} /\ fanout.sending = NoSocket /\ NoSocket \notin Sockets
  BY <1>1, StreamConstants DEF IInv, FanoutIsSound
<1>8. TypeOK'
  BY <1>5, <1>6 DEF IInv, TypeOK
<1>9. BusIsPlain'
  BY <1>6 DEF IInv, BusIsPlain
<1>10. FanoutIsSound'
  BY <1>5, <1>6, <1>7 DEF IInv, FanoutIsSound, SubscribersAreLive
<1>11. HandlersAreSound' /\ SubscribersAreLive'
  BY <1>5 DEF IInv, HandlersAreSound, SubscribersAreLive
<1>12. TrackedIsNoted'
  <2>1. \A s \in Sockets : Told(s)' = Told(s)
    BY DEF Told
  <2>2. connections' \subseteq Sockets /\ connections' = connections
    BY DEF IInv, TypeOK
  <2>3. \A s \in Sockets : fanout.sending # s
    BY <1>7
  <2>4. ASSUME NEW s \in connections', wire'[s].open
        PROVE  /\ tracked'[s] \in Told(s)'
               /\ \A n \in Told(s)' :
                    \/ n <= tracked'[s]
                    \/ handler'[s].pc = "sent" /\ n = handler'[s].next
    BY <1>5, <2>1, <2>2, <2>3, <2>4 DEF IInv, TrackedIsNoted
  <2> QED BY <2>4 DEF TrackedIsNoted
<1>13. PlaysAreAccounted'
  <2> SUFFICES ASSUME NEW s \in Sockets, s \in connections \/ handler[s].pc = "read", wire[s].open,
                      NEW n \in (handler[s].after + 1)..publisher.announced
               PROVE  Accounted(s, n)'
    BY <1>5 DEF PlaysAreAccounted
  <2>1. Accounted(s, n)
    BY DEF IInv, PlaysAreAccounted
  <2>2. CASE e # Play(n)
    BY <1>5, <1>7, <2>1, <2>2 DEF Accounted
  <2>3. CASE e = Play(n) /\ s \in connections
    BY <1>6, <2>3 DEF Accounted
  <2>4. CASE e = Play(n) /\ handler[s].pc = "read"
    <3>1. /\ e.type = "play" /\ e.sequence = n
          /\ handler[s].upto \in 0..Plays /\ handler[s].after \in -1..Plays
          /\ Plays \in Nat
          /\ handler[s].next = handler[s].after + 1
      BY <1>3, <2>4, StreamConstants DEF Play, Handler, IInv, HandlersAreSound
    <3>2. n \in Int /\ n > handler[s].after
      BY <1>3, <3>1
    <3>3. CASE n > handler[s].upto
      <4>1. Max({handler[s].upto, handler[s].after}) < n
            /\ Max({handler[s].upto, handler[s].after}) \in Int
        <5>1. handler[s].upto \in Int /\ handler[s].after \in Int
          BY <3>1
        <5> QED BY <3>2, <3>3, <5>1, MaxOfTwo
      <4>2. misses(s)
        BY <2>4, <3>1, <3>2, <4>1 DEF misses
      <4> QED BY <1>5, <3>1, <4>2 DEF Accounted
    <3>4. CASE ~(n > handler[s].upto)
      BY <1>5, <3>1, <3>2, <3>4 DEF Accounted
    <3> QED BY <3>3, <3>4
  <2> QED BY <2>2, <2>3, <2>4
<1> QED BY <1>8, <1>9, <1>10, <1>11, <1>12, <1>13 DEF IInv

\* A replay's envelope, over Redis or to the sockets at once.
LEMMA PublishReplayIInv ==
  ASSUME IInv, NEW e \in Plain, PublishReplay(e),
         publisher' \in [announced : 0..Plays, replaying : BOOLEAN, replayed : 0..Plays,
                         count : 0..MaxPublished],
         publisher'.announced = publisher.announced
  PROVE  IInv'
<1>1. publisher'.announced <= stored
  BY DEF IInv, BusIsPlain
<1>2. CASE bus.listening
  BY <1>1, <1>2, PublishIInv DEF PublishReplay
<1>3. CASE ~bus.listening
  <2>1. Broadcast(e) /\ UNCHANGED <<stored, connections, tracked, wire>> /\ bus' = bus
    BY <1>3 DEF PublishReplay
  <2>2. /\ bus' \in [listening : BOOLEAN, channel : Seq(Envelope), unheard : SUBSET Envelope]
        /\ bus'.unheard = bus.unheard /\ bus'.listening = bus.listening
        /\ \A i \in DOMAIN bus'.channel : bus'.channel[i] \in Plain
        /\ \A i \in DOMAIN bus.channel :
             bus.channel[i] = e \/ \E j \in DOMAIN bus'.channel : bus'.channel[j] = bus.channel[i]
    BY <2>1 DEF IInv, TypeOK, BusIsPlain
  <2> QED BY <2>1, <2>2, BroadcastIInv
<1> QED BY <1>2, <1>3

\* The publishers' envelopes are plays of the game and status frames.
LEMMA PublishersIInv ==
  ASSUME IInv, AnnouncePlay \/ StartReplay \/ ReplayPlay \/ CompleteReplay
  PROVE  IInv'
<1>1. /\ publisher \in [announced : 0..Plays, replaying : BOOLEAN, replayed : 0..Plays,
                        count : 0..MaxPublished]
      /\ stored \in 0..Plays /\ publisher.announced <= stored
      /\ Plays \in Nat /\ MaxPublished \in Nat
  BY StreamConstants DEF IInv, TypeOK, BusIsPlain
<1>2. \A n \in 0..Plays : Play(n) \in Plain /\ Status(n) \in Plain
  BY DEF Plain, Envelope, Play, Status
<1>3. CASE AnnouncePlay
  <2> DEFINE n == publisher.announced + 1
             c == publisher.count + 1
  <2>1. /\ Publish(Play(n)) /\ publisher' = [publisher EXCEPT !.announced = n, !.count = c]
        /\ publisher.announced < stored /\ publisher.count < MaxPublished
    BY <1>3 DEF AnnouncePlay, MayPublish
  <2>2. n \in 0..Plays /\ n <= stored /\ c \in 0..MaxPublished /\ Play(n) \in Plain
    BY <1>1, <1>2, <2>1
  <2>3. n = publisher.announced + 1
    OBVIOUS
  <2> HIDE DEF n, c
  <2>4. publisher' \in [announced : 0..Plays, replaying : BOOLEAN, replayed : 0..Plays,
                        count : 0..MaxPublished]
        /\ publisher'.announced = n
    BY <1>1, <2>1, <2>2
  <2>5. publisher'.announced = publisher.announced + 1 /\ publisher'.announced <= stored
        /\ Play(n) = Play(publisher.announced + 1)
    BY <2>2, <2>3, <2>4
  <2> QED BY <2>1, <2>2, <2>4, <2>5, PublishIInv
<1>4. ASSUME NEW e \in Plain, PublishReplay(e), publisher.count < MaxPublished,
             NEW replaying \in BOOLEAN, NEW replayed \in 0..Plays,
             publisher' = [publisher EXCEPT !.replaying = replaying, !.replayed = replayed,
                                            !.count = publisher.count + 1]
      PROVE  IInv'
  <2> DEFINE c == publisher.count + 1
  <2>1. c \in 0..MaxPublished
    BY <1>1, <1>4
  <2> HIDE DEF c
  <2>2. /\ publisher' \in [announced : 0..Plays, replaying : BOOLEAN, replayed : 0..Plays,
                           count : 0..MaxPublished]
        /\ publisher'.announced = publisher.announced
    BY <1>1, <1>4, <2>1 DEF c
  <2> QED BY <1>4, <2>2, PublishReplayIInv
<1>5. CASE StartReplay
  <2>1. PublishReplay(Status(0)) /\ publisher.count < MaxPublished
        /\ publisher' = [publisher EXCEPT !.replaying = TRUE, !.replayed = 0,
                                          !.count = publisher.count + 1]
    BY <1>5 DEF StartReplay, MayPublish
  <2>2. 0 \in 0..Plays /\ Status(0) \in Plain
    BY <1>1, <1>2
  <2> QED BY <1>4, <2>1, <2>2
<1>6. CASE ReplayPlay
  <2> DEFINE n == publisher.replayed + 1
  <2>1. PublishReplay(Play(n)) /\ publisher.count < MaxPublished
        /\ publisher' = [publisher EXCEPT !.replaying = publisher.replaying, !.replayed = n,
                                          !.count = publisher.count + 1]
    BY <1>1, <1>6 DEF ReplayPlay, MayPublish
  <2>2. n \in 0..Plays
    BY <1>1, <1>6 DEF ReplayPlay
  <2> HIDE DEF n
  <2> QED BY <1>1, <1>2, <1>4, <2>1, <2>2
<1>7. CASE CompleteReplay
  <2>1. PublishReplay(Status(publisher.replayed)) /\ publisher.count < MaxPublished
        /\ publisher' = [publisher EXCEPT !.replaying = FALSE, !.replayed = publisher.replayed,
                                          !.count = publisher.count + 1]
    BY <1>1, <1>7 DEF CompleteReplay, MayPublish
  <2> QED BY <1>1, <1>2, <1>4, <2>1
<1> QED BY <1>3, <1>5, <1>6, <1>7

\* What was on the channel is unheard now.
LEMMA ListenerFailsIInv ==
  ASSUME IInv, ListenerFails
  PROVE  IInv'
<1>1. /\ bus' = [listening |-> FALSE, channel |-> <<>>, unheard |-> ToSet(bus.channel)]
      /\ publisher' = [publisher EXCEPT !.replaying = FALSE]
      /\ UNCHANGED <<stored, connections, tracked, fanout, handler, wire>> /\ UNCHANGED api
      /\ bus.listening
  BY DEF ListenerFails, api
<1>2. /\ \A i \in DOMAIN bus.channel : bus.channel[i] \in bus'.unheard
      /\ bus'.unheard \subseteq Envelope
      /\ bus.unheard = {}
  BY <1>1 DEF IInv, TypeOK, BusIsPlain, ToSet
<1>3. publisher' \in [announced : 0..Plays, replaying : BOOLEAN, replayed : 0..Plays,
                      count : 0..MaxPublished]
      /\ publisher'.announced = publisher.announced
  BY <1>1 DEF IInv, TypeOK
<1>4. TypeOK'
  BY <1>1, <1>2, <1>3 DEF IInv, TypeOK
<1>5. BusIsPlain'
  BY <1>1, <1>3 DEF IInv, BusIsPlain
<1>6. PlaysAreAccounted'
  BY <1>1, <1>2, <1>3 DEF IInv, PlaysAreAccounted, Accounted
<1> QED BY <1>1, <1>4, <1>5, <1>6, ApiUnchanged DEF IInv

\* The broadcast takes the announced plays with it and the clients it will send to.
LEMMA BeginFanoutIInv ==
  ASSUME IInv, BeginFanout
  PROVE  IInv'
<1> DEFINE e == Head(bus.channel)
<1>1. /\ bus.channel # <<>> /\ bus' = [bus EXCEPT !.channel = Tail(bus.channel)]
      /\ Broadcast(e) /\ UNCHANGED <<stored, publisher, connections, tracked, wire>>
  BY DEF BeginFanout
<1>2. /\ bus.channel \in Seq(Envelope)
      /\ \A i \in DOMAIN bus.channel : bus.channel[i] \in Plain
      /\ bus \in [listening : BOOLEAN, channel : Seq(Envelope), unheard : SUBSET Envelope]
  BY DEF IInv, TypeOK, BusIsPlain
<1>3. /\ Len(bus.channel) \in Nat \ {0} /\ DOMAIN bus.channel = 1..Len(bus.channel)
      /\ DOMAIN Tail(bus.channel) = 1..(Len(bus.channel) - 1)
      /\ \A i \in 1..(Len(bus.channel) - 1) : Tail(bus.channel)[i] = bus.channel[i + 1]
      /\ Tail(bus.channel) \in Seq(Envelope)
      /\ e = bus.channel[1]
  BY <1>1, <1>2
<1>4. /\ bus' \in [listening : BOOLEAN, channel : Seq(Envelope), unheard : SUBSET Envelope]
      /\ bus'.unheard = bus.unheard /\ bus'.listening = bus.listening
      /\ bus'.channel = Tail(bus.channel)
  BY <1>1, <1>2, <1>3
<1>5. ASSUME NEW i \in DOMAIN bus'.channel PROVE bus'.channel[i] \in Plain
  <2>1. /\ i \in 1..(Len(bus.channel) - 1) /\ i + 1 \in DOMAIN bus.channel
        /\ bus'.channel[i] = bus.channel[i + 1]
    BY <1>3, <1>4
  <2> QED BY <1>2, <2>1
<1>6. ASSUME NEW i \in DOMAIN bus.channel
      PROVE  bus.channel[i] = e \/ \E j \in DOMAIN bus'.channel : bus'.channel[j] = bus.channel[i]
  <2>1. CASE i = 1
    BY <1>3, <2>1
  <2>2. CASE i # 1
    <3>1. i - 1 \in 1..(Len(bus.channel) - 1) /\ (i - 1) + 1 = i
      BY <1>3, <2>2
    <3>2. bus'.channel[i - 1] = bus.channel[i]
      BY <1>3, <1>4, <3>1
    <3> QED BY <1>3, <1>4, <3>1, <3>2
  <2> QED BY <2>1, <2>2
<1>7. /\ publisher' \in [announced : 0..Plays, replaying : BOOLEAN, replayed : 0..Plays,
                         count : 0..MaxPublished]
      /\ publisher'.announced = publisher.announced
      /\ e \in Plain
  BY <1>1, <1>2, <1>3 DEF IInv, TypeOK
<1> HIDE DEF e
<1> QED BY <1>1, <1>4, <1>5, <1>6, <1>7, BroadcastIInv

(***************************************************************************)
(* The broadcast                                                           *)
(***************************************************************************)

\* A frame that reaches a peer is on its wire before it is noted.
LEMMA FanoutSendIInv ==
  ASSUME IInv, NEW s \in Sockets, FanoutSend(s)
  PROVE  IInv'
<1>1. /\ fanout.busy /\ fanout.sending = NoSocket /\ s \in fanout.waiting
      /\ UNCHANGED <<stored, publisher, bus, connections, tracked, handler>>
  BY DEF FanoutSend
<1>2. /\ fanout \in [busy : BOOLEAN, envelope : Envelope, waiting : SUBSET Sockets,
                     sending : Sockets \cup {NoSocket}, stale : SUBSET Sockets]
      /\ wire \in [Sockets -> [open : BOOLEAN, sent : SUBSET Envelope]]
      /\ NoSocket \notin Sockets
  BY StreamConstants DEF IInv, TypeOK
<1> DEFINE waiting == fanout.waiting \ {s}
           stale == fanout.stale \cup {s}
           sent == wire[s].sent \cup {fanout.envelope}
<1>3. waiting \subseteq Sockets /\ stale \subseteq Sockets /\ sent \subseteq Envelope
  BY <1>2
<1>4. waiting \subseteq fanout.waiting /\ (\A t \in fanout.waiting : t # s => t \in waiting)
      /\ wire[s].sent \subseteq sent /\ fanout.envelope \in sent
  OBVIOUS
<1>5. \/ fanout' = [fanout EXCEPT !.waiting = waiting, !.sending = s]
      \/ fanout' = [fanout EXCEPT !.waiting = waiting, !.stale = stale] /\ ~wire[s].open
  BY DEF FanoutSend
<1>6. IF wire[s].open THEN wire' = [wire EXCEPT ![s].sent = sent] ELSE wire' = wire
  BY DEF FanoutSend, OnWire
<1>7. sent = wire[s].sent \cup {fanout.envelope}
  OBVIOUS
<1> HIDE DEF waiting, stale, sent
<1>8. /\ fanout' \in [busy : BOOLEAN, envelope : Envelope, waiting : SUBSET Sockets,
                      sending : Sockets \cup {NoSocket}, stale : SUBSET Sockets]
      /\ fanout'.busy = fanout.busy /\ fanout'.envelope = fanout.envelope
      /\ fanout'.waiting = waiting
      /\ fanout'.sending = s \/ (fanout'.sending = NoSocket /\ ~wire[s].open)
  <2>1. CASE fanout' = [fanout EXCEPT !.waiting = waiting, !.sending = s]
    BY <1>2, <1>3, <2>1
  <2>2. CASE ~wire[s].open /\ fanout' = [fanout EXCEPT !.waiting = waiting, !.stale = stale]
    BY <1>1, <1>2, <1>3, <2>2
  <2> QED BY <1>5, <2>1, <2>2
<1>9. /\ wire' \in [Sockets -> [open : BOOLEAN, sent : SUBSET Envelope]]
      /\ \A t \in Sockets : wire'[t].open = wire[t].open /\ (t # s => wire'[t].sent = wire[t].sent)
      /\ wire[s].open => wire'[s].sent = sent
      /\ ~wire[s].open => wire'[s].sent = wire[s].sent
  BY <1>2, <1>3, <1>6
<1>10. \A t \in Sockets : wire[t].sent \subseteq wire'[t].sent
  BY <1>4, <1>9
<1>11. handler[s].pc \in Serving \cup {"done"}
  BY <1>1, <1>2 DEF IInv, FanoutIsSound
<1>12. TypeOK' /\ BusIsPlain' /\ SubscribersAreLive'
  BY <1>1, <1>8, <1>9 DEF IInv, TypeOK, BusIsPlain, SubscribersAreLive
<1>13. FanoutIsSound'
  BY <1>1, <1>2, <1>4, <1>8, <1>9, <1>11 DEF IInv, FanoutIsSound
<1>14. HandlersAreSound'
  BY <1>1, <1>9, <1>10, <1>11 DEF IInv, HandlersAreSound, Serving
<1>15. TrackedIsNoted'
  <2>1. \A t \in Sockets : t # s => Told(t)' = Told(t)
    BY <1>9 DEF Told
  <2>2. wire[s].open => Told(s)' = Told(s) \cup {fanout.envelope.sequence}
    <3>1. fanout.envelope.type \in {"play", "status"}
      BY DEF IInv, BusIsPlain, Plain
    <3> QED BY <1>7, <1>9, <3>1, ToldAdd
  <2>3. connections \subseteq Sockets
    BY DEF IInv, TypeOK
  <2>4. ASSUME NEW t \in connections, wire'[t].open, t # s
        PROVE  /\ tracked'[t] \in Told(t)'
               /\ \A n \in Told(t)' :
                    n <= tracked'[t] \/ (handler'[t].pc = "sent" /\ n = handler'[t].next)
    <3>1. t \in Sockets /\ fanout.sending # t /\ wire[t].open
      BY <1>1, <1>2, <1>9, <2>3, <2>4
    <3> QED BY <1>1, <2>1, <2>4, <3>1 DEF IInv, TrackedIsNoted
  <2>5. ASSUME s \in connections, wire'[s].open
        PROVE  /\ tracked'[s] \in Told(s)'
               /\ \A n \in Told(s)' :
                    \/ n <= tracked'[s]
                    \/ handler'[s].pc = "sent" /\ n = handler'[s].next
                    \/ fanout'.sending = s /\ n = fanout'.envelope.sequence
    BY <1>1, <1>2, <1>8, <1>9, <2>2, <2>3, <2>5 DEF IInv, TrackedIsNoted
  <2> QED BY <1>1, <2>4, <2>5 DEF TrackedIsNoted
<1>16. PlaysAreAccounted'
  <2> SUFFICES ASSUME NEW t \in Sockets, t \in connections \/ handler[t].pc = "read", wire[t].open,
                      NEW n \in (handler[t].after + 1)..publisher.announced
               PROVE  Accounted(t, n)'
    BY <1>1, <1>9 DEF PlaysAreAccounted
  <2>1. Accounted(t, n)
    BY DEF IInv, PlaysAreAccounted
  <2>2. CASE t = s /\ fanout.envelope = Play(n)
    BY <1>4, <1>9, <2>2 DEF Accounted
  <2>3. CASE ~(t = s /\ fanout.envelope = Play(n))
    BY <1>1, <1>4, <1>8, <1>10, <2>1, <2>3 DEF Accounted
  <2> QED BY <2>2, <2>3
<1> QED BY <1>12, <1>13, <1>14, <1>15, <1>16 DEF IInv

\* The sender notes the sequence, or finds the peer gone.
LEMMA FanoutSentIInv ==
  ASSUME IInv, NEW s \in Sockets, FanoutSent(s)
  PROVE  IInv'
<1>1. /\ fanout.sending = s
      /\ UNCHANGED <<stored, publisher, bus, connections, handler, wire>>
  BY DEF FanoutSent
<1>2. /\ fanout \in [busy : BOOLEAN, envelope : Envelope, waiting : SUBSET Sockets,
                     sending : Sockets \cup {NoSocket}, stale : SUBSET Sockets]
      /\ tracked \in [Sockets -> (0..Plays) \cup {Nothing}]
      /\ NoSocket \notin Sockets /\ Plays \in Nat /\ Nothing \notin 0..Plays
      /\ connections \subseteq Sockets
  BY StreamConstants DEF IInv, TypeOK
<1> DEFINE stale == fanout.stale \cup {s}
           n == fanout.envelope.sequence
<1>3. stale \subseteq Sockets /\ n \in 0..Plays
  BY <1>2 DEF Envelope
<1>4. \/ fanout' = [fanout EXCEPT !.sending = NoSocket] /\ tracked' = Noted(s, n)
      \/ ~wire[s].open /\ fanout' = [fanout EXCEPT !.sending = NoSocket, !.stale = stale]
         /\ tracked' = tracked
  BY DEF FanoutSent
<1>5. n = fanout.envelope.sequence
  OBVIOUS
<1> HIDE DEF stale, n
<1>6. /\ fanout' \in [busy : BOOLEAN, envelope : Envelope, waiting : SUBSET Sockets,
                      sending : Sockets \cup {NoSocket}, stale : SUBSET Sockets]
      /\ fanout'.busy = fanout.busy /\ fanout'.envelope = fanout.envelope
      /\ fanout'.waiting = fanout.waiting /\ fanout'.sending = NoSocket
  BY <1>2, <1>3, <1>4
<1>7. /\ tracked' \in [Sockets -> (0..Plays) \cup {Nothing}]
      /\ \A t \in Sockets : /\ t # s => tracked'[t] = tracked[t]
                            /\ tracked'[t] = Nothing <=> tracked[t] = Nothing
      /\ wire[s].open /\ tracked[s] # Nothing =>
           /\ tracked[s] \in 0..Plays /\ tracked'[s] \in 0..Plays
           /\ tracked'[s] \in {tracked[s], n}
           /\ tracked'[s] >= tracked[s] /\ tracked'[s] >= n
  <2>1. CASE tracked' = tracked /\ ~wire[s].open
    BY <1>2, <2>1
  <2>2. CASE tracked' = Noted(s, n)
    BY <1>2, <1>3, <2>2, NotedIs
  <2> QED BY <1>4, <2>1, <2>2
<1>8. TypeOK' /\ BusIsPlain' /\ SubscribersAreLive'
  BY <1>1, <1>6, <1>7 DEF IInv, TypeOK, BusIsPlain, SubscribersAreLive
<1>9. FanoutIsSound' /\ HandlersAreSound'
  BY <1>1, <1>2, <1>6 DEF IInv, FanoutIsSound, HandlersAreSound
<1>10. TrackedIsNoted'
  <2>1. \A t \in Sockets : Told(t)' = Told(t) /\ Told(t) \subseteq Int
    <3>1. \A t \in Sockets : Told(t)' = Told(t)
      BY <1>1 DEF Told
    <3>2. \A t \in Sockets : Told(t) \subseteq Int
      BY StreamConstants DEF Told, Sequences, IInv, TypeOK, Envelope
    <3> QED BY <3>1, <3>2
  <2>2. ASSUME NEW t \in connections, wire'[t].open, t # s
        PROVE  /\ tracked'[t] \in Told(t)'
               /\ \A k \in Told(t)' :
                    k <= tracked'[t] \/ (handler'[t].pc = "sent" /\ k = handler'[t].next)
    <3>1. /\ t \in Sockets /\ fanout.sending # t /\ wire[t].open
          /\ tracked'[t] = tracked[t]
      BY <1>1, <1>2, <1>7, <2>2
    <3> QED BY <1>1, <2>1, <2>2, <3>1 DEF IInv, TrackedIsNoted
  <2>3. ASSUME s \in connections, wire'[s].open
        PROVE  /\ tracked'[s] \in Told(s)'
               /\ \A k \in Told(s)' :
                    k <= tracked'[s] \/ (handler'[s].pc = "sent" /\ k = handler'[s].next)
    <3>1. tracked[s] # Nothing
      BY <2>3 DEF IInv, SubscribersAreLive
    <3>2. n \in Told(s)
      BY <1>1, <1>5, <2>3 DEF IInv, FanoutIsSound, BusIsPlain, Plain, Told, Sequences
    <3>3. tracked[s] \in Told(s)
          /\ \A k \in Told(s) : \/ k <= tracked[s]
                                \/ handler[s].pc = "sent" /\ k = handler[s].next
                                \/ k = n
      BY <1>1, <1>5, <2>3 DEF IInv, TrackedIsNoted
    <3>4. \A k \in Told(s) : k \in Int
      BY <2>1
    <3>5. \A k \in Int : k <= tracked[s] \/ k = n => k <= tracked'[s]
      BY <1>1, <1>2, <1>3, <1>7, <2>3, <3>1
    <3> QED BY <1>1, <1>7, <2>1, <2>3, <3>1, <3>2, <3>3, <3>4, <3>5
  <2> QED BY <1>1, <2>2, <2>3 DEF TrackedIsNoted
<1>11. PlaysAreAccounted'
  BY <1>1, <1>6 DEF IInv, PlaysAreAccounted, Accounted
<1> QED BY <1>8, <1>9, <1>10, <1>11 DEF IInv

\* The end of a socket's registration.
LEMMA Unregistered ==
  ASSUME IInv, NEW gone, Unregister(gone)
  PROVE  /\ connections' = connections \ gone /\ connections' \subseteq Sockets
         /\ tracked' \in [Sockets -> (0..Plays) \cup {Nothing}]
         /\ \A s \in Sockets : tracked'[s] = IF s \in gone THEN Nothing ELSE tracked[s]
  BY DEF Unregister, IInv, TypeOK

\* The sockets that raised are dropped.
LEMMA EndFanoutIInv ==
  ASSUME IInv, EndFanout
  PROVE  IInv'
<1>1. /\ fanout.waiting = {} /\ fanout.sending = NoSocket /\ NoSocket \notin Sockets
      /\ fanout' = NoFanout /\ Unregister(fanout.stale)
      /\ UNCHANGED <<stored, publisher, bus, handler, wire>>
  BY StreamConstants DEF EndFanout
<1>2. /\ Status(0) \in Plain
      /\ fanout'.waiting = {} /\ fanout'.sending = NoSocket /\ fanout'.envelope = Status(0)
      /\ fanout' \in [busy : BOOLEAN, envelope : Envelope, waiting : SUBSET Sockets,
                      sending : Sockets \cup {NoSocket}, stale : SUBSET Sockets]
  BY <1>1, StreamConstants DEF NoFanout, Plain, Envelope, Status
<1>3. TypeOK' /\ BusIsPlain'
  BY <1>1, <1>2, Unregistered DEF IInv, TypeOK, BusIsPlain
<1>4. FanoutIsSound' /\ HandlersAreSound'
  BY <1>1, <1>2 DEF IInv, FanoutIsSound, HandlersAreSound
<1>5. SubscribersAreLive'
  BY <1>1, Unregistered DEF IInv, SubscribersAreLive
<1>6. TrackedIsNoted'
  <2>1. \A s \in Sockets : Told(s)' = Told(s)
    BY <1>1 DEF Told
  <2>2. \A s \in connections' : s \in Sockets /\ s \in connections /\ tracked'[s] = tracked[s]
    BY <1>1, Unregistered
  <2> QED BY <1>1, <2>1, <2>2 DEF IInv, TrackedIsNoted
<1>7. PlaysAreAccounted'
  BY <1>1, <1>2, Unregistered DEF IInv, PlaysAreAccounted, Accounted
<1> QED BY <1>3, <1>4, <1>5, <1>6, <1>7 DEF IInv

(***************************************************************************)
(* One socket's handler and its peer                                       *)
(***************************************************************************)

Wire == [open : BOOLEAN, sent : SUBSET Envelope]

\* Nothing happens but to one socket, and what is left of it is sound.
LEMMA SocketChange ==
  ASSUME IInv, NEW s \in Sockets, UNCHANGED <<stored, publisher, bus, fanout>>,
         handler' \in [Sockets -> Handler], wire' \in [Sockets -> Wire],
         tracked' \in [Sockets -> (0..Plays) \cup {Nothing}], connections' \subseteq Sockets,
         \A t \in Sockets : t # s =>
           /\ handler'[t] = handler[t] /\ wire'[t] = wire[t] /\ tracked'[t] = tracked[t]
           /\ t \in connections' <=> t \in connections,
         s \in fanout.waiting \/ fanout.sending = s => handler'[s].pc \in Serving \cup {"done"},
         fanout.sending = s /\ wire'[s].open => fanout.envelope \in wire'[s].sent,
         handler'[s].pc \in {"unused", "read"} => wire'[s].sent = {},
         handler'[s].pc = "read" =>
           handler'[s].after >= 0 /\ handler'[s].next = handler'[s].after + 1,
         handler'[s].pc = "sent" =>
           /\ handler'[s].next <= handler'[s].upto
           /\ wire'[s].open => Play(handler'[s].next) \in wire'[s].sent,
         s \in connections' <=> tracked'[s] # Nothing,
         s \in connections' => handler'[s].pc \in Serving,
         s \in connections' /\ wire'[s].open =>
           /\ tracked'[s] \in Told(s)'
           /\ \A n \in Told(s)' :
                \/ n <= tracked'[s]
                \/ handler'[s].pc = "sent" /\ n = handler'[s].next
                \/ fanout.sending = s /\ n = fanout.envelope.sequence,
         (s \in connections' \/ handler'[s].pc = "read") /\ wire'[s].open =>
           \A n \in (handler'[s].after + 1)..publisher.announced : Accounted(s, n)'
  PROVE  IInv'
<1>1. TypeOK' /\ BusIsPlain'
  BY DEF IInv, TypeOK, BusIsPlain, Wire
<1>2. FanoutIsSound'
  BY DEF IInv, FanoutIsSound
<1>3. HandlersAreSound'
  BY DEF IInv, HandlersAreSound
<1>4. SubscribersAreLive'
  BY DEF IInv, SubscribersAreLive
<1>5. TrackedIsNoted'
  <2>1. ASSUME NEW t \in connections', t # s, wire'[t].open
        PROVE  /\ tracked'[t] \in Told(t)'
               /\ \A n \in Told(t)' :
                    \/ n <= tracked'[t]
                    \/ handler'[t].pc = "sent" /\ n = handler'[t].next
                    \/ fanout.sending = t /\ n = fanout.envelope.sequence
    <3>1. /\ t \in connections /\ wire[t].open /\ handler'[t] = handler[t]
          /\ tracked'[t] = tracked[t] /\ wire'[t] = wire[t]
      BY <2>1
    <3>2. Told(t)' = Told(t)
      BY <3>1 DEF Told
    <3> QED BY <3>1, <3>2 DEF IInv, TrackedIsNoted
  <2> QED BY <2>1 DEF TrackedIsNoted
<1>6. PlaysAreAccounted'
  <2>1. ASSUME NEW t \in Sockets, t # s, t \in connections' \/ handler'[t].pc = "read", wire'[t].open,
               NEW n \in (handler'[t].after + 1)..publisher.announced
        PROVE  Accounted(t, n)'
    <3>1. /\ t \in connections \/ handler[t].pc = "read"
          /\ wire[t].open /\ handler'[t] = handler[t] /\ wire'[t] = wire[t]
      BY <2>1
    <3>2. Accounted(t, n)
      BY <2>1, <3>1 DEF IInv, PlaysAreAccounted
    <3> QED BY <3>1, <3>2 DEF Accounted
  <2> QED BY <2>1 DEF PlaysAreAccounted
<1> QED BY <1>1, <1>2, <1>3, <1>4, <1>5, <1>6 DEF IInv

\* The types of one socket's state.
LEMMA SocketTypes ==
  ASSUME IInv, NEW s \in Sockets
  PROVE  /\ handler \in [Sockets -> Handler] /\ handler[s] \in Handler
         /\ wire \in [Sockets -> Wire] /\ wire[s] \in Wire
         /\ tracked \in [Sockets -> (0..Plays) \cup {Nothing}]
         /\ connections \subseteq Sockets
         /\ stored \in 0..Plays /\ publisher.announced \in 0..Plays /\ publisher.announced <= stored
         /\ Plays \in Nat /\ MaxBeats \in Nat /\ Nothing \notin 0..Plays
  BY StreamConstants DEF IInv, TypeOK, BusIsPlain, Wire

\* The backlog holds every play that was announced after the one named.
LEMMA ReadBacklogIInv ==
  ASSUME IInv, NEW s \in Sockets, NEW after \in 0..stored, ReadBacklog(s, after)
  PROVE  IInv'
<1>1. after \in 0..Plays /\ after + 1 \in 0..(Plays + 1) /\ after \in Nat
  BY SocketTypes
<1>2. Max({after, 0}) = after
  BY <1>1, MaxOfTwo
<1> DEFINE H == [NoHandler EXCEPT !.pc = "read", !.after = after, !.upto = stored,
                                  !.next = after + 1]
           W == [wire[s] EXCEPT !.open = TRUE]
<1>3. /\ handler[s].pc = "unused"
      /\ handler' = [handler EXCEPT ![s] = H] /\ wire' = [wire EXCEPT ![s] = W]
      /\ UNCHANGED <<stored, publisher, bus, connections, tracked, fanout>>
  BY <1>2 DEF ReadBacklog
<1>4. /\ H \in Handler /\ H.pc = "read" /\ H.after = after /\ H.next = after + 1 /\ H.upto = stored
      /\ W \in Wire /\ W.sent = {}
  <2>1. H \in Handler /\ H.pc = "read" /\ H.after = after /\ H.next = after + 1 /\ H.upto = stored
    <3>1. NoHandler \in Handler
      BY SocketTypes DEF NoHandler, Handler
    <3>2. after \in -1..Plays /\ stored \in 0..Plays
      BY <1>1, SocketTypes
    <3> QED BY <1>1, <3>1, <3>2 DEF Handler
  <2>2. wire[s].sent = {} /\ wire[s] \in Wire
    BY <1>3, SocketTypes DEF IInv, HandlersAreSound
  <2>3. W \in Wire /\ W.sent = {}
    BY <2>2 DEF Wire
  <2> QED BY <2>1, <2>3
<1> HIDE DEF H, W
<1>5. /\ handler' \in [Sockets -> Handler] /\ wire' \in [Sockets -> Wire]
      /\ handler'[s] = H /\ wire'[s] = W
      /\ tracked' = tracked /\ connections' = connections
      /\ \A t \in Sockets : t # s => handler'[t] = handler[t] /\ wire'[t] = wire[t]
  BY <1>3, <1>4, SocketTypes
<1>6. /\ s \notin connections /\ tracked[s] = Nothing
      /\ s \notin fanout.waiting /\ fanout.sending # s
  BY <1>3 DEF IInv, SubscribersAreLive, FanoutIsSound, Serving
<1>7. \A n \in (H.after + 1)..publisher.announced : Accounted(s, n)'
  BY <1>1, <1>4, <1>5, SocketTypes DEF Accounted
<1> QED BY <1>1, <1>3, <1>4, <1>5, <1>6, <1>7, SocketTypes, SocketChange

\* The window closes: from here on the socket is in every audience.
LEMMA RegisterIInv ==
  ASSUME IInv, NEW s \in Sockets, Register(s)
  PROVE  IInv'
<1>1. /\ handler[s].pc = "read" /\ wire[s].open
      /\ connections' = connections \cup {s} /\ tracked' = [tracked EXCEPT ![s] = 0]
      /\ handler' = [handler EXCEPT ![s].pc = "sending"]
      /\ UNCHANGED <<stored, publisher, bus, fanout, wire>>
  BY DEF Register
<1>2. /\ handler' \in [Sockets -> Handler] /\ wire' \in [Sockets -> Wire]
      /\ tracked' \in [Sockets -> (0..Plays) \cup {Nothing}] /\ connections' \subseteq Sockets
      /\ handler'[s].pc = "sending" /\ tracked'[s] = 0 /\ wire'[s] = wire[s]
      /\ handler'[s].after = handler[s].after /\ handler'[s].next = handler[s].next
      /\ handler'[s].upto = handler[s].upto /\ handler'[s].missed = handler[s].missed
      /\ s \in connections' /\ 0 # Nothing
      /\ \A t \in Sockets : t # s =>
           /\ handler'[t] = handler[t] /\ wire'[t] = wire[t] /\ tracked'[t] = tracked[t]
           /\ t \in connections' <=> t \in connections
  BY <1>1, SocketTypes DEF Handler
<1>3. s \notin fanout.waiting /\ fanout.sending # s
  BY <1>1 DEF IInv, FanoutIsSound, Serving
<1>4. Told(s)' = {0}
  BY <1>1 DEF IInv, HandlersAreSound, Told, Sequences
<1>5. \A n \in (handler'[s].after + 1)..publisher.announced : Accounted(s, n)'
  <2>1. \A n \in (handler[s].after + 1)..publisher.announced : Accounted(s, n)
    BY <1>1 DEF IInv, PlaysAreAccounted
  <2> QED BY <1>1, <1>2, <2>1 DEF Accounted
<1>6. "sending" \in Serving
  BY DEF Serving
<1> QED BY <1>1, <1>2, <1>3, <1>4, <1>5, <1>6, SocketChange

\* The next play of the backlog is on the wire, and not noted yet.
LEMMA SendBacklogIInv ==
  ASSUME IInv, NEW s \in Sockets, SendBacklog(s)
  PROVE  IInv'
<1> DEFINE e == Play(handler[s].next)
           sent == wire[s].sent \cup {e}
<1>1. /\ handler[s].pc = "sending" /\ handler[s].next <= handler[s].upto /\ wire[s].open
      /\ wire' = [wire EXCEPT ![s].sent = sent]
      /\ handler' = [handler EXCEPT ![s].pc = "sent"]
      /\ UNCHANGED <<stored, publisher, bus, connections, tracked, fanout>>
  BY DEF SendBacklog, OnWire
<1>2. e \in Envelope /\ e.type = "play" /\ e.sequence = handler[s].next
  BY <1>1, SocketTypes DEF Envelope, Play, Handler
<1>3. sent \subseteq Envelope /\ e \in sent /\ wire[s].sent \subseteq sent
  BY <1>2, SocketTypes DEF Wire
<1>4. sent = wire[s].sent \cup {e} /\ e = Play(handler[s].next)
  OBVIOUS
<1> HIDE DEF sent, e
<1>5. /\ handler' \in [Sockets -> Handler] /\ wire' \in [Sockets -> Wire]
      /\ handler'[s].pc = "sent" /\ wire'[s].open /\ wire'[s].sent = sent
      /\ handler'[s].after = handler[s].after /\ handler'[s].next = handler[s].next
      /\ handler'[s].upto = handler[s].upto /\ handler'[s].missed = handler[s].missed
      /\ tracked' = tracked /\ connections' = connections
      /\ \A t \in Sockets : t # s => handler'[t] = handler[t] /\ wire'[t] = wire[t]
  <2>1. handler \in [Sockets -> Handler] /\ wire \in [Sockets -> Wire]
    BY SocketTypes
  <2>2. /\ handler' \in [Sockets -> Handler] /\ handler'[s].pc = "sent"
        /\ handler'[s].after = handler[s].after /\ handler'[s].next = handler[s].next
        /\ handler'[s].upto = handler[s].upto /\ handler'[s].missed = handler[s].missed
        /\ \A t \in Sockets : t # s => handler'[t] = handler[t]
    BY <1>1, <2>1 DEF Handler
  <2>3. /\ wire' \in [Sockets -> Wire] /\ wire'[s].open /\ wire'[s].sent = sent
        /\ \A t \in Sockets : t # s => wire'[t] = wire[t]
    BY <1>1, <1>3, <2>1 DEF Wire
  <2> QED BY <1>1, <2>2, <2>3
<1>6. /\ s \in fanout.waiting \/ fanout.sending = s => handler'[s].pc \in Serving \cup {"done"}
      /\ fanout.sending = s => fanout.envelope \in wire'[s].sent
      /\ s \in connections <=> tracked[s] # Nothing
      /\ "sent" \in Serving
  BY <1>1, <1>3, <1>5 DEF IInv, FanoutIsSound, SubscribersAreLive, Serving
<1>7. s \in connections =>
        /\ tracked[s] \in Told(s)'
        /\ \A n \in Told(s)' :
             \/ n <= tracked[s]
             \/ n = handler[s].next
             \/ fanout.sending = s /\ n = fanout.envelope.sequence
  <2>1. Told(s)' = Told(s) \cup {handler[s].next}
    BY <1>2, <1>4, <1>5, ToldAdd
  <2> QED BY <1>1, <2>1 DEF IInv, TrackedIsNoted
<1>8. s \in connections =>
        \A n \in (handler'[s].after + 1)..publisher.announced : Accounted(s, n)'
  <2>1. s \in connections =>
          \A n \in (handler[s].after + 1)..publisher.announced : Accounted(s, n)
    BY <1>1 DEF IInv, PlaysAreAccounted
  <2> QED BY <1>1, <1>3, <1>5, <2>1 DEF Accounted
<1>9. Play(handler'[s].next) \in wire'[s].sent
  BY <1>3, <1>4, <1>5
<1> QED BY <1>1, <1>5, <1>6, <1>7, <1>8, <1>9, SocketTypes, SocketChange

\* The handler notes what it sent and goes on.
LEMMA BacklogSentIInv ==
  ASSUME IInv, NEW s \in Sockets, BacklogSent(s)
  PROVE  IInv'
<1> DEFINE k == handler[s].next
           next == k + 1
<1>1. /\ handler[s].pc = "sent" /\ tracked' = Noted(s, k)
      /\ handler' = [handler EXCEPT ![s].pc = "sending", ![s].next = next]
      /\ UNCHANGED <<stored, publisher, bus, connections, fanout, wire>>
  BY DEF BacklogSent
<1>2. /\ k \in 0..Plays /\ next \in 0..(Plays + 1)
      /\ wire[s].open => Play(k) \in wire[s].sent
  BY <1>1, SocketTypes DEF IInv, HandlersAreSound, Handler
<1>3. k = handler[s].next /\ next = k + 1
  OBVIOUS
<1> HIDE DEF k, next
<1>4. /\ handler' \in [Sockets -> Handler] /\ handler'[s].pc = "sending" /\ handler'[s].next = next
      /\ handler'[s].after = handler[s].after /\ handler'[s].upto = handler[s].upto
      /\ handler'[s].missed = handler[s].missed
      /\ \A t \in Sockets : t # s => handler'[t] = handler[t]
  <2>1. handler \in [Sockets -> Handler]
    BY SocketTypes
  <2> QED BY <1>1, <1>2, <2>1 DEF Handler
<1>5. /\ tracked' \in [Sockets -> (0..Plays) \cup {Nothing}]
      /\ \A t \in Sockets : t # s => tracked'[t] = tracked[t]
      /\ tracked'[s] = Nothing <=> tracked[s] = Nothing
      /\ tracked[s] # Nothing =>
           /\ tracked[s] \in 0..Plays /\ tracked'[s] \in 0..Plays
           /\ tracked'[s] \in {tracked[s], k}
           /\ tracked'[s] >= tracked[s] /\ tracked'[s] >= k
  BY <1>1, <1>2, SocketTypes, NotedIs
<1>6. /\ s \in fanout.waiting \/ fanout.sending = s => handler'[s].pc \in Serving \cup {"done"}
      /\ fanout.sending = s /\ wire[s].open => fanout.envelope \in wire[s].sent
      /\ s \in connections <=> tracked[s] # Nothing
      /\ "sending" \in Serving
  BY <1>1, <1>4 DEF IInv, FanoutIsSound, SubscribersAreLive, Serving
<1>7. s \in connections /\ wire[s].open =>
        /\ tracked'[s] \in Told(s)'
        /\ \A n \in Told(s)' :
             n <= tracked'[s] \/ (fanout.sending = s /\ n = fanout.envelope.sequence)
  <2> SUFFICES ASSUME s \in connections, wire[s].open
               PROVE  /\ tracked'[s] \in Told(s)'
                      /\ \A n \in Told(s)' :
                           n <= tracked'[s] \/ (fanout.sending = s /\ n = fanout.envelope.sequence)
    OBVIOUS
  <2>1. Told(s)' = Told(s)
    BY <1>1 DEF Told
  <2>2. k \in Told(s) /\ \A n \in Told(s) : n \in Int
    <3>1. k \in Told(s)
      BY <1>2 DEF Told, Sequences, Play
    <3>2. \A n \in Told(s) : n \in Int
      <4>1. \A e \in wire[s].sent : e.sequence \in Int
        BY SocketTypes DEF Wire, Envelope
      <4> QED BY <4>1 DEF Told, Sequences
    <3> QED BY <3>1, <3>2
  <2>3. /\ tracked[s] \in Told(s)
        /\ \A n \in Told(s) : \/ n <= tracked[s]
                              \/ n = k
                              \/ fanout.sending = s /\ n = fanout.envelope.sequence
    BY <1>3 DEF IInv, TrackedIsNoted
  <2>4. \A n \in Int : n <= tracked[s] \/ n = k => n <= tracked'[s]
    BY <1>2, <1>5, <1>6
  <2> QED BY <1>5, <1>6, <2>1, <2>2, <2>3, <2>4
<1>8. s \in connections /\ wire[s].open =>
        \A n \in (handler'[s].after + 1)..publisher.announced : Accounted(s, n)'
  <2> SUFFICES ASSUME s \in connections, wire[s].open,
                      NEW n \in (handler[s].after + 1)..publisher.announced
               PROVE  Accounted(s, n)'
    BY <1>4
  <2>1. Accounted(s, n)
    BY DEF IInv, PlaysAreAccounted
  <2>2. n \in k..handler[s].upto => n = k \/ n \in next..handler[s].upto
    BY <1>2, <1>3, SocketTypes DEF Handler
  <2> QED BY <1>1, <1>2, <1>3, <1>4, <2>1, <2>2 DEF Accounted
<1> QED BY <1>1, <1>4, <1>5, <1>6, <1>7, <1>8, SocketTypes, SocketChange

\* A step of the handler that neither notes a sequence nor touches the window.
LEMMA HandlerMovesOn ==
  ASSUME IInv, NEW s \in Sockets, handler[s].pc \in Serving \ {"sent"},
         handler' \in [Sockets -> Handler], handler'[s].pc \in Serving \ {"sent"},
         handler'[s].after = handler[s].after, handler'[s].next = handler[s].next,
         handler'[s].upto = handler[s].upto, handler'[s].missed = handler[s].missed,
         wire' \in [Sockets -> Wire],
         \A t \in Sockets : t # s => handler'[t] = handler[t] /\ wire'[t] = wire[t],
         wire'[s].open = wire[s].open,
         \/ wire'[s].sent = wire[s].sent
         \/ \E n \in 0..Plays : wire'[s].sent = wire[s].sent \cup {Beat(n)},
         UNCHANGED <<stored, publisher, bus, connections, tracked, fanout>>
  PROVE  IInv'
<1>1. wire[s].sent \subseteq wire'[s].sent
  OBVIOUS
<1>2. Told(s)' = Told(s)
  <2>1. CASE wire'[s].sent = wire[s].sent
    BY <2>1 DEF Told
  <2>2. ASSUME NEW n \in 0..Plays, wire'[s].sent = wire[s].sent \cup {Beat(n)}
        PROVE  Told(s)' = Told(s)
    <3>1. Beat(n).type \notin {"play", "status"}
      BY DEF Beat
    <3> QED BY <2>2, <3>1, ToldAdd
  <2> QED BY <2>1, <2>2
<1>3. /\ fanout.sending = s /\ wire[s].open => fanout.envelope \in wire'[s].sent
      /\ s \in connections <=> tracked[s] # Nothing
      /\ handler'[s].pc # "read" /\ handler'[s].pc # "unused"
  BY <1>1 DEF IInv, FanoutIsSound, SubscribersAreLive, Serving
<1>4. s \in connections /\ wire[s].open =>
        /\ tracked[s] \in Told(s)
        /\ \A n \in Told(s) :
             n <= tracked[s] \/ (fanout.sending = s /\ n = fanout.envelope.sequence)
  BY DEF IInv, TrackedIsNoted
<1>5. s \in connections /\ wire[s].open =>
        \A n \in (handler'[s].after + 1)..publisher.announced : Accounted(s, n)'
  <2>1. s \in connections /\ wire[s].open =>
          \A n \in (handler[s].after + 1)..publisher.announced : Accounted(s, n)
    BY DEF IInv, PlaysAreAccounted
  <2> QED BY <1>1, <2>1 DEF Accounted
<1> QED BY <1>2, <1>3, <1>4, <1>5, SocketTypes, SocketChange

\* The subscription of the process comes up, or is lost with what it had not read.
LEMMA ListenIInv ==
  ASSUME IInv, NEW s \in Sockets, Listen(s)
  PROVE  IInv'
<1> DEFINE last == Max({handler[s].upto, handler[s].after, 0})
<1>1. last \in 0..Plays
  <2>1. /\ handler[s].upto \in 0..Plays /\ handler[s].after \in -1..Plays /\ Plays \in Nat
        /\ handler[s].upto \in Int /\ handler[s].after \in Int
    BY SocketTypes DEF Handler
  <2> HIDE DEF last
  <2>2. last \in {handler[s].upto, handler[s].after, 0} /\ last >= 0
    BY <2>1, MaxOfThree DEF last
  <2> QED BY <2>1, <2>2
<1> HIDE DEF last
<1>2. /\ handler[s].pc = "sending"
      /\ handler' = [handler EXCEPT ![s].pc = "listening", ![s].last = last]
      /\ UNCHANGED <<stored, publisher, bus, connections, tracked, fanout, wire>>
  BY DEF Listen, last
<1>3. handler[s] \in Handler /\ handler \in [Sockets -> Handler] /\ handler[s].beats \in 0..MaxBeats
      /\ wire' \in [Sockets -> Wire]
  BY <1>2, SocketTypes DEF Handler
<1>4. /\ handler' \in [Sockets -> Handler] /\ handler'[s].pc = "listening"
      /\ handler'[s].after = handler[s].after /\ handler'[s].next = handler[s].next
      /\ handler'[s].upto = handler[s].upto /\ handler'[s].missed = handler[s].missed
      /\ \A t \in Sockets : t # s => handler'[t] = handler[t]
  BY <1>1, <1>2, <1>3 DEF Handler
<1>5. "listening" \in Serving \ {"sent"} /\ "sending" \in Serving \ {"sent"}
  BY DEF Serving
<1> QED BY <1>1, <1>2, <1>3, <1>4, <1>5, HandlerMovesOn

\* A heartbeat starts over the clients that are connected.
LEMMA HeartbeatIInv ==
  ASSUME IInv, NEW s \in Sockets, Heartbeat(s)
  PROVE  IInv'
<1> DEFINE last == IF tracked[s] = Nothing THEN handler[s].last ELSE tracked[s]
           beats == handler[s].beats + 1
           sent == wire[s].sent \cup {Beat(last)}
<1>1. /\ handler[s].pc = "listening" /\ handler[s].beats < MaxBeats
      /\ wire' = [wire EXCEPT ![s].sent = sent]
      /\ handler' = [handler EXCEPT ![s].pc = "beating", ![s].last = last, ![s].beats = beats]
      /\ UNCHANGED <<stored, publisher, bus, connections, tracked, fanout>>
  BY DEF Heartbeat, OnWire
<1>2. /\ handler[s] \in Handler /\ handler \in [Sockets -> Handler]
      /\ wire[s] \in Wire /\ wire \in [Sockets -> Wire]
      /\ last \in 0..Plays
  BY SocketTypes DEF Handler
<1>3. beats \in 0..MaxBeats
  BY <1>1, <1>2, SocketTypes DEF Handler
<1> HIDE DEF last, beats
<1>4. sent \subseteq Envelope
  BY <1>2 DEF Wire, Beat, Envelope
<1>5. sent = wire[s].sent \cup {Beat(last)}
  OBVIOUS
<1> HIDE DEF sent
<1>6. /\ wire' \in [Sockets -> Wire] /\ wire'[s].open = wire[s].open /\ wire'[s].sent = sent
      /\ \A t \in Sockets : t # s => wire'[t] = wire[t]
  BY <1>1, <1>2, <1>4 DEF Wire
<1>7. /\ handler' \in [Sockets -> Handler] /\ handler'[s].pc = "beating"
      /\ handler'[s].after = handler[s].after /\ handler'[s].next = handler[s].next
      /\ handler'[s].upto = handler[s].upto /\ handler'[s].missed = handler[s].missed
      /\ \A t \in Sockets : t # s => handler'[t] = handler[t]
  BY <1>1, <1>2, <1>3 DEF Handler
<1>8. "beating" \in Serving \ {"sent"} /\ "listening" \in Serving \ {"sent"}
  BY DEF Serving
<1>9. \E n \in 0..Plays : wire'[s].sent = wire[s].sent \cup {Beat(n)}
  BY <1>2, <1>5, <1>6
<1>10. /\ handler[s].pc \in Serving \ {"sent"}
       /\ UNCHANGED <<stored, publisher, bus, connections, tracked, fanout>>
  BY <1>1, <1>8
<1> QED BY <1>6, <1>7, <1>8, <1>9, <1>10, HandlerMovesOn

\* A heartbeat reaches one client, or finds it gone.
LEMMA HeartbeatSentIInv ==
  ASSUME IInv, NEW s \in Sockets, HeartbeatSent(s)
  PROVE  IInv'
<1>1. /\ handler[s].pc = "beating" /\ handler' = [handler EXCEPT ![s].pc = "listening"]
      /\ UNCHANGED <<stored, publisher, bus, connections, tracked, fanout, wire>>
  BY DEF HeartbeatSent
<1>2. /\ handler[s] \in Handler /\ handler \in [Sockets -> Handler]
      /\ handler[s].beats \in 0..MaxBeats /\ handler[s].last \in 0..Plays
      /\ wire' \in [Sockets -> Wire]
  BY <1>1, SocketTypes DEF Handler
<1>3. /\ handler' \in [Sockets -> Handler] /\ handler'[s].pc = "listening"
      /\ handler'[s].after = handler[s].after /\ handler'[s].next = handler[s].next
      /\ handler'[s].upto = handler[s].upto /\ handler'[s].missed = handler[s].missed
      /\ \A t \in Sockets : t # s => handler'[t] = handler[t]
  BY <1>1, <1>2 DEF Handler
<1>4. "listening" \in Serving \ {"sent"} /\ "beating" \in Serving \ {"sent"}
  BY DEF Serving
<1> QED BY <1>1, <1>2, <1>3, <1>4, HandlerMovesOn

\* With the peer gone nothing is promised to it.
LEMMA PeerClosesIInv ==
  ASSUME IInv, NEW s \in Sockets, PeerCloses(s)
  PROVE  IInv'
<1>1. /\ wire' = [wire EXCEPT ![s] = NoPeer] /\ NoPeer \in Wire
      /\ ~NoPeer.open /\ NoPeer.sent = {}
      /\ UNCHANGED <<stored, publisher, bus, connections, tracked, fanout, handler>>
  BY DEF PeerCloses, NoPeer, Wire
<1>2. /\ wire' \in [Sockets -> Wire] /\ wire'[s] = NoPeer
      /\ \A t \in Sockets : t # s => wire'[t] = wire[t]
  BY <1>1, SocketTypes
<1>3. /\ s \in fanout.waiting \/ fanout.sending = s => handler[s].pc \in Serving \cup {"done"}
      /\ handler[s].pc = "read" => handler[s].after >= 0 /\ handler[s].next = handler[s].after + 1
      /\ handler[s].pc = "sent" => handler[s].next <= handler[s].upto
      /\ s \in connections <=> tracked[s] # Nothing
      /\ s \in connections => handler[s].pc \in Serving
  BY DEF IInv, FanoutIsSound, HandlersAreSound, SubscribersAreLive
<1> QED BY <1>1, <1>2, <1>3, SocketTypes, SocketChange

\* The handler of a closed connection ends.
LEMMA EndHandlerIInv ==
  ASSUME IInv, NEW s \in Sockets, EndHandler(s)
  PROVE  IInv'
<1> DEFINE H == [NoHandler EXCEPT !.pc = "done"]
<1>1. /\ ~wire[s].open /\ handler' = [handler EXCEPT ![s] = H] /\ Unregister({s})
      /\ UNCHANGED <<stored, publisher, bus, fanout, wire>>
  BY DEF EndHandler
<1>2. H \in Handler /\ H.pc = "done"
  BY SocketTypes DEF NoHandler, Handler
<1> HIDE DEF H
<1>3. /\ handler' \in [Sockets -> Handler] /\ handler'[s].pc = "done"
      /\ \A t \in Sockets : t # s => handler'[t] = handler[t]
  BY <1>1, <1>2, SocketTypes
<1>4. /\ connections' \subseteq Sockets /\ s \notin connections' /\ tracked'[s] = Nothing
      /\ tracked' \in [Sockets -> (0..Plays) \cup {Nothing}]
      /\ \A t \in Sockets : t # s => /\ tracked'[t] = tracked[t]
                                     /\ t \in connections' <=> t \in connections
  BY <1>1, Unregistered
<1> QED BY <1>1, <1>3, <1>4, SocketTypes, SocketChange

(***************************************************************************)
(* The theorems                                                            *)
(***************************************************************************)

\* Every step keeps the invariant.
LEMMA NextIInv == IInv /\ [Next]_vars => IInv'
<1> SUFFICES ASSUME IInv, [Next]_vars PROVE IInv'
  OBVIOUS
<1>1. CASE Publishing
  BY <1>1, CommitPlayIInv, PublishersIInv, ListenerFailsIInv DEF Publishing
<1>2. CASE BeginFanout \/ EndFanout
  BY <1>2, BeginFanoutIInv, EndFanoutIInv
<1>3. ASSUME NEW s \in Sockets, FanoutSend(s) \/ FanoutSent(s)
      PROVE  IInv'
  BY <1>3, FanoutSendIInv, FanoutSentIInv
<1>4. ASSUME NEW s \in Sockets,
             \/ Register(s) \/ SendBacklog(s) \/ BacklogSent(s) \/ Listen(s)
             \/ HeartbeatSent(s) \/ EndHandler(s)
      PROVE  IInv'
  BY <1>4, RegisterIInv, SendBacklogIInv, BacklogSentIInv, ListenIInv, HeartbeatSentIInv,
     EndHandlerIInv
<1>5. ASSUME NEW s \in Sockets, NEW after \in 0..stored, ReadBacklog(s, after)
      PROVE  IInv'
  BY <1>5, ReadBacklogIInv
<1>6. ASSUME NEW s \in Sockets, Heartbeat(s) \/ PeerCloses(s)
      PROVE  IInv'
  BY <1>6, HeartbeatIInv, PeerClosesIInv
<1>7. CASE UNCHANGED vars
  <2>1. TypeOK' /\ BusIsPlain' /\ UNCHANGED api
    BY <1>7 DEF vars, api, IInv, TypeOK, BusIsPlain
  <2>2. PlaysAreAccounted'
    BY <1>7 DEF vars, IInv, PlaysAreAccounted, Accounted
  <2> QED BY <2>1, <2>2, ApiUnchanged DEF IInv
<1> QED BY <1>1, <1>2, <1>3, <1>4, <1>5, <1>6, <1>7 DEF Next, LoopStep

\* The inductive invariant holds.
LEMMA Invariance == Spec => []IInv
BY InitIInv, NextIInv, PTL DEF Spec

\* Type correctness.
THEOREM TypeCorrect == Spec => []TypeOK
<1>1. IInv => TypeOK
  BY DEF IInv
<1> QED BY <1>1, Invariance, PTL

\* disconnect and the end of a broadcast: a socket is registered, and its
\* sequence is kept, only while its handler runs.
THEOREM SubscribersAreLiveHolds == Spec => []SubscribersAreLive
<1>1. IInv => SubscribersAreLive
  BY DEF IInv
<1> QED BY <1>1, Invariance, PTL

\* note_sequence: with two tasks that send on a socket, the tracked sequence
\* is the highest sent once both have noted what they sent.
THEOREM TrackedIsHighestSentHolds == Spec => []TrackedIsHighestSent
<1>1. ASSUME IInv, NEW s \in connections, wire[s].open
      PROVE  /\ tracked[s] \in Told(s)
             /\ handler[s].pc # "sent" /\ fanout.sending # s => tracked[s] = Max(Told(s))
  <2>1. tracked[s] \in Told(s)
    BY <1>1 DEF IInv, TrackedIsNoted
  <2>2. ASSUME handler[s].pc # "sent", fanout.sending # s
        PROVE  tracked[s] = Max(Told(s))
    <3>1. \A n \in Told(s) : n <= tracked[s]
      BY <1>1, <2>2 DEF IInv, TrackedIsNoted
    <3>2. Told(s) \in SUBSET Int
      <4>1. \A e \in wire[s].sent : e.sequence \in Int
        BY <1>1, SocketTypes DEF IInv, TypeOK, Wire, Envelope
      <4> QED BY <4>1 DEF Told, Sequences
    <3> QED BY <2>1, <3>1, <3>2, MaxIs
  <2> QED BY <2>1, <2>2
<1>2. IInv => TrackedIsHighestSent
  BY <1>1 DEF TrackedIsHighestSent, Told
<1> QED BY <1>2, Invariance, PTL

\* websocket_game and broadcast: a registered client misses a play only in the
\* window before its registration, or if the process does not hear it.
THEOREM OnlyTheWindowIsLostHolds == Spec => []OnlyTheWindowIsLost
<1>1. ASSUME IInv, NEW s \in connections, wire[s].open,
             NEW n \in (handler[s].after + 1)..publisher.announced
      PROVE  \/ n \in Sequences(wire[s].sent, {"play"})
             \/ n \in handler[s].next..handler[s].upto
             \/ Play(n) \in ToSet(bus.channel)
             \/ s \in fanout.waiting /\ fanout.envelope = Play(n)
             \/ n \in handler[s].missed
             \/ Play(n) \in bus.unheard
  <2>1. Accounted(s, n)
    BY <1>1 DEF IInv, TypeOK, PlaysAreAccounted
  <2>2. Play(n) \in wire[s].sent => n \in Sequences(wire[s].sent, {"play"})
    BY DEF Sequences, Play
  <2>3. \A i \in DOMAIN bus.channel : bus.channel[i] \in ToSet(bus.channel)
    BY DEF ToSet
  <2> QED BY <2>1, <2>2, <2>3 DEF Accounted
<1>2. IInv => OnlyTheWindowIsLost
  BY <1>1 DEF OnlyTheWindowIsLost
<1> QED BY <1>2, Invariance, PTL

=============================================================================
