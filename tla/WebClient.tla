----------------------------- MODULE WebClient -----------------------------
(***************************************************************************)
(* useLiveGame (use-live-game.ts) for one game: the snapshot, socket and   *)
(* polling effects and startReplay.  JavaScript runs one callback at a     *)
(* time; React applies what it set before the next one.                    *)
(***************************************************************************)
EXTENDS LiveFeed

CONSTANTS
  FixturePlays,          \* sequences 1..FixturePlays of fallbackSnapshot
  MaxReconnectAttempts

ASSUME WebConstants == FixturePlays \in 0..Plays /\ MaxReconnectAttempts \in Nat

VARIABLES
  web,     \* the hook's state and refs
  start,   \* the startReplay call under way, with what it closed over
  webLost  \* history: missing plays whose loss is explained

webVars == <<web, start, webLost>>

NoStart == [pc |-> "idle", snapshot |-> 0, dropped |-> FALSE]

WebInit ==
  /\ web = [mode |-> "loading", snapshot |-> 0, timeline |-> {}, seen |-> -1,
            replaying |-> FALSE, attempt |-> 0, timer |-> FALSE, unfinished |-> FALSE]
  /\ start = NoStart
  /\ webLost = {}

\* fetchLiveSnapshot of the snapshot effect; the fixture if it fails.  The
\* socket effect connects as soon as there is a snapshot.
LoadSnapshot ==
  /\ web.mode = "loading"
  /\ \E n \in {stored, FixturePlays} :
       web' = [web EXCEPT !.mode = "connecting", !.snapshot = n, !.timeline = 1..n,
                          !.seen = n, !.timer = TRUE]
  /\ UNCHANGED <<feedVars, start, webLost>>

\* connect, at once or when the reconnect timer fires.
WebConnect ==
  /\ web.timer
  /\ Connect(web.seen)
  /\ web' = [web EXCEPT !.mode = "connecting", !.timer = FALSE]
  /\ webLost' = webLost \cap 1..web.seen
  /\ UNCHANGED start

WebOpens ==
  /\ web.mode = "connecting"
  /\ Register
  /\ web' = [web EXCEPT !.mode = "connected"]
  /\ UNCHANGED <<start, webLost>>

\* replay_started
Rewound(w) == [w EXCEPT !.seen = 0, !.timeline = {}, !.replaying = TRUE, !.unfinished = FALSE]

\* Mutant of Finished: replay_completed is one more status frame.
NotFinished(w) == w

\* replay_completed
Finished(w) == [w EXCEPT !.replaying = FALSE]

\* play_added, play_corrected
Merged(w, n) ==
  [w EXCEPT !.seen = IF @ < n THEN n ELSE @, !.timeline = @ \cup {n}]

\* onmessage
WebReceive(f) ==
  LET heard == [web EXCEPT !.attempt = 0]
  IN /\ web' = CASE f.type = "replay_started" -> Rewound(heard)
                 [] f.type = "replay_completed" -> Finished(heard)
                 [] f.type = "play" -> Merged(heard, f.sequence)
                 [] OTHER -> heard
     /\ webLost' = IF f = Started
                   THEN (webLost \cup web.timeline) \ ToCome'
                   ELSE webLost \ web'.timeline
     /\ UNCHANGED start

\* "plays" go by unheard, and so may the end of a replay.
WebMisses(plays, end) ==
  /\ web' = [web EXCEPT !.unfinished = @ \/ end]
  /\ webLost' = webLost \cup (PassedBy(plays) \ web.timeline)
  /\ UNCHANGED start

\* A frame that this page does not receive.
WebMissesFrame(f) == WebMisses(Carried(f), f.type = "replay_completed")

\* A replay that ends without a replay_completed.
WebMissesEnd ==
  \/ DiscardReplay /\ WebMisses({}, TRUE)
  \/ FailReplay /\ WebMisses(Coming("api"), TRUE)

\* Mutant of AfterClose: the socket is tried again while polling.
RetriesForEver(w) ==
  [w EXCEPT !.attempt = @ + 1, !.timer = TRUE,
            !.mode = IF w.attempt >= MaxReconnectAttempts THEN "polling" ELSE "connecting"]

\* onclose
AfterClose(w) ==
  IF w.attempt >= MaxReconnectAttempts
  THEN [w EXCEPT !.attempt = @ + 1, !.mode = "polling"]
  ELSE [w EXCEPT !.attempt = @ + 1, !.mode = "connecting", !.timer = TRUE]

WebCloses ==
  /\ Drop
  /\ web' = AfterClose(web)
  /\ webLost' = webLost \cup (((1..web.seen) \cap ToCome) \ web.timeline)
  /\ UNCHANGED start

\* One round of the polling effect; a failed one changes nothing.  The effect
\* drops the answer to a request made before isReplaying changed.
Poll ==
  /\ web.mode = "polling"
  /\ web' = [web EXCEPT !.snapshot = stored, !.seen = stored,
                        !.timeline = IF web.replaying THEN @ ELSE 1..stored]
  /\ webLost' = {}
  /\ UNCHANGED <<feedVars, start>>

\* startReplay; the button is disabled while isReplaying.
ClickReplay ==
  /\ web.mode # "loading"
  /\ ~web.replaying
  /\ start.pc = "idle"
  /\ start' = [NoStart EXCEPT !.pc = "asking", !.snapshot = web.snapshot]
  /\ web' = [web EXCEPT !.replaying = TRUE, !.unfinished = FALSE]
  /\ UNCHANGED <<feedVars, webLost>>

\* The request reaches the API; the answer is "started".
StartAccepted ==
  /\ start.pc = "asking"
  /\ AcceptReplay
  /\ start' = [start EXCEPT !.pc = "accepted"]
  /\ UNCHANGED <<web, webLost>>

\* The answer arrives.
StartReturns ==
  /\ start.pc = "accepted"
  /\ start' = NoStart
  /\ UNCHANGED <<feedVars, web, webLost>>

\* "already_running", an error, or the answer is lost.
StartFails ==
  /\ start.pc \in {"asking", "accepted"}
  /\ start' = [NoStart EXCEPT !.dropped = ~(web.timeline \subseteq 1..start.snapshot)]
  /\ web' = [web EXCEPT !.replaying = FALSE, !.timeline = 1..start.snapshot]
  /\ webLost' = (webLost \cup 1..web.seen) \ 1..start.snapshot
  /\ UNCHANGED feedVars

\* Another viewer starts a replay.
OtherViewerStarts == AcceptReplay /\ UNCHANGED webVars

WebNext ==
  \/ \E f \in Frame :
       \/ Broadcast(f) /\ (IF connection.pc = "open" THEN WebReceive(f) ELSE WebMissesFrame(f))
       \/ LoseFrame(f) /\ WebMissesFrame(f)
       \/ SendBacklog(f) /\ WebReceive(f)
       \/ Heartbeat(f) /\ WebReceive(f)
  \/ (CommitPlay \/ ClaimReplay \/ InterruptReplay \/ AcknowledgeReplay) /\ UNCHANGED webVars
  \/ WebMissesEnd
  \/ LoadSnapshot \/ WebConnect \/ WebOpens \/ WebCloses \/ Poll
  \/ ClickReplay \/ StartAccepted \/ StartReturns \/ StartFails \/ OtherViewerStarts

(***************************************************************************)
(* Properties                                                              *)
(***************************************************************************)

WebTypeOK ==
  /\ web \in [mode : {"loading", "connecting", "connected", "polling"},
              snapshot : 0..Plays, timeline : SUBSET (1..Plays), seen : -1..Plays,
              replaying : BOOLEAN, attempt : 0..(MaxReconnectAttempts + 1),
              timer : BOOLEAN, unfinished : BOOLEAN]
  /\ start \in [pc : {"idle", "asking", "accepted"}, snapshot : 0..Plays, dropped : BOOLEAN]
  /\ webLost \subseteq 1..Plays

\* Reconnecting after the last sequence seen gives the plays that are not in
\* the timeline.  One can be missing below that sequence only for one of these:
\* its publication was lost, or came in the window between the API's read of
\* the backlog and its registration; a later frame overtook it and the
\* connection was then cut off; it came between a replay's read and its
\* replay_started; the API's own replay failed before it; or a refused start
\* put an older timeline back.
WebHolesAreKnown ==
  web.mode \in {"connecting", "connected"} => NoUnknownHole(web.timeline, web.seen, webLost)

\* The page shows a replay only while one is asked for, queued or running, or
\* because one ended and the page did not hear it: its replay_completed passed
\* the page by, its command was discarded, or the API's own run failed.
ReplayingIsKnown ==
  web.replaying => start.pc # "idle" \/ UnderWay \/ web.unfinished

\* The page polls or holds a socket, never both: a retry that is still due
\* would set the sequence a poll has moved.
PollsOrListens ==
  web.mode = "polling" => connection.pc = "closed" /\ ~web.timer

\* HANDOFF.md:77-78: "failed replay starts restore the last valid timeline":
\* no play that the page shows is gone from it once the start has failed.
RefusedStartKeepsTimeline == ~start.dropped
=============================================================================
