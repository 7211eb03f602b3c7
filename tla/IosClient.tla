----------------------------- MODULE IosClient -----------------------------
(***************************************************************************)
(* GameDetailModel (GameDetailModel.swift) over GameStream for one game:   *)
(* load, the connect and polling loops, and the shot quality of the        *)
(* selected point.  Everything runs on the main actor: a step ends where   *)
(* the code awaits.                                                        *)
(***************************************************************************)
EXTENDS LiveFeed

CONSTANTS
  Shots,                    \* plays with coordinates and a shot value
  MaxIosReconnectAttempts,
  MaxAppearances            \* bound: times the view appears

ASSUME IosConstants ==
  /\ Shots \subseteq 1..Plays
  /\ MaxIosReconnectAttempts \in Nat /\ MaxAppearances \in Nat

VARIABLES
  ios,      \* the timeline and where load, connect and pollSnapshots are
  quality,  \* the selected point and the state of its shot quality
  tasks,    \* shot-quality requests that have not returned
  iosLost   \* history: missing plays whose loss is explained

iosVars == <<ios, quality, tasks, iosLost>>

\* Sequence 0 stands for nil.
NoQuality == [selected |-> 0, asked |-> 0, shown |-> 0, state |-> "unavailable"]

IosInit ==
  /\ ios = [pc |-> "hidden", timeline |-> {}, resume |-> 0, attempt |-> 0, appearances |-> 0]
  /\ quality = NoQuality
  /\ tasks = {}
  /\ iosLost = {}

(***************************************************************************)
(* Selection and shot quality                                              *)
(***************************************************************************)

\* shotQualityTask?.cancel()
Cancelled == {[t EXCEPT !.cancelled = TRUE] : t \in tasks}

\* Mutant of Remembered: asked for is as good as loaded.
AskedBefore(n) == quality.asked = n

\* The shown result is this point's already.
Remembered(n) == quality.asked = n /\ quality.state = "loaded"

\* select and loadShotQualityIfNeeded
Select(n) ==
  IF n \notin Shots
  THEN /\ quality' = [NoQuality EXCEPT !.selected = n]
       /\ tasks' = Cancelled
  ELSE IF Remembered(n)
  THEN /\ quality' = [quality EXCEPT !.selected = n]
       /\ UNCHANGED tasks
  ELSE /\ quality' = [selected |-> n, asked |-> n, shown |-> 0, state |-> "loading"]
       /\ tasks' = Cancelled \cup {[point |-> n, cancelled |-> FALSE]}

\* Mutant of MayApply: whichever answer comes is shown.
AnyAnswer(t) == TRUE

\* The task was not cancelled and its point is still the selected one.
MayApply(t) == ~t.cancelled /\ quality.selected = t.point

\* A request returns with a result, none, or an error.
ShotQualityReturns(t) ==
  /\ t \in tasks
  /\ tasks' = tasks \ {t}
  /\ IF MayApply(t)
     THEN \E state \in {"loaded", "unavailable", "failed"} :
            quality' = [quality EXCEPT !.state = state,
                                       !.shown = IF state = "loaded" THEN t.point ELSE 0]
     ELSE UNCHANGED quality
  /\ UNCHANGED <<feedVars, ios, iosLost>>

\* The user picks a point of the timeline.
Tap(n) ==
  /\ n \in ios.timeline
  /\ Select(n)
  /\ UNCHANGED <<feedVars, ios, iosLost>>

(***************************************************************************)
(* load, connect and pollSnapshots                                         *)
(***************************************************************************)

\* apply: plays 1..n are shown and the last one is selected.
Apply(n) == IF n = 0 THEN quality' = NoQuality /\ tasks' = Cancelled ELSE Select(n)

\* The view appears; load returns with a snapshot and goes on to connect, or
\* it fails and polls.
Load ==
  /\ ios.pc = "hidden"
  /\ ios.appearances < MaxAppearances
  /\ \/ /\ Apply(stored)
        /\ ios' = [ios EXCEPT !.pc = "connecting", !.timeline = 1..stored, !.resume = stored,
                              !.attempt = 0, !.appearances = @ + 1]
        /\ iosLost' = {}
     \/ /\ ios' = [ios EXCEPT !.pc = "polling", !.appearances = @ + 1]
        /\ UNCHANGED <<quality, tasks, iosLost>>
  /\ UNCHANGED feedVars

IosConnect ==
  /\ ios.pc = "connecting"
  /\ Connect(ios.resume)
  /\ ios' = [ios EXCEPT !.pc = "streaming"]
  /\ iosLost' = iosLost \cap 1..ios.resume
  /\ UNCHANGED <<quality, tasks>>

IosRegister == Register /\ UNCHANGED iosVars

\* Mutant of Merge: a play takes the place of all later ones.
Truncate(n) == {s \in ios.timeline : s < n} \cup {n}

\* A play takes the place of the one with its sequence.
Merge(n) == ios.timeline \cup {n}

\* An envelope; only one with a play goes on to the timeline.
IosReceive(f) ==
  /\ IF f.type = "play"
     THEN /\ ios' = [ios EXCEPT !.attempt = 0, !.timeline = Merge(f.sequence),
                                !.resume = IF @ < f.sequence THEN f.sequence ELSE @]
          /\ Select(f.sequence)
     ELSE /\ ios' = [ios EXCEPT !.attempt = 0]
          /\ UNCHANGED <<quality, tasks>>
  /\ iosLost' = iosLost \ ios'.timeline

\* "plays" go by unheard.
IosMisses(plays) ==
  /\ iosLost' = iosLost \cup (PassedBy(plays) \ ios.timeline)
  /\ UNCHANGED <<ios, quality, tasks>>

\* The stream ends; after too many in a row without a message it polls.
IosCloses ==
  /\ Drop
  /\ ios' = [ios EXCEPT !.attempt = @ + 1,
                        !.pc = IF ios.attempt >= MaxIosReconnectAttempts THEN "polling"
                               ELSE "connecting"]
  /\ iosLost' = iosLost \cup (((1..ios.resume) \cap ToCome) \ ios.timeline)
  /\ UNCHANGED <<quality, tasks>>

\* A snapshot while polling; a failed one changes nothing that is shown.
PollSnapshot ==
  /\ ios.pc = "polling"
  /\ Apply(stored)
  /\ ios' = [ios EXCEPT !.timeline = 1..stored]
  /\ iosLost' = {}
  /\ UNCHANGED feedVars

\* The view goes: its task is cancelled, then disconnect (which is through
\* before the view can appear again).
Disappear ==
  /\ ios.pc # "hidden"
  /\ ios' = [ios EXCEPT !.pc = "hidden"]
  /\ tasks' = Cancelled
  /\ connection' = NoConnection(connection.drops)
  /\ UNCHANGED <<stored, unpublished, commands, replay, quality, iosLost>>

\* Some viewer starts a replay.
ViewerStarts == AcceptReplay /\ UNCHANGED iosVars

IosNext ==
  \/ \E f \in Frame :
       \/ Broadcast(f) /\ (IF connection.pc = "open" THEN IosReceive(f) ELSE IosMisses(Carried(f)))
       \/ LoseFrame(f) /\ IosMisses(Carried(f))
       \/ SendBacklog(f) /\ IosReceive(f)
       \/ Heartbeat(f) /\ IosReceive(f)
  \/ (CommitPlay \/ ClaimReplay \/ DiscardReplay \/ InterruptReplay \/ AcknowledgeReplay)
     /\ UNCHANGED iosVars
  \/ FailReplay /\ IosMisses(Coming("api"))
  \/ Load \/ IosConnect \/ IosRegister \/ IosCloses \/ PollSnapshot \/ Disappear
  \/ ViewerStarts
  \/ \E t \in tasks : ShotQualityReturns(t)
  \/ \E n \in 1..Plays : Tap(n)

(***************************************************************************)
(* Properties                                                              *)
(***************************************************************************)

IosTypeOK ==
  /\ ios \in [pc : {"hidden", "connecting", "streaming", "polling"},
              timeline : SUBSET (1..Plays), resume : 0..Plays,
              attempt : 0..(MaxIosReconnectAttempts + 1), appearances : 0..MaxAppearances]
  /\ quality \in [selected : 0..Plays, asked : 0..Plays, shown : 0..Plays,
                  state : {"unavailable", "loading", "loaded", "failed"}]
  /\ tasks \subseteq [point : 1..Plays, cancelled : BOOLEAN]
  /\ iosLost \subseteq 1..Plays

\* The same as WebHolesAreKnown.  Replays start nothing over here, so a play is
\* missing below the resume point only if its publication was lost or came in
\* the window of the API, if a later frame overtook it and the stream was then
\* cut off, or if the API's own replay failed before it.
IosHolesAreKnown ==
  ios.pc \in {"connecting", "streaming"} => NoUnknownHole(ios.timeline, ios.resume, iosLost)

\* The quality that is shown is the selected point's, whichever requests
\* return after the selection moved on and came back.
QualityIsOfSelection ==
  quality.shown # 0 => quality.shown = quality.selected /\ quality.state = "loaded"

\* While the view follows the game and says "loading", a request that may answer
\* is under way: no cancellation or reappearance leaves it waiting for nothing.
\* (If the view reappears and load fails, "loading" stays until a poll succeeds.)
LoadingIsUnderWay ==
  ios.pc \in {"connecting", "streaming"} /\ quality.state = "loading" =>
    [point |-> quality.selected, cancelled |-> FALSE] \in tasks
=============================================================================
