---------------------------- MODULE ReplayJobs ----------------------------
(***************************************************************************)
(* What the replay queue promises to whoever asks for a replay, without    *)
(* Redis, lists, locks or processes (README.md, "Processes").              *)
(*                                                                         *)
(*   - an accepted command stays pending until every frame of one run of   *)
(*     its game has been delivered, however often the run is interrupted;  *)
(*   - a run that was interrupted starts again before any other begins;    *)
(*   - at most one pending command of a game is exclusive: a second one is *)
(*     accepted only after the first one's lock has lapsed;                *)
(*   - the only command ever dropped is one whose tick is out of range.    *)
(***************************************************************************)
EXTENDS Integers

CONSTANTS Commands,          \* records with a field "game"
          FrameCount,        \* [Commands -> Nat]: the frames of a full run
          ValidCommands,     \* the commands the worker accepts
          NoCommand

VARIABLES pending,     \* accepted and not yet completed
          exclusive,   \* the pending commands whose lock has not lapsed
          current,     \* the command being replayed, or NoCommand
          delivered    \* frames of the current run delivered so far

vars == <<pending, exclusive, current, delivered>>

Init ==
  /\ pending = {}
  /\ exclusive = {}
  /\ current = NoCommand
  /\ delivered = 0

\* A command is accepted, either exclusively or (its lock lapsed before it
\* was queued) not.
Accept(c) ==
  /\ c \notin pending
  /\ pending' = pending \cup {c}
  /\ \/ /\ \A d \in exclusive : d.game # c.game
        /\ exclusive' = exclusive \cup {c}
     \/ UNCHANGED exclusive
  /\ UNCHANGED <<current, delivered>>

Lapse(c) ==
  /\ c \in exclusive
  /\ exclusive' = exclusive \ {c}
  /\ UNCHANGED <<pending, current, delivered>>

Begin(c) ==
  /\ current = NoCommand
  /\ c \in pending
  /\ current' = c
  /\ delivered' = 0
  /\ UNCHANGED <<pending, exclusive>>

Deliver ==
  /\ current # NoCommand
  /\ delivered < FrameCount[current]
  /\ delivered' = delivered + 1
  /\ UNCHANGED <<pending, exclusive, current>>

\* The run is lost; the command stays current and starts from frame one.
Interrupt ==
  /\ current # NoCommand
  /\ delivered' = 0
  /\ UNCHANGED <<pending, exclusive, current>>

Leave ==
  /\ pending' = pending \ {current}
  /\ exclusive' = exclusive \ {current}
  /\ current' = NoCommand
  /\ delivered' = 0

Complete ==
  /\ current # NoCommand
  /\ delivered = FrameCount[current]
  /\ Leave

Drop ==
  /\ current # NoCommand
  /\ current \notin ValidCommands
  /\ Leave

Next ==
  \/ \E c \in Commands : Accept(c) \/ Lapse(c) \/ Begin(c)
  \/ Deliver
  \/ Interrupt
  \/ Complete
  \/ Drop

Spec == Init /\ [][Next]_vars
=============================================================================
