-------------------------- MODULE ReplayCoordinator --------------------------
(***************************************************************************)
(* ReplayCoordinator.start (replay.py) behind start_replay, in an API      *)
(* process without Redis: one asyncio task per replay, found by game in    *)
(* _tasks.  A step ends where the code awaits, or where the loop turns to  *)
(* another callback.                                                       *)
(***************************************************************************)
EXTENDS EventBus, Integers

CONSTANTS
  Games,
  Requests,       \* bound: start_replay requests at one time
  MaxReplayTasks  \* bound: replay tasks

ASSUME CoordinatorConstants == Games # {} /\ MaxReplayTasks \in Nat

VARIABLES
  starts,     \* start_replay requests that are under way
  replays,    \* the replay tasks, by number
  registered  \* _tasks; 0 is a missing entry

coordinatorVars == <<starts, replays, registered>>

TaskId == 1..MaxReplayTasks
NoStartRequest == [pc |-> "none", game |-> CHOOSE g \in Games : TRUE]
Unused == [pc |-> "unused", game |-> CHOOSE g \in Games : TRUE]

CoordinatorInit ==
  /\ starts = [r \in Requests |-> NoStartRequest]
  /\ replays = [t \in TaskId |-> Unused]
  /\ registered = [g \in Games |-> 0]

\* start_replay: without a Redis client it goes to the coordinator.
Request(r, g) ==
  /\ starts[r].pc = "none"
  /\ ~redis
  /\ starts' = [starts EXCEPT ![r] = [pc |-> "waiting", game |-> g]]
  /\ UNCHANGED <<busVars, replays, registered>>

LockIsFree == \A r \in Requests : starts[r].pc # "reading"

\* is_running
IsRunning(g) == registered[g] # 0 /\ replays[registered[g]].pc = "running"

\* _start_lock is acquired; a running replay is the answer already_running.
Acquire(r) ==
  /\ starts[r].pc = "waiting"
  /\ LockIsFree
  /\ starts' = IF IsRunning(starts[r].game) THEN [starts EXCEPT ![r] = NoStartRequest]
               ELSE [starts EXCEPT ![r].pc = "reading"]
  /\ UNCHANGED <<busVars, replays, registered>>

\* A read finds no game, or raises.
ReadFails(r) ==
  /\ starts[r].pc = "reading"
  /\ starts' = [starts EXCEPT ![r] = NoStartRequest]
  /\ UNCHANGED <<busVars, replays, registered>>

\* The game's plays are read and its task is made.
Launch(r, t) ==
  /\ starts[r].pc = "reading"
  /\ replays[t].pc = "unused"
  /\ \A u \in TaskId : u < t => replays[u].pc # "unused"
  /\ replays' = [replays EXCEPT ![t] = [pc |-> "running", game |-> starts[r].game]]
  /\ registered' = [registered EXCEPT ![starts[r].game] = t]
  /\ starts' = [starts EXCEPT ![r] = NoStartRequest]
  /\ UNCHANGED busVars

\* run_once comes to its end or raises; its done callback is scheduled.
TaskEnds(t) ==
  /\ replays[t].pc = "running"
  /\ replays' = [replays EXCEPT ![t].pc = "done"]
  /\ UNCHANGED <<busVars, starts, registered>>

\* Mutant of Without: the entry goes whichever task it holds.
WithoutAny(t) == [registered EXCEPT ![replays[t].game] = 0]

\* The entry goes only if it is still this task's.
Without(t) == [registered EXCEPT ![replays[t].game] = IF @ = t THEN 0 ELSE @]

\* _cleanup
Cleanup(t) ==
  /\ replays[t].pc = "done"
  /\ registered' = Without(t)
  /\ replays' = [replays EXCEPT ![t].pc = "gone"]
  /\ UNCHANGED <<busVars, starts>>

CoordinatorNext ==
  \/ \E r \in Requests :
       \/ \E g \in Games : Request(r, g)
       \/ Acquire(r) \/ ReadFails(r)
       \/ \E t \in TaskId : Launch(r, t)
  \/ \E t \in TaskId : TaskEnds(t) \/ Cleanup(t)
  \/ (ListenerFails \/ ServerChanges) /\ UNCHANGED coordinatorVars

CoordinatorTypeOK ==
  /\ starts \in [Requests -> [pc : {"none", "waiting", "reading"}, game : Games]]
  /\ replays \in [TaskId -> [pc : {"unused", "running", "done", "gone"}, game : Games]]
  /\ registered \in [Games -> {0} \cup TaskId]

\* Requests that overlap, fail, or come between the end of a replay and its
\* clean-up never put two replays of a game on the air, and a running replay is
\* the one _tasks names (or the next request would start another).
OneReplayPerGame ==
  \A t \in TaskId : replays[t].pc = "running" =>
    /\ registered[replays[t].game] = t
    /\ \A u \in TaskId \ {t} : replays[u].pc = "running" => replays[u].game # replays[t].game
=============================================================================
