---------------------------- MODULE ServicesProofs ----------------------------
(* The limiter, the local replays and the poller, for any limits, policies,   *)
(* games, sources and numbers of requests, tasks and errors.                  *)
EXTENDS Services, LimiterProofs

(***************************************************************************)
(* ReplayCoordinator                                                       *)
(***************************************************************************)

\* One request at a time is between the check and the registration.
OneReader ==
  \A r, s \in Requests : starts[r].pc = "reading" /\ starts[s].pc = "reading" => r = s

\* While a request holds the lock, its game has no running replay.
ReaderIsAlone ==
  \A r \in Requests, t \in TaskId :
    starts[r].pc = "reading" /\ replays[t].pc = "running" => replays[t].game # starts[r].game

RunningIsRegistered ==
  \A t \in TaskId : replays[t].pc = "running" => registered[replays[t].game] = t

CoordinatorInv == CoordinatorTypeOK /\ OneReader /\ ReaderIsAlone /\ RunningIsRegistered

replayVars == <<busVars, coordinatorVars>>

\* No task is numbered 0, which stands for no entry.
LEMMA TaskIds == 0 \notin TaskId
BY CoordinatorConstants DEF TaskId

\* Every state the program starts in satisfies the invariant.
LEMMA CoordinatorInitInv == BusInit /\ CoordinatorInit => CoordinatorInv
BY CoordinatorConstants, TaskIds
   DEF CoordinatorInit, CoordinatorInv, CoordinatorTypeOK, OneReader, ReaderIsAlone, RunningIsRegistered,
       NoStartRequest, Unused

\* Every step of requests, tasks and the bus keeps it.
LEMMA CoordinatorStepInv == CoordinatorInv /\ [CoordinatorNext]_replayVars => CoordinatorInv'
<1> SUFFICES ASSUME CoordinatorInv, [CoordinatorNext]_replayVars PROVE CoordinatorInv'
  OBVIOUS
<1> USE CoordinatorConstants, TaskIds DEF CoordinatorInv
<1>1. ASSUME NEW r \in Requests, NEW g \in Games, Request(r, g) PROVE CoordinatorInv'
  BY <1>1 DEF Request, CoordinatorTypeOK, OneReader, ReaderIsAlone, RunningIsRegistered
<1>2. ASSUME NEW r \in Requests, Acquire(r) PROVE CoordinatorInv'
  <2> DEFINE g == starts[r].game
  <2> USE <1>2 DEF Acquire
  <2>1. CoordinatorTypeOK'
    BY DEF CoordinatorTypeOK, NoStartRequest
  <2>2. OneReader'
    BY DEF OneReader, LockIsFree, NoStartRequest, CoordinatorTypeOK
  <2>3. ASSUME ~IsRunning(g), NEW t \in TaskId, replays[t].pc = "running"
        PROVE replays[t].game # g
    BY <2>3 DEF RunningIsRegistered, IsRunning, CoordinatorTypeOK
  <2>4. ReaderIsAlone'
    BY <2>3 DEF ReaderIsAlone, NoStartRequest, CoordinatorTypeOK, LockIsFree
  <2>5. RunningIsRegistered'
    BY DEF RunningIsRegistered
  <2> QED BY <2>1, <2>2, <2>4, <2>5
<1>3. ASSUME NEW r \in Requests, ReadFails(r) PROVE CoordinatorInv'
  BY <1>3 DEF ReadFails, NoStartRequest, CoordinatorTypeOK, OneReader, ReaderIsAlone,
              RunningIsRegistered
<1>4. ASSUME NEW r \in Requests, NEW t \in TaskId, Launch(r, t) PROVE CoordinatorInv'
  <2> USE <1>4 DEF Launch
  <2>1. CoordinatorTypeOK'
    BY DEF CoordinatorTypeOK, NoStartRequest
  <2>2. OneReader'
    BY DEF OneReader, NoStartRequest, CoordinatorTypeOK
  <2>3. ReaderIsAlone'
    BY DEF ReaderIsAlone, OneReader, NoStartRequest, CoordinatorTypeOK
  <2>4. RunningIsRegistered'
    BY DEF RunningIsRegistered, ReaderIsAlone, CoordinatorTypeOK
  <2> QED BY <2>1, <2>2, <2>3, <2>4
<1>5. ASSUME NEW t \in TaskId, TaskEnds(t) PROVE CoordinatorInv'
  BY <1>5 DEF TaskEnds, CoordinatorTypeOK, OneReader, ReaderIsAlone, RunningIsRegistered
<1>6. ASSUME NEW t \in TaskId, Cleanup(t) PROVE CoordinatorInv'
  <2> USE <1>6 DEF Cleanup, Without
  <2>1. CoordinatorTypeOK'
    BY DEF CoordinatorTypeOK
  <2>2. OneReader' /\ ReaderIsAlone'
    BY DEF OneReader, ReaderIsAlone, CoordinatorTypeOK
  <2>3. RunningIsRegistered'
    BY DEF RunningIsRegistered, CoordinatorTypeOK
  <2> QED BY <2>1, <2>2, <2>3
<1>7. CASE UNCHANGED coordinatorVars
  BY <1>7 DEF coordinatorVars, CoordinatorTypeOK, OneReader, ReaderIsAlone, RunningIsRegistered
<1> QED BY <1>1, <1>2, <1>3, <1>4, <1>5, <1>6, <1>7 DEF CoordinatorNext, replayVars

\* A running replay that is the registered one is the only one of its game.
LEMMA OneReplayFollows == CoordinatorInv => OneReplayPerGame
BY DEF CoordinatorInv, OneReplayPerGame, RunningIsRegistered, CoordinatorTypeOK

(***************************************************************************)
(* SourcePoller: the cursor                                                *)
(***************************************************************************)

\* The cursor is a place in the source, and what is before it was delivered.
CursorIsDelivered ==
  /\ produced \in Nat
  /\ poller.cursor \in 0..produced
  /\ poller = [use |-> poller.use, pc |-> poller.pc, attempt |-> poller.attempt,
               cursor |-> poller.cursor, delivered |-> poller.delivered,
               end |-> poller.end, row |-> poller.row]
  /\ 1..poller.cursor \subseteq poller.delivered

\* A page never ends before the cursor.
LEMMA PageIsAhead ==
  ASSUME produced \in Nat, NEW c \in 0..produced
  PROVE  PageEnd(c) \in c..produced
BY PollerConstants DEF PageEnd

\* A poll that ends leaves the cursor and what was delivered alone.
LEMMA EndedIs ==
  ASSUME CursorIsDelivered, NEW end, Ended(end)
  PROVE  \E row \in RowsFor(end) :
           poller' = [use |-> poller.use, pc |-> "ended", attempt |-> poller.attempt,
                      cursor |-> poller.cursor, delivered |-> poller.delivered, end |-> end,
                      row |-> IF poller.use = "ingestion" THEN row ELSE poller.row]
<1>1. PICK row \in RowsFor(end) :
        poller' = [poller EXCEPT !.pc = "ended", !.end = end,
                                 !.row = IF poller.use = "ingestion" THEN row ELSE @]
  BY DEF Ended
<1> QED BY <1>1 DEF CursorIsDelivered

\* The initial cursor is None.
LEMMA InitCursor == PollerInit => CursorIsDelivered
BY DEF PollerInit, CursorIsDelivered

\* A step keeps the invariant and moves the cursor forward only.
LEMMA NextCursor ==
  CursorIsDelivered /\ [PollerNext]_pollerVars =>
    /\ CursorIsDelivered'
    /\ poller'.cursor >= poller.cursor
    /\ 1..poller'.cursor \subseteq poller'.delivered
<1> SUFFICES ASSUME CursorIsDelivered, [PollerNext]_pollerVars
             PROVE  CursorIsDelivered' /\ poller'.cursor >= poller.cursor
  BY DEF CursorIsDelivered
<1> USE DEF CursorIsDelivered
<1>1. CASE SourceGrows
  BY <1>1 DEF SourceGrows
<1>2. ASSUME poller'.cursor = poller.cursor, poller'.delivered = poller.delivered,
             produced' = produced,
             poller' = [use |-> poller'.use, pc |-> poller'.pc, attempt |-> poller'.attempt,
                        cursor |-> poller'.cursor, delivered |-> poller'.delivered,
                        end |-> poller'.end, row |-> poller'.row]
      PROVE  CursorIsDelivered' /\ poller'.cursor >= poller.cursor
  BY <1>2
<1>3. ASSUME NEW end, Ended(end), produced' = produced
      PROVE  CursorIsDelivered' /\ poller'.cursor >= poller.cursor
  <2>1. PICK row \in RowsFor(end) :
          poller' = [use |-> poller.use, pc |-> "ended", attempt |-> poller.attempt,
                     cursor |-> poller.cursor, delivered |-> poller.delivered, end |-> end,
                     row |-> IF poller.use = "ingestion" THEN row ELSE poller.row]
    BY <1>3, EndedIs
  <2> QED BY <1>3, <2>1, <1>2
<1>4. CASE FetchDisabled
  BY <1>4, <1>3 DEF FetchDisabled
<1>5. CASE FetchInvalid
  BY <1>5, <1>3 DEF FetchInvalid
<1>6. CASE FetchRaises
  BY <1>6, <1>3 DEF FetchRaises
<1>7. CASE FetchFails
  <2>1. CASE \E end \in {"overflow", "recorder", "unavailable"} : Ended(end)
    BY <1>7, <2>1, <1>3 DEF FetchFails
  <2>2. CASE ~ \E end \in {"overflow", "recorder", "unavailable"} : Ended(end)
    BY <1>7, <2>2, <1>2 DEF FetchFails
  <2> QED BY <2>1, <2>2
<1>8. CASE Wake
  BY <1>8, <1>2 DEF Wake
<1>9. CASE FetchSucceeds
  <2>1. CASE Ended("recorder")
    BY <1>9, <2>1, <1>3 DEF FetchSucceeds
  <2>2. CASE Ended("returned")
    BY <1>9, <2>2, <1>3 DEF FetchSucceeds
  <2>3. ASSUME NEW next \in NextCursors(poller.cursor),
               poller' = [poller EXCEPT !.pc = "waiting", !.attempt = 1,
                            !.cursor = Advanced(next),
                            !.delivered = @ \cup (poller.cursor + 1)..PageEnd(poller.cursor)]
        PROVE  CursorIsDelivered' /\ poller'.cursor >= poller.cursor
    <3>1. PageEnd(poller.cursor) \in poller.cursor..produced
      BY PageIsAhead
    <3>2. next \in {0, PageEnd(poller.cursor)}
      BY <2>3 DEF NextCursors
    <3>3. Advanced(next) \in {poller.cursor, PageEnd(poller.cursor)}
      BY <3>2 DEF Advanced
    <3>4. produced' = produced
      BY <1>9 DEF FetchSucceeds
    <3>5. poller'.cursor = Advanced(next)
          /\ poller'.delivered = poller.delivered \cup (poller.cursor + 1)..PageEnd(poller.cursor)
      BY <2>3
    <3>6. 1..Advanced(next) \subseteq
            poller.delivered \cup (poller.cursor + 1)..PageEnd(poller.cursor)
      BY <3>1, <3>3
    <3>7. poller' = [use |-> poller'.use, pc |-> poller'.pc, attempt |-> poller'.attempt,
                     cursor |-> poller'.cursor, delivered |-> poller'.delivered,
                     end |-> poller'.end, row |-> poller'.row]
      BY <2>3
    <3> QED BY <3>1, <3>3, <3>4, <3>5, <3>6, <3>7
  <2> QED BY <1>9, <2>1, <2>2, <2>3 DEF FetchSucceeds
<1>10. CASE UNCHANGED pollerVars
  BY <1>10 DEF pollerVars
<1> QED BY <1>1, <1>4, <1>5, <1>6, <1>7, <1>8, <1>9, <1>10 DEF PollerNext, PollerStep

(***************************************************************************)
(* SourcePoller: the health and the run it belongs to                      *)
(***************************************************************************)

\* The health counts the failures of the row; the last error that is not
\* transient ends the poller.
FailuresAreCounted ==
  /\ health.failures = outage.row
  /\ outage.row <= outage.faults + 1
  /\ poller.pc # "ended" => outage.row <= outage.faults

\* A poll_once that goes on has failed in every attempt before this one, so its
\* interval never overflows; it has had no success, and its run is not recorded yet.
RunIsPending ==
  poller.pc # "ended" =>
    /\ poller.row = "none"
    /\ poller.use = "ingestion" =>
         health.failures = poller.attempt - 1 /\ health.status \in {"idle", "retrying"}

PollerInv ==
  /\ PollerTypeOK /\ CursorIsDelivered /\ poller.delivered \subseteq 1..produced
  /\ FailuresAreCounted /\ RunIsPending /\ RunAgreesWithHealth

\* The ends a poll may have.
Ends == {"none", "disabled", "invalid", "unavailable", "overflow", "recorder", "raised", "returned"}

\* The poller's state stays within its types when the poll ends.
LEMMA EndedInv ==
  ASSUME PollerInv, poller.pc = "fetching", NEW end \in Ends, Ended(end),
         UNCHANGED <<produced, enabled>>,
         health'.failures = outage'.row, outage'.row <= outage'.faults + 1,
         health' \in [status : {"idle", "healthy", "retrying", "unavailable", "disabled"},
                      failures : 0..(MaxFaults + 1)],
         outage' \in [faults : 0..MaxFaults, row : 0..(MaxFaults + 1)],
         \/ end = "recorder"
         \/ /\ end = "raised"
            /\ poller.use = "ingestion" => health'.status \in {"idle", "retrying"}
         \/ end = "disabled" /\ health'.status = "disabled"
         \/ end = "returned" /\ health'.status = "healthy"
         \/ /\ end \in {"invalid", "unavailable", "overflow"}
            /\ poller.use = "ingestion" => health'.status = "unavailable"
  PROVE  PollerInv'
<1>1. PICK row \in RowsFor(end) :
        poller' = [use |-> poller.use, pc |-> "ended", attempt |-> poller.attempt,
                   cursor |-> poller.cursor, delivered |-> poller.delivered, end |-> end,
                   row |-> IF poller.use = "ingestion" THEN row ELSE poller.row]
  BY EndedIs DEF PollerInv
<1>2. row \in {"none", CASE end = "returned" -> "completed" [] end = "disabled" -> "skipped"
                          [] OTHER -> "failed"}
  BY <1>1 DEF RowsFor
<1>3. poller.row = "none" /\ poller.use \in {"stream", "ingestion"}
  BY DEF PollerInv, RunIsPending, PollerTypeOK
<1>4. PollerTypeOK'
  BY <1>1, <1>3, <1>2 DEF PollerInv, PollerTypeOK, Ends
<1>5. CursorIsDelivered' /\ poller'.delivered \subseteq 1..produced'
  BY <1>1 DEF PollerInv, CursorIsDelivered
<1>6. FailuresAreCounted' /\ RunIsPending'
  BY <1>1 DEF FailuresAreCounted, RunIsPending
<1>7. RunAgreesWithHealth'
  BY <1>1, <1>3, <1>2 DEF RunAgreesWithHealth
<1> QED BY <1>4, <1>5, <1>6, <1>7 DEF PollerInv

\* The numbers of the poller.
LEMMA PollerNumbers ==
  ASSUME PollerInv
  PROVE  /\ poller.cursor \in Nat /\ produced \in Nat /\ produced <= Events /\ poller.attempt \in Nat
         /\ poller.attempt >= 1 /\ poller.attempt <= MaxAttempts
         /\ health.failures \in Nat /\ outage.row \in Nat /\ outage.faults \in Nat
         /\ outage.faults <= MaxFaults /\ MaxFaults \in Nat /\ MaxAttempts \in Nat
         /\ FloatExponent \in Nat /\ Events \in Nat /\ MaxAttempts <= FloatExponent + 1
BY PollerConstants DEF PollerInv, PollerTypeOK, CursorIsDelivered

\* A poll of a disabled source ends.
LEMMA FetchDisabledInv == ASSUME PollerInv, FetchDisabled PROVE PollerInv'
<1>1. PICK end \in {"disabled", "recorder"} : Ended(end)
  BY DEF FetchDisabled
<1>2. /\ poller.pc = "fetching" /\ UNCHANGED <<produced, enabled, outage>>
      /\ health' = [health EXCEPT !.status = "disabled"]
  BY DEF FetchDisabled
<1>3. /\ health'.failures = health.failures /\ health'.status = "disabled"
      /\ health' \in [status : {"idle", "healthy", "retrying", "unavailable", "disabled"},
                      failures : 0..(MaxFaults + 1)]
  BY <1>2 DEF PollerInv, PollerTypeOK
<1>4. /\ outage' \in [faults : 0..MaxFaults, row : 0..(MaxFaults + 1)]
      /\ health'.failures = outage'.row /\ outage'.row <= outage'.faults + 1
  BY <1>2, <1>3 DEF PollerInv, PollerTypeOK, FailuresAreCounted
<1>5. end \in Ends
  BY DEF Ends
<1> QED BY <1>1, <1>2, <1>3, <1>4, <1>5, EndedInv

\* A batch that is not valid ends the poll.
LEMMA FetchInvalidInv == ASSUME PollerInv, FetchInvalid PROVE PollerInv'
<1>1. PICK given \in {"invalid", "recorder"} :
        Ended(IF IntervalOverflows THEN "overflow" ELSE given)
  BY DEF FetchInvalid
<1> DEFINE end == IF IntervalOverflows THEN "overflow" ELSE given
<1>2. /\ poller.pc = "fetching" /\ UNCHANGED <<produced, enabled>>
      /\ health' = [status |-> "unavailable", failures |-> health.failures + 1]
      /\ outage' = [outage EXCEPT !.row = outage.row + 1]
  BY DEF FetchInvalid
<1>3. /\ outage.row <= outage.faults /\ health.failures = outage.row
      /\ outage \in [faults : 0..MaxFaults, row : 0..(MaxFaults + 1)]
  BY <1>2 DEF PollerInv, FailuresAreCounted, PollerTypeOK
<1>4. outage' = [faults |-> outage.faults, row |-> outage.row + 1]
  BY <1>2, <1>3
<1>5. /\ outage' \in [faults : 0..MaxFaults, row : 0..(MaxFaults + 1)]
      /\ health' \in [status : {"idle", "healthy", "retrying", "unavailable", "disabled"},
                      failures : 0..(MaxFaults + 1)]
      /\ health'.failures = outage'.row /\ outage'.row <= outage'.faults + 1
      /\ health'.status = "unavailable"
  BY <1>2, <1>3, <1>4, PollerNumbers
<1>6. end \in Ends /\ end \in {"overflow", "invalid", "recorder"} /\ Ended(end)
  BY <1>1 DEF Ends
<1> HIDE DEF end
<1> QED BY <1>2, <1>5, <1>6, EndedInv

\* Another exception ends the poll, and the health is not told.
LEMMA FetchRaisesInv == ASSUME PollerInv, FetchRaises PROVE PollerInv'
<1>1. /\ poller.pc = "fetching" /\ Ended("raised")
      /\ UNCHANGED <<produced, enabled, health, outage>>
  BY DEF FetchRaises
<1>2. /\ health'.failures = outage'.row /\ outage'.row <= outage'.faults + 1
      /\ health' \in [status : {"idle", "healthy", "retrying", "unavailable", "disabled"},
                      failures : 0..(MaxFaults + 1)]
      /\ outage' \in [faults : 0..MaxFaults, row : 0..(MaxFaults + 1)]
      /\ poller.use = "ingestion" => health'.status \in {"idle", "retrying"}
  BY <1>1 DEF PollerInv, PollerTypeOK, FailuresAreCounted, RunIsPending
<1>3. "raised" \in Ends
  BY DEF Ends
<1> QED BY <1>1, <1>2, <1>3, EndedInv

\* A poll that goes on: only the attempt and the turn change.
LEMMA WaitingInv ==
  ASSUME PollerInv, poller.pc = "fetching", UNCHANGED <<produced, enabled>>,
         NEW attempt \in 1..MaxAttempts,
         poller' = [poller EXCEPT !.pc = "waiting", !.attempt = attempt],
         poller.use = "ingestion" =>
           health'.failures = attempt - 1 /\ health'.status \in {"idle", "retrying"},
         health'.failures = outage'.row, outage'.row <= outage'.faults,
         health' \in [status : {"idle", "healthy", "retrying", "unavailable", "disabled"},
                      failures : 0..(MaxFaults + 1)],
         outage' \in [faults : 0..MaxFaults, row : 0..(MaxFaults + 1)]
  PROVE  PollerInv'
<1>1. poller' = [use |-> poller.use, pc |-> "waiting", attempt |-> attempt,
                 cursor |-> poller.cursor, delivered |-> poller.delivered,
                 end |-> poller.end, row |-> poller.row]
  BY DEF PollerInv, CursorIsDelivered
<1>2. poller.row = "none"
  BY DEF PollerInv, RunIsPending
<1>3. PollerTypeOK'
  BY <1>1 DEF PollerInv, PollerTypeOK
<1>4. CursorIsDelivered' /\ poller'.delivered \subseteq 1..produced'
  BY <1>1 DEF PollerInv, CursorIsDelivered
<1>5. FailuresAreCounted'
  <2>1. outage'.row \in Int /\ outage'.faults \in Int
    OBVIOUS
  <2> QED BY <2>1 DEF FailuresAreCounted
<1>6. RunIsPending' /\ RunAgreesWithHealth'
  BY <1>1, <1>2 DEF RunIsPending, RunAgreesWithHealth
<1> QED BY <1>3, <1>4, <1>5, <1>6 DEF PollerInv

\* A transient error: a retry, the next poll of the stream, or the end.
LEMMA FetchFailsInv == ASSUME PollerInv, FetchFails PROVE PollerInv'
<1>1. /\ poller.pc = "fetching" /\ UNCHANGED <<produced, enabled>> /\ outage.faults < MaxFaults
      /\ outage' = [faults |-> outage.faults + 1, row |-> outage.row + 1]
      /\ health' = [status |-> IF Retrying THEN "retrying" ELSE "unavailable",
                    failures |-> health.failures + 1]
  BY DEF FetchFails
<1>2. outage.row <= outage.faults /\ health.failures = outage.row
  BY <1>1 DEF PollerInv, FailuresAreCounted
<1>3. /\ outage' \in [faults : 0..MaxFaults, row : 0..(MaxFaults + 1)]
      /\ health' \in [status : {"idle", "healthy", "retrying", "unavailable", "disabled"},
                      failures : 0..(MaxFaults + 1)]
      /\ health'.failures = outage'.row /\ outage'.row <= outage'.faults
      /\ outage'.row <= outage'.faults + 1
      /\ health'.failures = health.failures + 1
      /\ ~Retrying => health'.status = "unavailable"
  BY <1>1, <1>2, PollerNumbers
<1>4. poller.use = "ingestion" => health.failures = poller.attempt - 1
  BY <1>1 DEF PollerInv, RunIsPending
<1>5. CASE IntervalOverflows /\ Ended("overflow")
  <2>1. poller.use # "ingestion"
    BY <1>4, <1>5, PollerNumbers DEF IntervalOverflows
  <2>2. "overflow" \in Ends
    BY DEF Ends
  <2> QED BY <1>1, <1>3, <1>5, <2>1, <2>2, EndedInv
<1>6. CASE Ended("recorder")
  <2>1. "recorder" \in Ends
    BY DEF Ends
  <2> QED BY <1>1, <1>3, <1>6, <2>1, EndedInv
<1>7. CASE Retrying /\ poller' = [poller EXCEPT !.pc = "waiting", !.attempt = @ + 1]
  <2> DEFINE attempt == poller.attempt + 1
  <2>1. /\ attempt \in 1..MaxAttempts
        /\ poller.use = "ingestion" =>
             health'.failures = attempt - 1 /\ health'.status \in {"idle", "retrying"}
    BY <1>1, <1>3, <1>4, <1>7, PollerNumbers DEF Retrying
  <2>2. poller' = [poller EXCEPT !.pc = "waiting", !.attempt = attempt]
    BY <1>7
  <2> HIDE DEF attempt
  <2> QED BY <1>1, <1>3, <2>1, <2>2, WaitingInv
<1>8. CASE ~Retrying /\ poller.use = "stream" /\ poller' = [poller EXCEPT !.pc = "waiting", !.attempt = 1]
  <2>1. 1 \in 1..MaxAttempts
    BY PollerConstants
  <2> QED BY <1>1, <1>3, <1>8, <2>1, WaitingInv
<1>9. CASE ~Retrying /\ Ended("unavailable")
  <2>1. "unavailable" \in Ends
    BY DEF Ends
  <2> QED BY <1>1, <1>3, <1>9, <2>1, EndedInv
<1> QED BY <1>5, <1>6, <1>7, <1>8, <1>9 DEF FetchFails

\* A batch: the run is complete, or the stream goes on behind it.
LEMMA FetchSucceedsInv == ASSUME PollerInv, FetchSucceeds PROVE PollerInv'
<1>1. /\ poller.pc = "fetching" /\ UNCHANGED <<produced, enabled>>
      /\ outage' = [outage EXCEPT !.row = 0]
      /\ health' = [status |-> "healthy", failures |-> 0]
  BY DEF FetchSucceeds, Recovered
<1>2. outage' = [faults |-> outage.faults, row |-> 0] /\ outage.faults \in 0..MaxFaults
  BY <1>1 DEF PollerInv, PollerTypeOK
<1>3. /\ outage' \in [faults : 0..MaxFaults, row : 0..(MaxFaults + 1)]
      /\ health' \in [status : {"idle", "healthy", "retrying", "unavailable", "disabled"},
                      failures : 0..(MaxFaults + 1)]
      /\ health'.failures = outage'.row /\ outage'.row <= outage'.faults
      /\ outage'.row <= outage'.faults + 1
  <2>1. 0 \in 0..(MaxFaults + 1) /\ outage.faults \in Nat
    BY PollerNumbers
  <2>2. /\ outage' \in [faults : 0..MaxFaults, row : 0..(MaxFaults + 1)]
        /\ outage'.row = 0 /\ outage'.faults = outage.faults
    BY <1>2, <2>1
  <2>3. /\ health' \in [status : {"idle", "healthy", "retrying", "unavailable", "disabled"},
                        failures : 0..(MaxFaults + 1)]
        /\ health'.failures = 0
    BY <1>1, <2>1
  <2> QED BY <2>1, <2>2, <2>3
<1>4. CASE Ended("recorder")
  <2>1. "recorder" \in Ends
    BY DEF Ends
  <2> QED BY <1>1, <1>3, <1>4, <2>1, EndedInv
<1>5. CASE Ended("returned")
  <2>1. "returned" \in Ends
    BY DEF Ends
  <2> QED BY <1>1, <1>3, <1>5, <2>1, EndedInv
<1>6. ASSUME poller.use = "stream", NEW next \in NextCursors(poller.cursor),
             poller' = [poller EXCEPT !.pc = "waiting", !.attempt = 1,
                          !.cursor = Advanced(next),
                          !.delivered = @ \cup (poller.cursor + 1)..PageEnd(poller.cursor)]
      PROVE  PollerInv'
  <2> DEFINE cursor == Advanced(next)
             page == (poller.cursor + 1)..PageEnd(poller.cursor)
  <2>1. PageEnd(poller.cursor) \in poller.cursor..produced
    BY PageIsAhead DEF PollerInv, CursorIsDelivered
  <2>2. cursor \in {poller.cursor, PageEnd(poller.cursor)}
    BY <1>6 DEF NextCursors, Advanced
  <2>3. /\ cursor \in 0..produced /\ page \subseteq 1..produced
        /\ 1..cursor \subseteq poller.delivered \cup page
    BY <2>1, <2>2, PollerNumbers DEF PollerInv, CursorIsDelivered
  <2>4. poller' = [use |-> poller.use, pc |-> "waiting", attempt |-> 1,
                   cursor |-> cursor, delivered |-> poller.delivered \cup page,
                   end |-> poller.end, row |-> poller.row]
    BY <1>6 DEF PollerInv, CursorIsDelivered
  <2>5. poller.row = "none" /\ 1 \in 1..MaxAttempts
    BY <1>1, PollerConstants DEF PollerInv, RunIsPending
  <2> HIDE DEF cursor, page
  <2>6. PollerTypeOK'
    <3>1. cursor \in 0..Events /\ page \subseteq 1..Events
      BY <2>3, PollerNumbers
    <3> QED BY <1>1, <1>3, <2>4, <2>5, <3>1 DEF PollerInv, PollerTypeOK
  <2>7. CursorIsDelivered' /\ poller'.delivered \subseteq 1..produced'
    BY <1>1, <2>3, <2>4 DEF PollerInv, CursorIsDelivered
  <2>8. FailuresAreCounted' /\ RunIsPending' /\ RunAgreesWithHealth'
    BY <1>3, <1>6, <2>4, <2>5 DEF FailuresAreCounted, RunIsPending, RunAgreesWithHealth
  <2> QED BY <2>6, <2>7, <2>8 DEF PollerInv
<1> QED BY <1>4, <1>5, <1>6 DEF FetchSucceeds

\* A sleep ends, or the source gains an event.
LEMMA QuietStepInv == ASSUME PollerInv, Wake \/ SourceGrows \/ UNCHANGED pollerVars PROVE PollerInv'
<1>1. CASE Wake
  <2>1. /\ poller' = [poller EXCEPT !.pc = "fetching"] /\ poller.pc = "waiting"
        /\ UNCHANGED <<produced, enabled, health, outage>>
    BY <1>1 DEF Wake
  <2>2. poller' = [use |-> poller.use, pc |-> "fetching", attempt |-> poller.attempt,
                   cursor |-> poller.cursor, delivered |-> poller.delivered,
                   end |-> poller.end, row |-> poller.row]
    BY <2>1 DEF PollerInv, CursorIsDelivered
  <2>3. PollerTypeOK'
    BY <2>1, <2>2 DEF PollerInv, PollerTypeOK
  <2>4. CursorIsDelivered' /\ poller'.delivered \subseteq 1..produced'
    BY <2>1, <2>2 DEF PollerInv, CursorIsDelivered
  <2>5. FailuresAreCounted' /\ RunIsPending' /\ RunAgreesWithHealth'
    BY <2>1, <2>2 DEF PollerInv, FailuresAreCounted, RunIsPending, RunAgreesWithHealth
  <2> QED BY <2>3, <2>4, <2>5 DEF PollerInv
<1>2. CASE SourceGrows
  <2>1. produced < Events /\ produced' = produced + 1 /\ UNCHANGED <<enabled, poller, health, outage>>
    BY <1>2 DEF SourceGrows
  <2>2. PollerTypeOK' /\ CursorIsDelivered' /\ poller'.delivered \subseteq 1..produced'
    BY <2>1, PollerNumbers DEF PollerInv, PollerTypeOK, CursorIsDelivered
  <2>3. FailuresAreCounted' /\ RunIsPending' /\ RunAgreesWithHealth'
    BY <2>1 DEF PollerInv, FailuresAreCounted, RunIsPending, RunAgreesWithHealth
  <2> QED BY <2>2, <2>3 DEF PollerInv
<1>3. CASE UNCHANGED pollerVars
  BY <1>3 DEF pollerVars, PollerInv, PollerTypeOK, CursorIsDelivered, FailuresAreCounted,
              RunIsPending, RunAgreesWithHealth
<1> QED BY <1>1, <1>2, <1>3

\* Every step of the poller.
LEMMA PollerStepInv == ASSUME PollerInv, PollerNext \/ UNCHANGED pollerVars PROVE PollerInv'
BY FetchDisabledInv, FetchInvalidInv, FetchRaisesInv, FetchFailsInv, FetchSucceedsInv, QuietStepInv
   DEF PollerNext, PollerStep

\* Every state a poller starts in.
LEMMA PollerInitInv == ASSUME PollerInit PROVE PollerInv
<1>1. CursorIsDelivered
  BY InitCursor
<1>2. PollerTypeOK
  BY PollerConstants DEF PollerInit, PollerTypeOK
<1>3. poller.delivered \subseteq 1..produced /\ FailuresAreCounted /\ RunIsPending /\ RunAgreesWithHealth
  BY DEF PollerInit, FailuresAreCounted, RunIsPending, RunAgreesWithHealth
<1> QED BY <1>1, <1>2, <1>3 DEF PollerInv

(***************************************************************************)
(* The services together                                                   *)
(***************************************************************************)

ServicesInv ==
  /\ service \in {"limiter", "replays", "poller"}
  /\ BusTypeOK /\ LimiterInv /\ CoordinatorInv /\ PollerInv

\* The client of the bus is there or not, whatever happens to the server.
LEMMA BusStep ==
  ASSUME BusTypeOK, Next \/ UNCHANGED vars
  PROVE  BusTypeOK'
<1>1. CASE UNCHANGED busVars
  BY <1>1 DEF BusTypeOK, busVars
<1>2. CASE ListenerFails \/ ServerChanges
  BY <1>2 DEF BusTypeOK, ListenerFails, ServerChanges
<1> QED BY <1>1, <1>2
        DEF Next, Limiter, Replays, Poller, OthersWait, vars, LimiterNext, Tick, Arrive, Increment,
            SetExpiry, RedisRaises, KeyExpires, CoordinatorNext, Request, Acquire, ReadFails,
            Launch, TaskEnds, Cleanup

\* A step of one part is a step or a stutter of every other.
LEMMA PartsStep ==
  ASSUME Next \/ UNCHANGED vars
  PROVE  /\ LimiterNext \/ UNCHANGED limiterVars
         /\ [CoordinatorNext]_replayVars \/ UNCHANGED coordinatorVars
         /\ PollerNext \/ UNCHANGED pollerVars
BY DEF Next, Limiter, Replays, Poller, OthersWait, vars

\* Steps of the other parts may change the bus only.
LEMMA ReplaysStepInv ==
  ASSUME CoordinatorInv, [CoordinatorNext]_replayVars \/ UNCHANGED coordinatorVars
  PROVE  CoordinatorInv'
<1>1. CASE UNCHANGED coordinatorVars
  BY <1>1 DEF coordinatorVars, CoordinatorInv, CoordinatorTypeOK, OneReader, ReaderIsAlone,
              RunningIsRegistered
<1> QED BY <1>1, CoordinatorStepInv

\* The invariant of the services holds at the start, and every step keeps it.
LEMMA ServicesInvariant == Spec => []ServicesInv
<1>1. Init => ServicesInv
  <2>1. Init => BusTypeOK
    BY DEF Init, BusInit, BusTypeOK
  <2> QED BY <2>1, LimiterInitInv, CoordinatorInitInv, PollerInitInv DEF Init, ServicesInv
<1>2. ServicesInv /\ [Next]_vars => ServicesInv'
  <2> SUFFICES ASSUME ServicesInv, Next \/ UNCHANGED vars PROVE ServicesInv'
    OBVIOUS
  <2>1. LimiterInv' /\ CoordinatorInv' /\ PollerInv'
    BY PartsStep, LimiterStepInv, ReplaysStepInv, PollerStepInv DEF ServicesInv
  <2>2. BusTypeOK'
    BY BusStep DEF ServicesInv
  <2>3. service' = service
    BY DEF Next, Limiter, Replays, Poller, OthersWait, vars
  <2> QED BY <2>1, <2>2, <2>3 DEF ServicesInv
<1> QED BY <1>1, <1>2, PTL DEF Spec

\* The state of the limiter, the replays and the poller keeps its types: no count
\* passes the requests that came in, no cursor the source, no attempt the policy.
THEOREM TypeCorrect == Spec => []TypeOK
<1>1. ServicesInv => TypeOK
  BY LimiterInvImplies DEF ServicesInv, TypeOK, CoordinatorInv, PollerInv
<1> QED BY <1>1, ServicesInvariant, PTL

\* RateLimiter.check (rate_limit.py): with any limits and any overlap of calls,
\* failures of Redis and turns of the window, each store lets in at most the
\* limit of a window's requests, and late ones only as many as were carried over
\* into the window they are let in in; who is refused came after as many requests
\* as the limit.
THEOREM LimitIsKeptHolds == Spec => []LimitIsKept
<1>1. ServicesInv => LimitIsKept
  BY LimiterInvImplies DEF ServicesInv
<1> QED BY <1>1, ServicesInvariant, PTL

\* start and _cleanup (replay.py:24-59, 137-139): a game never has two running
\* local replays, and a running one is always the one _tasks names.
THEOREM OneReplayTheorem == Spec => []OneReplayPerGame
<1>1. ServicesInv => OneReplayPerGame
  BY OneReplayFollows DEF ServicesInv
<1> QED BY <1>1, ServicesInvariant, PTL

\* stream (sources.py:341-365): errors, retries, pages without a cursor and the
\* growth of the source never move the cursor back, or past what was yielded.
THEOREM NothingIsSkippedTheorem == Spec => NothingIsSkipped
<1>1. ServicesInv /\ [Next]_vars =>
        [poller'.cursor >= poller.cursor /\ 1..poller'.cursor \subseteq poller'.delivered]_pollerVars
  <2> SUFFICES ASSUME ServicesInv, Next \/ UNCHANGED vars, ~UNCHANGED pollerVars
               PROVE  poller'.cursor >= poller.cursor /\ 1..poller'.cursor \subseteq poller'.delivered
    OBVIOUS
  <2> QED BY PartsStep, NextCursor DEF ServicesInv, PollerInv
<1> QED BY <1>1, ServicesInvariant, PTL DEF Spec, NothingIsSkipped

\* poll_once and run_ingestion (sources.py, ingest.py): for any policy, the row of
\* an ingestion run agrees with the health its poll left.
THEOREM RunAgreesWithHealthHolds == Spec => []RunAgreesWithHealth
<1>1. ServicesInv => RunAgreesWithHealth
  BY DEF ServicesInv, PollerInv
<1> QED BY <1>1, ServicesInvariant, PTL
=============================================================================
