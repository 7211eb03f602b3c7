---------------------------- MODULE SourcePoller ----------------------------
(***************************************************************************)
(* SourcePoller (sources.py) over a paged source, used in two ways: stream, *)
(* and one poll_once as in run_ingestion (ingest.py).  An exception of the  *)
(* health recorder is let through, and so ends either.                      *)
(***************************************************************************)
EXTENDS Integers, FiniteSets

CONSTANTS
  PageSize,
  MaxAttempts,     \* RetryPolicy.max_attempts
  FloatExponent,   \* the greatest power of 2 that is a float (1023 in CPython)
  Events,          \* bound: events the source comes to have
  MaxFaults        \* bound: transient errors

ASSUME PollerConstants ==
  /\ PageSize \in Nat \ {0} /\ MaxAttempts \in Nat \ {0} /\ FloatExponent \in Nat
  /\ Events \in Nat /\ MaxFaults \in Nat
  /\ MaxAttempts <= FloatExponent + 1

VARIABLES
  produced,  \* events 1..produced can be fetched
  enabled,   \* the source is
  poller,    \* where stream or poll_once is
  health,    \* SourceHealth
  outage     \* history: transient errors, and failures since the last success

pollerVars == <<produced, enabled, poller, health, outage>>

PollerInit ==
  /\ produced = 0
  /\ enabled \in BOOLEAN
  /\ \E use \in {"stream", "ingestion"} :
       poller = [use |-> use, pc |-> "fetching", attempt |-> 1, cursor |-> 0,
                 delivered |-> {}, end |-> "none", row |-> "none"]
  /\ health = [status |-> "idle", failures |-> 0]
  /\ outage = [faults |-> 0, row |-> 0]

SourceGrows ==
  /\ produced < Events
  /\ produced' = produced + 1
  /\ UNCHANGED <<enabled, poller, health, outage>>

(***************************************************************************)
(* The sources                                                             *)
(***************************************************************************)

\* HistoricalNbaSource.fetch: a page from the cursor on.
PageEnd(cursor) == IF cursor + PageSize < produced THEN cursor + PageSize ELSE produced

\* next_cursor, 0 for None: the last page of recorded events has none, that of
\* a provider may name its end.
NextCursors(cursor) ==
  IF PageEnd(cursor) < produced THEN {PageEnd(cursor)} ELSE {0, PageEnd(cursor)}

(***************************************************************************)
(* poll_once, stream, run_ingestion                                        *)
(***************************************************************************)

\* Mutant of RowsFor: a disabled source is one more failure.
RowsForAny(end) == {"none", IF end = "returned" THEN "completed" ELSE "failed"}

\* The IngestionRun of a poll, or none, when its commit fails.
RowsFor(end) ==
  {"none", CASE end = "returned" -> "completed" [] end = "disabled" -> "skipped" [] OTHER -> "failed"}

\* poll_once returns to run_ingestion or raises through its caller.
Ended(end) ==
  \E row \in RowsFor(end) :
    poller' = [poller EXCEPT !.pc = "ended", !.end = end,
                             !.row = IF poller.use = "ingestion" THEN row ELSE @]

FetchDisabled ==
  /\ poller.pc = "fetching"
  /\ ~enabled
  /\ health' = [health EXCEPT !.status = "disabled"]
  /\ \E end \in {"disabled", "recorder"} : Ended(end)
  /\ UNCHANGED <<produced, enabled, outage>>

\* next_interval after one more failure: an int beyond every float times a
\* float raises OverflowError, before the maximum is looked at.
IntervalOverflows == health.failures > FloatExponent

\* _record_failure, and no retry.
FetchInvalid ==
  /\ poller.pc = "fetching"
  /\ enabled
  /\ health' = [status |-> "unavailable", failures |-> health.failures + 1]
  /\ \E end \in {"invalid", "recorder"} :
       Ended(IF IntervalOverflows THEN "overflow" ELSE end)
  /\ outage' = [outage EXCEPT !.row = @ + 1]
  /\ UNCHANGED <<produced, enabled>>

\* Any other exception (a provider's HTTP status error is one) is let through
\* without a word to the health.
FetchRaises ==
  /\ poller.pc = "fetching"
  /\ enabled
  /\ Ended("raised")
  /\ UNCHANGED <<produced, enabled, health, outage>>

\* Mutant of Retrying: one attempt more than the policy has.
RetryingOnceMore == poller.attempt <= MaxAttempts

Retrying == poller.attempt < MaxAttempts

\* A transient error: a retry after a delay, or the end of this poll_once, on
\* which stream waits and polls again.
FetchFails ==
  /\ poller.pc = "fetching"
  /\ enabled
  /\ outage.faults < MaxFaults
  /\ outage' = [faults |-> outage.faults + 1, row |-> outage.row + 1]
  /\ health' = [status |-> IF Retrying THEN "retrying" ELSE "unavailable",
                failures |-> health.failures + 1]
  /\ IF IntervalOverflows
     THEN Ended("overflow")
     ELSE \/ Ended("recorder")
          \/ /\ Retrying
             /\ poller' = [poller EXCEPT !.pc = "waiting", !.attempt = @ + 1]
          \/ /\ ~Retrying
             /\ IF poller.use = "stream"
                THEN poller' = [poller EXCEPT !.pc = "waiting", !.attempt = 1]
                ELSE Ended("unavailable")
  /\ UNCHANGED <<produced, enabled>>

\* Mutant of Recovered: failures are never forgotten.
StillCounting == [health EXCEPT !.status = "healthy"]

Recovered == [status |-> "healthy", failures |-> 0]

\* Mutant of Advanced: a page without a next cursor starts over.
AlwaysAdvanced(next) == next

\* stream's next_cursor
Advanced(next) == IF next = 0 THEN poller.cursor ELSE next

\* A batch: it is yielded once the health is recorded.
FetchSucceeds ==
  /\ poller.pc = "fetching"
  /\ enabled
  /\ health' = Recovered
  /\ outage' = [outage EXCEPT !.row = 0]
  /\ \/ Ended("recorder")
     \/ poller.use = "ingestion" /\ Ended("returned")
     \/ /\ poller.use = "stream"
        /\ \E next \in NextCursors(poller.cursor) :
             poller' = [poller EXCEPT !.pc = "waiting", !.attempt = 1,
                          !.cursor = Advanced(next),
                          !.delivered = @ \cup (poller.cursor + 1)..PageEnd(poller.cursor)]
  /\ UNCHANGED <<produced, enabled>>

\* The delay of the retry policy or the interval of the polling policy is over.
Wake ==
  /\ poller.pc = "waiting"
  /\ poller' = [poller EXCEPT !.pc = "fetching"]
  /\ UNCHANGED <<produced, enabled, health, outage>>

PollerStep ==
  FetchDisabled \/ FetchInvalid \/ FetchFails \/ FetchRaises \/ FetchSucceeds \/ Wake

PollerNext == SourceGrows \/ PollerStep

(***************************************************************************)
(* Properties                                                              *)
(***************************************************************************)

PollerTypeOK ==
  /\ produced \in 0..Events /\ enabled \in BOOLEAN
  /\ poller \in [use : {"stream", "ingestion"}, pc : {"fetching", "waiting", "ended"},
                 attempt : 1..MaxAttempts, cursor : 0..Events, delivered : SUBSET (1..Events),
                 end : {"none", "disabled", "invalid", "unavailable", "overflow", "recorder",
                        "raised", "returned"},
                 row : {"none", "completed", "skipped", "failed"}]
  /\ health \in [status : {"idle", "healthy", "retrying", "unavailable", "disabled"},
                 failures : 0..(MaxFaults + 1)]
  /\ outage \in [faults : 0..MaxFaults, row : 0..(MaxFaults + 1)]

\* Errors, retries and last pages without a cursor never move the stream back,
\* and never past an event it has not delivered.
NothingIsSkipped ==
  [][poller'.cursor >= poller.cursor /\ 1..poller'.cursor \subseteq poller'.delivered]_pollerVars

\* The run that ingestion records says what the health says: completed, skipped
\* and failed are healthy, disabled and unavailable, and none is recorded while a
\* retry is pending.  An exception that the health is not told of fails the run
\* too, and leaves the health before any success: it never says that a source is
\* healthy whose run failed, unless its recorder was what failed.
RunAgreesWithHealth ==
  poller.row # "none" =>
    CASE poller.end = "raised" -> poller.row = "failed" /\ health.status \in {"idle", "retrying"}
      [] poller.end = "recorder" -> poller.row = "failed"
      [] OTHER -> <<poller.row, health.status>> \in
           {<<"completed", "healthy">>, <<"skipped", "disabled">>, <<"failed", "unavailable">>}

\* The stream may stop only for a cause: the source is disabled, sends what is
\* not valid or raises, the recorder fails, or so many errors came in one row, with no
\* success between them, that their interval is no float.
EndedForCause ==
  /\ poller.pc = "ended"
  /\ poller.end = "overflow" => outage.row > FloatExponent + 1

\* Once the source stops failing, the stream catches up with it again and again,
\* unless it ended for a cause.
StreamCatchesUp == []<>(1..produced \subseteq poller.delivered \/ EndedForCause)
=============================================================================
