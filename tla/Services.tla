------------------------------ MODULE Services ------------------------------
(* What runs beside the request handlers and the worker: the API's limiter and  *)
(* its own replays, which meet in event_bus.redis only, and the source poller.  *)
EXTENDS RateLimiter, ReplayCoordinator, SourcePoller

VARIABLE service

vars == <<busVars, limiterVars, coordinatorVars, pollerVars, service>>

Init ==
  /\ service \in {"limiter", "replays", "poller"}
  /\ BusInit /\ LimiterInit /\ CoordinatorInit /\ PollerInit
  \* one start is enough for a part that does not run
  /\ service # "poller" => enabled /\ poller.use = "stream"
  /\ service = "poller" => ~redis

Limiter ==
  service = "limiter" /\ LimiterNext /\ UNCHANGED <<coordinatorVars, pollerVars, service>>

Replays ==
  service = "replays" /\ CoordinatorNext /\ UNCHANGED <<limiterVars, pollerVars, service>>

OthersWait == UNCHANGED <<busVars, limiterVars, coordinatorVars, service>>

Poller == service = "poller" /\ PollerNext /\ OthersWait

Next == Limiter \/ Replays \/ Poller

\* The poller's loop goes on: sleeps end, and fetches return or raise.
Fairness == WF_vars(service = "poller" /\ PollerStep /\ OthersWait)

Spec == Init /\ [][Next]_vars /\ Fairness

TypeOK ==
  /\ service \in {"limiter", "replays", "poller"}
  /\ BusTypeOK /\ LimiterTypeOK /\ CoordinatorTypeOK /\ PollerTypeOK

\* Once the source stops failing, the stream catches up with it again and again,
\* unless it ended for a cause.
SourceIsFollowed == service = "poller" => StreamCatchesUp
=============================================================================
