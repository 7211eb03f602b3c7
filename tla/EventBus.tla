------------------------------ MODULE EventBus ------------------------------
(***************************************************************************)
(* event_bus.redis as the rest of the API process sees it: the client is   *)
(* made once at start-up, and given up for good when the listener fails.   *)
(* What travels over the bus is in LiveStream and ReplayQueue.             *)
(***************************************************************************)
VARIABLES
  redis,    \* event_bus.redis is not None
  answers   \* external: the Redis server can be reached

busVars == <<redis, answers>>

\* start(subscribe=True): no client if the ping fails.
BusInit == answers \in BOOLEAN /\ redis = answers

\* _listen ends on an exception, closes the client and forgets it; nothing
\* starts it again.
ListenerFails ==
  /\ redis
  /\ redis' = FALSE
  /\ UNCHANGED answers

\* The server goes away or comes back.
ServerChanges ==
  /\ answers' = ~answers
  /\ UNCHANGED redis

BusTypeOK == redis \in BOOLEAN /\ answers \in BOOLEAN
=============================================================================
