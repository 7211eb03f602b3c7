----------------------------- MODULE MCClients -----------------------------
(***************************************************************************)
(* Clients, with one replay in its frames at a time: an API process that   *)
(* hears the worker queues replays, and one that runs them itself hears no *)
(* worker.  A replay that is queued, interrupted or done may still meet    *)
(* another one.                                                            *)
(***************************************************************************)
EXTENDS Clients, FiniteSets

CONSTANT MaxRuns   \* bound: replays that have plays in their hands

OneRunAtATime ==
  Cardinality({p \in Player : replay[p].pc \in {"read", "running"}}) <= MaxRuns
=============================================================================
