------------------------------ MODULE Clients ------------------------------
(* The client of a game's feed: a browser or a phone.                        *)
EXTENDS WebClient, IosClient

CONSTANT Kinds   \* the kinds of client that are looked at

ASSUME KindsAssumption == Kinds \subseteq {"web", "ios"}

VARIABLE client

vars == <<feedVars, webVars, iosVars, client>>

Init ==
  /\ client \in Kinds
  /\ FeedInit /\ WebInit /\ IosInit

Next ==
  \/ client = "web" /\ WebNext /\ UNCHANGED <<iosVars, client>>
  \/ client = "ios" /\ IosNext /\ UNCHANGED <<webVars, client>>

Spec == Init /\ [][Next]_vars

TypeOK == FeedTypeOK /\ WebTypeOK /\ IosTypeOK /\ client \in Kinds
=============================================================================
