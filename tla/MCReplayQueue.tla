--------------------------- MODULE MCReplayQueue ---------------------------
(* Small instances of ReplayQueue for TLC. *)
EXTENDS ReplayQueue, TLC

OneEventEach == [g \in Games |-> 1]
NoEvents == [g \in Games |-> 0]

Symmetry == Permutations(Tokens) \cup Permutations(Requests)
=============================================================================
