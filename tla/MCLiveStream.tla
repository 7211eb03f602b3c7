---------------------------- MODULE MCLiveStream ----------------------------
(***************************************************************************)
(* LiveStream with interchangeable sockets.                                *)
(***************************************************************************)
EXTENDS LiveStream

Symmetry == Permutations(Sockets)
=============================================================================
