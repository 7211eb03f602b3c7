---------------------------- MODULE MCIngestion ----------------------------
(***************************************************************************)
(* Small feeds for Ingestion: out of order, corrected, colliding.          *)
(***************************************************************************)
EXTENDS Ingestion

Event(id, revision, requested, period, clock, score, shot) ==
  [id |-> id, revision |-> revision, requested |-> requested,
   period |-> period, clock |-> clock, score |-> score, shot |-> shot]

\* The column defaults of games.
Tipoff == [period |-> 0, clock |-> 2880, score |-> 0]

\* A play; a correction that sets its clock back, which the source also sends
\* with another shot; and a play of the next period that comes with the
\* correction's sequence and names that other shot.
CorrectedFeed ==
  {Event("a", 1, 2, 1, 300, 2, "s"), Event("a", 2, 1, 1, 320, 3, "s"),
   Event("a", 2, 1, 1, 320, 3, "t"), Event("b", 2, 1, 2, 700, 5, "t")}

\* Two free throws (one clock reading, two scores) and a turnover.
FreeThrows ==
  {Event("a", 1, 1, 1, 300, 1, NoShot), Event("b", 1, 2, 1, 300, 2, NoShot),
   Event("c", 1, 3, 1, 250, 2, NoShot)}

Symmetry == Permutations(Writers)
=============================================================================
