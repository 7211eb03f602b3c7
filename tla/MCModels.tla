------------------------------ MODULE MCModels ------------------------------
(* The registry and the resolver on a small instance.                        *)
EXTENDS ModelResolver, FiniteSets, TLC

\* Every artifact beats the declared and the fixture baseline; "better" beats
\* "good", "odd" has the better Brier score and the worse log loss.
MCPrevalence == [brier_score |-> 9, log_loss |-> 9, expected_calibration_error |-> 1]
MCFixture == [brier_score |-> 8, log_loss |-> 8, expected_calibration_error |-> 1]

CONSTANTS good, better, odd
MCEvaluation == [d \in Digests |->
  CASE d = good -> [brier_score |-> 4, log_loss |-> 4, expected_calibration_error |-> 1]
    [] d = better -> [brier_score |-> 3, log_loss |-> 3, expected_calibration_error |-> 1]
    [] d = odd -> [brier_score |-> 2, log_loss |-> 5, expected_calibration_error |-> 1]]

\* At most MaxInFlight transactions and requests are under way at a time.
CONSTANT MaxInFlight
InFlight ==
  Cardinality({o \in Operators : operator[o].pc # "idle"})
  + Cardinality({r \in Requests : request[r].pc # "idle"})
  + (IF seeder.pc = "idle" THEN 0 ELSE 1)
FewInFlight == InFlight <= MaxInFlight /\ Len(activations) <= MaxActivations

Symmetry == Permutations(Operators) \cup Permutations(Versions \ {Baseline})
=============================================================================
