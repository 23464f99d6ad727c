-------------------------- MODULE MCSimulationEngine --------------------------
(* Instances of SimulationEngine for TLC. *)
EXTENDS SimulationEngine

CONSTANTS w1, w2

MCWorkers == {w1, w2}

=============================================================================
