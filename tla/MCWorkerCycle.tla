----------------------------- MODULE MCWorkerCycle -----------------------------
(* Instances of WorkerCycle. *)
EXTENDS WorkerCycle, TLC

CONSTANTS w1, w2

MCWorkers == {w1, w2}
MCPrivate == {w1}
MCCommands == {"experiment-status"}

=============================================================================
