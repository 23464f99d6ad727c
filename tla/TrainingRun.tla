----------------------------- MODULE TrainingRun -----------------------------
(***************************************************************************)
(* What one run of the local simulation promises, without processes,       *)
(* queues or clocks: rounds follow each other, each is decided by a quorum *)
(* of the clients chosen for it, and the run ends.  SimulationEngine is    *)
(* shown to implement it.                                                  *)
(***************************************************************************)
EXTENDS Naturals, Sequences, FiniteSets

CONSTANTS Workers,    \* node IDs of the worker processes
          Rounds,     \* SimulationConfig.rounds
          Required,   \* clients per round
          MinResults  \* configured min_results, or 0 for None

VARIABLES history,    \* what RoundMetrics records of each finished round
          outcome     \* "running", "done" or "failed"

runVars == <<history, outcome>>

\* Successful results that decide a round of n selected clients.
MinResultsFor(n) == IF MinResults = 0 THEN n ELSE MinResults

Metrics == [selected : SUBSET Workers, completed : SUBSET Workers,
            failed : SUBSET Workers, stragglers : SUBSET Workers]

\* A round that may be recorded: between the minimum and the required number
\* of clients were selected, exactly the minimum of them completed, and the
\* other selected clients either failed or are stragglers.
Decided(m) ==
  /\ m \in Metrics
  /\ Cardinality(m.selected) \in MinResultsFor(Required) .. Required
  /\ Cardinality(m.completed) = MinResultsFor(Cardinality(m.selected))
  /\ m.completed \cup m.failed \cup m.stragglers = m.selected
  /\ m.completed \cap m.failed = {}
  /\ m.stragglers \cap (m.completed \cup m.failed) = {}

RunInit ==
  /\ history = <<>>
  /\ outcome = "running"

Round ==
  /\ outcome = "running"
  /\ Len(history) < Rounds
  /\ \E m \in Metrics : Decided(m) /\ history' = Append(history, m)
  /\ UNCHANGED outcome

Finish ==
  /\ outcome = "running"
  /\ Len(history) = Rounds
  /\ outcome' = "done"
  /\ UNCHANGED history

Fail ==
  /\ outcome = "running"
  /\ outcome' = "failed"
  /\ UNCHANGED history

RunNext == Round \/ Finish \/ Fail

RunSafety == RunInit /\ [][RunNext]_runVars

RunSpec == RunSafety /\ WF_runVars(RunNext)

==============================================================================
