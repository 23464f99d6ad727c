--------------------------- MODULE SimulationEngine ---------------------------
(***************************************************************************)
(* The local federated simulation: AsyncFederatedCoordinator drives        *)
(* persistent worker processes through one command queue of size one per   *)
(* worker and one result queue (fl/zerotrust_fl/engine).                   *)
(*                                                                         *)
(* One action per step of the coordinator that another process can observe *)
(* or overtake: a queue operation, a look at the processes, a passed       *)
(* deadline.  Updates are opaque here; LocalTraining and Aggregation model *)
(* what is in them.                                                        *)
(***************************************************************************)
EXTENDS Naturals, Sequences, FiniteSets

CONSTANTS Workers,     \* node IDs of the worker processes
          Rounds,      \* SimulationConfig.rounds
          Required,    \* clients per round
          MinResults,  \* configured min_results, or 0 for None
          MaxCrashes   \* bound: worker processes that die by themselves

\* What SimulationConfig, _clients_per_round and _min_results_for guarantee.
ASSUME ConfigAssumption ==
  /\ IsFiniteSet(Workers)
  /\ Rounds \in Nat \ {0}
  /\ Required \in 1 .. Cardinality(Workers)
  /\ MinResults \in 0 .. Required
  /\ MaxCrashes \in Nat

VARIABLES
  pc,        \* where AsyncFederatedCoordinator.run is
  round,     \* round_id
  busy,      \* _busy_round: round a worker is busy with, 0 for no entry
  selected, toSend,              \* clients of the round; those without command
  observed, results, failures,   \* locals of _collect_round_results
  expired,   \* the deadline of the loop the coordinator is in has passed
  toClose,   \* workers close() has not handled yet in its current loop
  cmdq,      \* command queue of each worker
  resq,      \* results on their way to, or in, the result queue
  proc,      \* state of each worker process
  task,      \* round a training worker works on
  signalled, \* workers sent SIGTERM
  crashes,   \* number of processes that died by themselves
  history,   \* RoundMetrics of the finished rounds
  outcome    \* how run() ends: "running", "done", "failed"

coordVars == <<pc, round, busy, selected, toSend, observed, results, failures,
               expired, toClose, history, outcome>>
procVars  == <<cmdq, resq, proc, task, signalled, crashes>>
vars      == <<coordVars, procVars>>

Mark == 0 .. Rounds   \* a round, or 0 for none

\* What a command queue of size one holds.
Command == [kind : {"none", "train", "stop"}, round : Mark]
NoCommand == [kind |-> "none", round |-> 0]
Train(r) == [kind |-> "train", round |-> r]
Stop == [kind |-> "stop", round |-> 0]

WorkerResult == [node : Workers, round : Mark, ok : BOOLEAN]
Result(n, r, ok) == [node |-> n, round |-> r, ok |-> ok]

Alive(w) == proc[w] \in {"starting", "idle", "training"}

MinResultsFor(n) == IF MinResults = 0 THEN n ELSE MinResults

Minimum == MinResultsFor(Required)

completed == {results[i] : i \in DOMAIN results}

Smaller(a, b) == IF a <= b THEN a ELSE b

Init ==
  /\ pc = "starting" /\ round = 1
  /\ busy = [w \in Workers |-> 0]
  /\ selected = {} /\ toSend = {} /\ observed = {}
  /\ results = <<>> /\ failures = {}
  /\ expired = FALSE /\ toClose = {}
  /\ cmdq = [w \in Workers |-> NoCommand] /\ resq = {}
  /\ proc = [w \in Workers |-> "none"]
  /\ task = [w \in Workers |-> 0]
  /\ signalled = {} /\ crashes = 0
  /\ history = <<>> /\ outcome = "running"

----------------------------------------------------------------------------
(* The coordinator *)

\* start(): one process after the other; the first round follows the last one.
StartWorker(w) ==
  /\ pc = "starting" /\ proc[w] = "none"
  /\ proc' = [proc EXCEPT ![w] = "starting"]
  /\ pc' = IF \A v \in Workers \ {w} : proc[v] # "none" THEN "draining" ELSE pc
  /\ UNCHANGED <<round, busy, selected, toSend, observed, results, failures,
                 expired, toClose, history, outcome,
                 cmdq, resq, task, signalled, crashes>>

\* Process.start raises: the exception leaves run() before its try block.
StartFails ==
  /\ pc = "starting"
  /\ pc' = "start_failed" /\ outcome' = "failed"
  /\ UNCHANGED <<round, busy, selected, toSend, observed, results, failures,
                 expired, toClose, history, procVars>>

\* Leave the round with an exception; the finally clause of run() closes.
Abort ==
  /\ pc' = "stopping" /\ outcome' = "failed"
  /\ toClose' = Workers /\ expired' = FALSE

\* _drain_completed_results: every waiting result frees its worker.
DrainResults ==
  /\ pc = "draining"
  /\ busy' = [w \in Workers |-> IF \E m \in resq : m.node = w THEN 0 ELSE busy[w]]
  /\ resq' = {}
  /\ pc' = "selecting"
  /\ UNCHANGED <<round, selected, toSend, observed, results, failures, expired,
                 toClose, history, outcome, cmdq, proc, task, signalled, crashes>>

\* Mutant: a worker that is still busy is offered again.
Available_Alive == {w \in Workers : Alive(w)}

Available == {w \in Workers : busy[w] = 0 /\ Alive(w)}

\* _select_clients chooses among the workers _wait_for_available returned.
Select(available) ==
  /\ \E chosen \in SUBSET available :
       /\ Cardinality(chosen) = Smaller(Required, Cardinality(available))
       /\ selected' = chosen /\ toSend' = chosen
  /\ pc' = "sending"
  /\ UNCHANGED <<expired, toClose, outcome>>

\* One pass of the loop of _wait_for_available after the drain.
WaitForAvailable ==
  /\ pc = "selecting"
  /\ LET n == Cardinality(Available)
         possible == Cardinality({w \in Workers : Alive(w)})
     IN \/ n >= Required /\ Select(Available)
        \/ /\ n < Required /\ possible < Minimum
           /\ Abort /\ UNCHANGED <<selected, toSend>>
        \/ /\ n < Required /\ possible >= Minimum /\ expired
           /\ IF n >= Minimum THEN Select(Available)
                              ELSE Abort /\ UNCHANGED <<selected, toSend>>
        \/ /\ n < Required /\ possible >= Minimum /\ ~expired
           /\ pc' = "draining"
           /\ UNCHANGED <<selected, toSend, expired, toClose, outcome>>
  /\ UNCHANGED <<round, busy, observed, results, failures, history, procVars>>

\* command_queue.put blocks while the queue of size one is full.
SendTrain(w) ==
  /\ pc = "sending" /\ w \in toSend
  /\ cmdq[w] = NoCommand
  /\ cmdq' = [cmdq EXCEPT ![w] = Train(round)]
  /\ busy' = [busy EXCEPT ![w] = round]
  /\ toSend' = toSend \ {w}
  /\ IF toSend' = {}
     THEN pc' = "collecting" /\ expired' = FALSE
     ELSE UNCHANGED <<pc, expired>>
  /\ UNCHANGED <<round, selected, observed, results, failures, toClose, history,
                 outcome, resq, proc, task, signalled, crashes>>

QuorumReached(res) == Len(res) >= MinResultsFor(Cardinality(selected))

QuorumLost(res, obs) ==
  Len(res) + (Cardinality(selected) - Cardinality(obs))
    < MinResultsFor(Cardinality(selected))

\* Mutant: the collection waits for every selected worker, whatever the time.
InCollectLoop_NoDeadline == Cardinality(observed) < Cardinality(selected)

InCollectLoop == ~expired /\ Cardinality(observed) < Cardinality(selected)

\* Mutant: only a result that counts frees its worker.
CollectResult_IgnoresLate(m) ==
  /\ pc = "collecting" /\ InCollectLoop
  /\ m \in resq
  /\ resq' = resq \ {m}
  /\ IF m.round # round \/ m.node \notin selected \/ m.node \in observed
     THEN UNCHANGED <<busy, observed, results, failures, pc>>
     ELSE /\ busy' = [busy EXCEPT ![m.node] = 0]
          /\ observed' = observed \cup {m.node}
          /\ results' = IF m.ok THEN Append(results, m.node) ELSE results
          /\ failures' = IF m.ok THEN failures ELSE failures \cup {m.node}
          /\ pc' = IF QuorumReached(results') \/ QuorumLost(results', observed')
                   THEN "collected" ELSE pc
  /\ UNCHANGED <<round, selected, toSend, expired, toClose, history, outcome,
                 cmdq, proc, task, signalled, crashes>>

\* A result is received: it frees its worker, and counts if it belongs to this
\* round, to a selected worker, and to one not yet observed.
CollectResult(m) ==
  /\ pc = "collecting" /\ InCollectLoop
  /\ m \in resq
  /\ resq' = resq \ {m}
  /\ busy' = [busy EXCEPT ![m.node] = 0]
  /\ IF m.round # round \/ m.node \notin selected \/ m.node \in observed
     THEN UNCHANGED <<observed, results, failures, pc>>
     ELSE /\ observed' = observed \cup {m.node}
          /\ results' = IF m.ok THEN Append(results, m.node) ELSE results
          /\ failures' = IF m.ok THEN failures ELSE failures \cup {m.node}
          /\ pc' = IF QuorumReached(results') \/ QuorumLost(results', observed')
                   THEN "collected" ELSE pc
  /\ UNCHANGED <<round, selected, toSend, expired, toClose, history, outcome,
                 cmdq, proc, task, signalled, crashes>>

\* The get of a quarter of a second ends with queue.Empty.
GetTimesOut ==
  /\ pc = "collecting" /\ InCollectLoop
  /\ resq = {}
  /\ pc' = "polling"
  /\ UNCHANGED <<round, busy, selected, toSend, observed, results, failures,
                 expired, toClose, history, outcome, procVars>>

\* _dead_unobserved_workers, and what the loop does with its answer.
MarkDead ==
  /\ pc = "polling"
  /\ LET dead == {w \in selected \ observed : ~Alive(w)} IN
       /\ failures' = failures \cup dead
       /\ observed' = observed \cup dead
       /\ busy' = [w \in Workers |-> IF w \in dead THEN 0 ELSE busy[w]]
  /\ pc' = IF QuorumLost(results, observed') THEN "collected" ELSE "collecting"
  /\ UNCHANGED <<round, selected, toSend, results, expired, toClose,
                 history, outcome, procVars>>

\* The loop ends by its condition.
StopCollecting ==
  /\ pc = "collecting" /\ ~InCollectLoop
  /\ pc' = "collected"
  /\ UNCHANGED <<round, busy, selected, toSend, observed, results, failures,
                 expired, toClose, history, outcome, procVars>>

\* get() raises: the tensor of a received result is handed over by the process
\* that sent it, which is gone.
ReceiveFails ==
  /\ pc \in {"draining", "collecting"}
  /\ pc = "collecting" => InCollectLoop
  /\ \E m \in resq : ~Alive(m.node) /\ resq' = resq \ {m}
  /\ Abort
  /\ UNCHANGED <<round, busy, selected, toSend, observed, results, failures,
                 history, cmdq, proc, task, signalled, crashes>>

\* Mutant: every selected worker that did not complete is a straggler.
RoundMetrics_AllLate ==
  [selected |-> selected, completed |-> completed, failed |-> failures,
   stragglers |-> selected \ completed]

RoundMetrics ==
  [selected |-> selected, completed |-> completed, failed |-> failures,
   stragglers |-> selected \ (completed \cup failures)]

\* The rest of _run_round: aggregate, apply, evaluate, record; then the next
\* round, or close().
CompleteRound ==
  /\ pc = "collected"
  /\ Len(results) >= MinResultsFor(Cardinality(selected))
  /\ history' = Append(history, RoundMetrics)
  /\ selected' = {} /\ observed' = {} /\ results' = <<>> /\ failures' = {}
  /\ expired' = FALSE
  /\ IF round < Rounds
     THEN /\ round' = round + 1 /\ pc' = "draining"
          /\ UNCHANGED <<toClose, outcome>>
     ELSE /\ pc' = "stopping" /\ toClose' = Workers
          /\ UNCHANGED <<round, outcome>>
  /\ UNCHANGED <<busy, toSend, procVars>>

\* TimeoutError for a missed quorum, or an aggregate that is not finite.
RoundFails ==
  /\ pc = "collected"
  /\ Abort
  /\ UNCHANGED <<round, busy, selected, toSend, observed, results, failures,
                 history, procVars>>

\* close(): put_nowait(StopCommand()), where queue.Full is ignored.
SendStop(w) ==
  /\ pc = "stopping" /\ w \in toClose
  /\ cmdq' = IF cmdq[w] = NoCommand THEN [cmdq EXCEPT ![w] = Stop] ELSE cmdq
  /\ IF toClose = {w} THEN pc' = "joining" /\ toClose' = Workers
                      ELSE toClose' = toClose \ {w} /\ UNCHANGED pc
  /\ UNCHANGED <<round, busy, selected, toSend, observed, results, failures,
                 expired, history, outcome, resq, proc, task, signalled, crashes>>

\* join with what is left of the grace period; terminate a process that is
\* still alive and wait for it no longer than two seconds.
Join(w) ==
  /\ pc = "joining" /\ w \in toClose
  /\ ~Alive(w) \/ expired
  /\ signalled' = IF Alive(w) THEN signalled \cup {w} ELSE signalled
  /\ toClose' = toClose \ {w}
  /\ IF toClose' = {}
     THEN /\ pc' = "closed"
          /\ busy' = [v \in Workers |-> 0]
          /\ outcome' = IF outcome = "running" THEN "done" ELSE outcome
     ELSE UNCHANGED <<pc, busy, outcome>>
  /\ UNCHANGED <<round, selected, toSend, observed, results, failures, expired,
                 history, cmdq, resq, proc, task, crashes>>

\* time.monotonic() reaches the deadline of the loop.
DeadlinePasses ==
  /\ pc \in {"draining", "selecting", "collecting", "polling", "joining"}
  /\ ~expired
  /\ expired' = TRUE
  /\ UNCHANGED <<pc, round, busy, selected, toSend, observed, results, failures,
                 toClose, history, outcome, procVars>>

----------------------------------------------------------------------------
(* The worker processes *)

WorkerReady(w) ==
  /\ proc[w] = "starting"
  /\ proc' = [proc EXCEPT ![w] = "idle"]
  /\ UNCHANGED <<coordVars, cmdq, resq, task, signalled, crashes>>

\* worker_process_main takes a command: train, or return on StopCommand.
TakeCommand(w) ==
  /\ proc[w] = "idle" /\ cmdq[w] # NoCommand
  /\ IF cmdq[w] = Stop
     THEN proc' = [proc EXCEPT ![w] = "exited"] /\ UNCHANGED task
     ELSE /\ proc' = [proc EXCEPT ![w] = "training"]
          /\ task' = [task EXCEPT ![w] = cmdq[w].round]
  /\ cmdq' = [cmdq EXCEPT ![w] = NoCommand]
  /\ UNCHANGED <<coordVars, resq, signalled, crashes>>

\* _execute_training_round returned, or its exception became an error result.
ReportResult(w, ok) ==
  /\ proc[w] = "training"
  /\ resq' = resq \cup {Result(w, task[w], ok)}
  /\ proc' = [proc EXCEPT ![w] = "idle"]
  /\ task' = [task EXCEPT ![w] = 0]
  /\ UNCHANGED <<coordVars, cmdq, signalled, crashes>>

\* The process dies: an exception outside the try block, a kill, no memory.
\* A result that has not left the process is lost with it.
WorkerDies(w) ==
  /\ Alive(w) /\ crashes < MaxCrashes
  /\ proc' = [proc EXCEPT ![w] = "exited"]
  /\ task' = [task EXCEPT ![w] = 0]
  /\ crashes' = crashes + 1
  /\ UNCHANGED <<coordVars, cmdq, resq, signalled>>

\* SIGTERM takes effect.
Terminated(w) ==
  /\ w \in signalled /\ Alive(w)
  /\ proc' = [proc EXCEPT ![w] = "exited"]
  /\ task' = [task EXCEPT ![w] = 0]
  /\ UNCHANGED <<coordVars, cmdq, resq, signalled, crashes>>

----------------------------------------------------------------------------

Coordinator ==
  \/ \E w \in Workers : StartWorker(w) \/ SendTrain(w) \/ SendStop(w) \/ Join(w)
  \/ StartFails \/ DrainResults \/ WaitForAvailable
  \/ \E m \in resq : CollectResult(m)
  \/ GetTimesOut \/ MarkDead \/ StopCollecting \/ ReceiveFails
  \/ CompleteRound \/ RoundFails

Worker(w) ==
  \/ WorkerReady(w) \/ TakeCommand(w)
  \/ \E ok \in BOOLEAN : ReportResult(w, ok)
  \/ WorkerDies(w) \/ Terminated(w)

\* run() has returned and no process has anything left to do.
Over ==
  /\ pc \in {"closed", "start_failed"}
  /\ UNCHANGED vars

Next ==
  \/ Coordinator
  \/ DeadlinePasses
  \/ \E w \in Workers : Worker(w)
  \/ Over

\* The coordinator's thread runs, clocks advance and SIGTERM is delivered.
\* Nothing is assumed of a worker: it may train for ever.
Fairness ==
  /\ WF_vars(Coordinator)
  /\ WF_vars(DeadlinePasses)
  /\ \A w \in Workers : WF_vars(Terminated(w))

Spec == Init /\ [][Next]_vars

FairSpec == Spec /\ Fairness

----------------------------------------------------------------------------
(* Properties *)

\* What is observed in a round was selected for it, and failures were observed.
TypeOK ==
  /\ pc \in {"starting", "start_failed", "draining", "selecting", "sending",
             "collecting", "polling", "collected", "stopping", "joining", "closed"}
  /\ round \in 1 .. Rounds
  /\ busy \in [Workers -> Mark]
  /\ selected \subseteq Workers /\ toSend \subseteq selected
  /\ observed \subseteq selected /\ failures \subseteq observed
  /\ results \in Seq(Workers)
  /\ expired \in BOOLEAN /\ toClose \subseteq Workers
  /\ cmdq \in [Workers -> Command]
  /\ resq \subseteq WorkerResult
  /\ proc \in [Workers -> {"none", "starting", "idle", "training", "exited"}]
  /\ task \in [Workers -> Mark]
  /\ signalled \subseteq Workers /\ crashes \in 0 .. MaxCrashes
  /\ outcome \in {"running", "done", "failed"}

\* Rounds for which worker w still owes the coordinator a result: the command is
\* unread, being worked on, or answered by a result not yet received.
Owed(w) ==
  {r \in {cmdq[w].round, task[w]} : r # 0}
    \cup {m.round : m \in {x \in resq : x.node = w}}

InRounds == pc \in {"draining", "selecting", "sending", "collecting", "polling",
                    "collected"}

\* While rounds run, the busy mark of a live worker says what the worker owes:
\* nothing without a mark, and the result of exactly the marked round with one.
\* _collect_round_results clears marks for late results of earlier rounds and
\* _drain_completed_results without looking at the round; neither may free a
\* worker that still works, nor keep one that is idle.
BusyMarksAreTrue ==
  InRounds => \A w \in Workers : Alive(w) =>
                Owed(w) = {r \in {busy[w]} : r # 0}

\* The blocking put of _run_round never waits: the queue of a worker that is
\* about to get a command is empty, whatever earlier rounds left behind and
\* whoever died since the selection.
SendNeverBlocks == pc = "sending" => \A w \in toSend : cmdq[w] = NoCommand

\* run() comes to an end although a worker may train for ever, die at any point,
\* or leave its command unread: every loop has its deadline.  When close() is
\* done no worker process is left, even one that never read its StopCommand
\* because the queue was full.
RunEnds == <>(pc = "start_failed" \/ (pc = "closed" /\ \A w \in Workers : ~Alive(w)))

\* The abstract run, over the same history and outcome.
TR == INSTANCE TrainingRun

\* The engine implements TrainingRun: late, duplicate, failed and lost results
\* never change what a recorded round means, and the run ends.
ImplementsTrainingRun == TR!RunSpec

=============================================================================
