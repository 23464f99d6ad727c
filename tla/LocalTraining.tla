----------------------------- MODULE LocalTraining -----------------------------
(***************************************************************************)
(* What happens to the parameter vectors of a simulated round: which       *)
(* tensor storage the coordinator's model, the vector it sends, the model  *)
(* of each worker and the returned update live in, and who writes to it    *)
(* (engine/worker.py, and the vector helpers of engine/coordinator.py).    *)
(*                                                                         *)
(* A tensor is one integer in a heap of storages.  Three facts of torch    *)
(* matter: vector_to_parameters makes the parameters views of the vector,  *)
(* Tensor.to returns the tensor itself when device and dtype already fit,  *)
(* and a CPU tensor put on a queue is handed over in shared memory.        *)
(***************************************************************************)
EXTENDS Integers, FiniteSets

CONSTANTS Workers,
          Accelerated,  \* workers whose device is not the CPU
          Malicious,    \* workers with a sign_flip attack
          Private,      \* workers with local differential privacy
          Clip,         \* clip_norm of LocalDPConfig
          Noise,        \* values the Gaussian noise may take
          Gradients,    \* what one optimizer step may add to the parameter
          Rounds,       \* bound: rounds
          MaxBatches    \* bound: optimizer steps of one round

ASSUME TensorAssumption ==
  /\ Clip \in Int /\ Noise \subseteq Int /\ Gradients \subseteq Int
  /\ Rounds \in Nat \ {0}

VARIABLES
  heap,      \* contents of every storage
  model,     \* storage of the coordinator's model
  phase,     \* "send" or "collect"
  round,
  command,   \* storage of the vector in a worker's command, or Nowhere
  job,       \* round a worker's command or result belongs to
  pc,        \* where _execute_training_round is
  params,    \* storage the parameters of the worker's model are views of
  baseline,  \* storage of the vector _load_global_parameters returned
  local,     \* storage of the flattened parameters after training
  left,      \* batches still to do
  update,    \* storage of the update of the last result, or Nowhere
  sent,      \* history: value of the vector each round started from
  trained,   \* history: value of the parameters when the training ended
  reported,  \* history: value of the update when it was reported
  expected   \* history: initial model plus every applied aggregate

workerVars == <<command, job, pc, params, baseline, local, left, update,
                trained, reported>>
vars == <<heap, model, phase, round, sent, expected, workerVars>>

\* A storage is named by what allocates it: the round, or the worker, whose last
\* tensor of that kind nothing refers to any more when the name is used again.
Storage ==
  ({"model"} \X (0 .. Rounds)) \cup ({"vector"} \X (1 .. Rounds))
    \cup ({"built", "copy", "local", "update"} \X Workers)
Nowhere == <<"none", 0>>

Alloc(h, s, v) == [h EXCEPT ![s] = v]

\* parameters_to_vector concatenates into a new tensor.
ParametersToVector(h, ref, s) == Alloc(h, s, h[ref])

\* Tensor.to: no copy when the tensor is already where it should be.
CopiesToDevice(w) == w \in Accelerated

Init ==
  /\ heap = [s \in Storage |-> 0]
  /\ model = <<"model", 0>>
  /\ phase = "send" /\ round = 1
  /\ command = [w \in Workers |-> Nowhere] /\ job = [w \in Workers |-> 0]
  /\ pc = [w \in Workers |-> "idle"]
  /\ params = [w \in Workers |-> <<"built", w>>]
  /\ baseline = [w \in Workers |-> Nowhere] /\ local = [w \in Workers |-> Nowhere]
  /\ left = [w \in Workers |-> 0] /\ update = [w \in Workers |-> Nowhere]
  /\ sent = [r \in 1 .. Rounds |-> 0]
  /\ trained = [w \in Workers |-> 0] /\ reported = [w \in Workers |-> 0]
  /\ expected = 0

----------------------------------------------------------------------------
(* The coordinator *)

\* Mutant: the vector is a view of the model.
ParameterVector_View(h) == [heap |-> h, ref |-> model]

\* _parameter_vector: a copy of the model's parameters.
ParameterVector(h) ==
  [heap |-> ParametersToVector(h, model, <<"vector", round>>), ref |-> <<"vector", round>>]

\* _run_round sends the same vector to every selected worker; the earlier result
\* of each has been received.
SendRound ==
  /\ phase = "send"
  /\ \E chosen \in (SUBSET {w \in Workers : pc[w] = "idle" /\ command[w] = Nowhere})
                   \ {{}} :
     LET v == ParameterVector(heap) IN
       /\ heap' = v.heap
       /\ command' = [w \in Workers |-> IF w \in chosen THEN v.ref ELSE command[w]]
       /\ job' = [w \in Workers |-> IF w \in chosen THEN round ELSE job[w]]
       /\ update' = [w \in Workers |-> IF w \in chosen THEN Nowhere ELSE update[w]]
       /\ sent' = [sent EXCEPT ![round] = heap[model]]
  /\ phase' = "collect"
  /\ UNCHANGED <<model, round, expected, pc, params, baseline, local, left,
                 trained, reported>>

\* Results of this round the coordinator has received.
Collected == {w \in Workers : job[w] = round /\ pc[w] = "idle" /\ update[w] # Nowhere}

\* _apply_parameter_delta with the aggregate Krum returns, which is one of the
\* updates: the model's parameters become views of the sum.
ApplyParameterDelta ==
  /\ phase = "collect"
  /\ \E w \in Collected :
       LET candidate == heap[model] + heap[update[w]] IN
         /\ heap' = Alloc(heap, <<"model", round>>, candidate)
         /\ model' = <<"model", round>>
         /\ expected' = expected + reported[w]
  /\ phase' = IF round < Rounds THEN "send" ELSE "done"
  /\ round' = IF round < Rounds THEN round + 1 ELSE round
  /\ UNCHANGED <<sent, workerVars>>

\* Not enough results: the run is over.
RoundFails ==
  /\ phase = "collect"
  /\ phase' = "done"
  /\ UNCHANGED <<heap, model, round, sent, expected, workerVars>>

----------------------------------------------------------------------------
(* A worker *)

\* _load_global_parameters: the parameters become views of the prepared vector,
\* which is the received one unless it had to be copied to the device.
LoadGlobalParameters(w) ==
  /\ pc[w] = "idle" /\ command[w] # Nowhere
  /\ LET prepared == IF CopiesToDevice(w) THEN <<"copy", w>> ELSE command[w] IN
       /\ heap' = IF CopiesToDevice(w) THEN Alloc(heap, prepared, heap[command[w]])
                                        ELSE heap
       /\ params' = [params EXCEPT ![w] = prepared]
       /\ baseline' = [baseline EXCEPT ![w] = prepared]
  /\ command' = [command EXCEPT ![w] = Nowhere]
  /\ \E n \in 1 .. MaxBatches : left' = [left EXCEPT ![w] = n]
  /\ pc' = [pc EXCEPT ![w] = "training"]
  /\ UNCHANGED <<model, phase, round, sent, expected, job, local, update,
                 trained, reported>>

\* optimizer.step changes the parameters in place.
OptimizerStep(w) ==
  /\ pc[w] = "training" /\ left[w] > 0
  /\ \E g \in Gradients : heap' = [heap EXCEPT ![params[w]] = @ + g]
  /\ left' = [left EXCEPT ![w] = @ - 1]
  /\ UNCHANGED <<model, phase, round, sent, expected, command, job, pc, params,
                 baseline, local, update, trained, reported>>

\* parameters_to_vector(model.parameters()) after the last batch.
FlattenParameters(w) ==
  /\ pc[w] = "training" /\ left[w] = 0
  /\ heap' = ParametersToVector(heap, params[w], <<"local", w>>)
  /\ local' = [local EXCEPT ![w] = <<"local", w>>]
  /\ trained' = [trained EXCEPT ![w] = heap[params[w]]]
  /\ pc' = [pc EXCEPT ![w] = "flattened"]
  /\ UNCHANGED <<model, phase, round, sent, expected, command, job, params,
                 baseline, left, update, reported>>

\* A loss or an update that is not finite: an error result without an update.
TrainingFails(w) ==
  /\ pc[w] \in {"training", "flattened"}
  /\ pc' = [pc EXCEPT ![w] = "idle"]
  /\ left' = [left EXCEPT ![w] = 0]
  /\ UNCHANGED <<heap, model, phase, round, sent, expected, command, job, params,
                 baseline, local, update, trained, reported>>

\* The sign_flip attack returns a new tensor.
TransformUpdate(w, x) == IF w \in Malicious THEN -x ELSE x

\* protect_model_update: clip, then add noise.
ProtectModelUpdate(w, x, n) ==
  IF w \notin Private THEN x
  ELSE n + (IF x > Clip THEN Clip ELSE IF x < -Clip THEN -Clip ELSE x)

\* Mutant: the difference is computed in place of the baseline.
ReportUpdate_InPlace(w) ==
  /\ pc[w] = "flattened"
  /\ \E n \in Noise :
       LET delta == heap[local[w]] - heap[baseline[w]]
           protected == ProtectModelUpdate(w, TransformUpdate(w, delta), n)
       IN /\ heap' = [heap EXCEPT ![baseline[w]] = protected]
          /\ update' = [update EXCEPT ![w] = baseline[w]]
          /\ reported' = [reported EXCEPT ![w] = protected]
  /\ pc' = [pc EXCEPT ![w] = "idle"]
  /\ UNCHANGED <<model, phase, round, sent, expected, command, job, params,
                 baseline, local, left, trained>>

\* local_parameters - baseline, then the attack, then the protection; the result
\* is put on the queue.
ReportUpdate(w) ==
  /\ pc[w] = "flattened"
  /\ \E n \in Noise :
       LET delta == heap[local[w]] - heap[baseline[w]]
           protected == ProtectModelUpdate(w, TransformUpdate(w, delta), n)
       IN /\ heap' = Alloc(heap, <<"update", w>>, protected)
          /\ update' = [update EXCEPT ![w] = <<"update", w>>]
          /\ reported' = [reported EXCEPT ![w] = protected]
  /\ pc' = [pc EXCEPT ![w] = "idle"]
  /\ UNCHANGED <<model, phase, round, sent, expected, command, job, params,
                 baseline, local, left, trained>>

Next ==
  \/ SendRound \/ ApplyParameterDelta \/ RoundFails
  \/ \E w \in Workers :
       \/ LoadGlobalParameters(w) \/ OptimizerStep(w) \/ FlattenParameters(w)
       \/ TrainingFails(w) \/ ReportUpdate(w)

Spec == Init /\ [][Next]_vars

----------------------------------------------------------------------------
(* Properties *)

Refs == Storage \cup {Nowhere}

\* Whatever the workers write in place, and whoever still trains for an earlier
\* round, the coordinator's model is its initial value plus the aggregates that
\* were applied to it: no worker trains in the storage of that model.
ModelMovesByAggregates == heap[model] = expected

\* An update does not change between the moment its worker reports it and the
\* moment the coordinator aggregates it, although the vectors it was computed
\* from are shared with workers that still train.
ReportsAreStable ==
  \A w \in Workers : pc[w] = "idle" /\ update[w] # Nowhere => heap[update[w]] = reported[w]

\* README.md: "\Delta_k^{(t)}=W_k^{(t)}-W^{(t)}", the update of an honest worker
\* is what its training changed in the model it was sent.
UpdateIsModelDelta ==
  \A w \in Workers \ (Malicious \cup Private) :
    pc[w] = "idle" /\ update[w] # Nowhere => reported[w] = trained[w] - sent[job[w]]

=============================================================================
