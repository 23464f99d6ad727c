# TLA+ models of ZeroTrust-FL-Sim

This directory holds models of the parts of ZeroTrust-FL-Sim that keep state, run
next to each other or decide something, the TLC configurations that check
them on small instances, and proofs, checked by TLAPS, of the properties that
matter most for every value of the constants.

## The system

| Part | Source | Modelled in |
| --- | --- | --- |
| Registration store, authorizer | `pkg/security/middleware.go` | `Registry` (identities are taken as verified) |
| Coordinator service | `pkg/coordinator/service.go`, `credential_lifecycle.go` | `CoordinatorState`, `DurableService` |
| Durable layer | `durable_service.go`, `durable_audit.go`, `durable_credential_lifecycle.go` | `DurableService` |
| File state store | `state_store.go` | `StateStore`, `FileStore` |
| PostgreSQL store, audit chain, S3 artifacts | `postgres_*.go`, `audit.go`, `artifact_store.go` | `StateStore`, `PostgresStore` |
| gRPC worker, SDK and CLI | `client/grpc_worker.py`, `scripts/run_grpc_worker.py`, `sdk.py`, `cli.py` | `WorkerCycle` |
| Simulation engine and worker | `fl/zerotrust_fl/engine` | `TrainingRun`, `SimulationEngine`, `LocalTraining` |
| Robust aggregation | `engine/coordinator.py`, `aggregators/native_cpp.py`, `cpp/src`, `scripts/run_fl_sim.py` | `Aggregation` |
| Secure aggregation | `privacy/ckks.py`, `ckks_secure_aggregation.cpp` | `SecureMean` |
| Data partitioner | `data/partitioner.py` | `Partitioner` |
| Process orchestrator | `main.py` | `Orchestrator` |
| Live training stream, dashboard command | `scripts/run_master_training.py`, `route.ts` | `TrainingStream` |
| Security review bundle | `scripts/prepare_security_review_bundle.py` | `ReviewBundle` |

The system has two halves. In the network half a Go coordinator serves workers
over gRPC: a worker registers with its certificate, fetches the global model,
trains, and submits an update. Updates wait until `MinUpdates` nodes have sent one;
the one that completes the quorum aggregates the round and replaces the model.
An admin may revoke a registration. The durable layer serialises all calls with
`persistenceMu`, stores a snapshot of the whole state after each successful call,
and restores the previous state, in memory and in the store, when that fails. The
store is a file, or a PostgreSQL row with the model in S3 and an audit chain.

In the local half a Python coordinator drives worker processes over queues,
round by round, aggregates with one of three backends, and publishes its state
for a dashboard. `main.py` starts both halves and watches over them.

## Modules

| Module | Contents |
| --- | --- |
| `Registry` | the operations of `RegistrationStore` on the value of its map |
| `CoordinatorState` | the state of `Service` as one value, what each handler makes of it, `captureSnapshot`, `restoreSnapshot`, `validateStateSnapshot` |
| `DurableService` | process life cycle, the RPCs, commit and rollback |
| `StateStore` | the contract of the store interface: what `Load` may return after which history of commits and deaths |
| `FileStore` | the file operations of `Load` and `Commit`, with crash and power loss between any two |
| `PostgresStore` | artifact upload, transaction, audit events, lost answers and rollbacks |
| `WorkerCycle` | workers, status command and coordinator, with requests that are lost or executed late |
| `TrainingRun` | the abstract promise of a simulation run |
| `SimulationEngine` | coordinator and worker processes with their queues, deadlines and deaths |
| `LocalTraining` | the tensors of a round and which of them share storage |
| `Aggregation` | configuration, validation, three backends and the verdict on an attack |
| `SecureMean` | encryption in chunks, addition, weighted mean |
| `Partitioner` | the IID, balanced and raw Dirichlet strategies |
| `Orchestrator` | preparation, start order, readiness, supervision, signals, shutdown |
| `TrainingStream` | the trainer's two threads, the state file, the command file |
| `ReviewBundle` | the steps of the bundle script over a checkout that changes |
| `MCAlgorithms` | `Aggregation`, `Partitioner` and `SecureMean` side by side on small inputs |
| `Storage` | `FileStore` and `PostgresStore` side by side |
| `MCStorage` | `Storage` and `ReviewBundle` side by side |
| other `MC...` | constants of the small instances |
| `...Proofs` | theorems: `DurabilityProofs` (`DurableService`, with lemmas on its operators and handlers), `StorageProofs`, `ReviewBundleProofs`, `SimulationEngineProofs`, `UpdateProofs` (`Aggregation` and `LocalTraining`), `WorkerCycleProofs`, `OrchestratorProofs`, `TrainingStreamProofs` |

Definitions whose names have a suffix, as `Completes_Early`, are plausible mistakes
in the definition they precede. Put in its place, each makes TLC report the
property it is meant for, which shows that the property depends on that code.

The modules meet at interfaces. `DurableService` lets `Commit` succeed, fail
without effect or fail with effect; `FileStore` and `PostgresStore` show
that the two stores do just that, as `StateStore` states it. `WorkerCycle` uses
the part of the coordinator that its clients see, and leaves durability to
`DurableService`. `SimulationEngine` treats updates as opaque; `LocalTraining` and
`Aggregation` say what is in them. `Orchestrator` starts the processes
whose insides are `DurableService`, `WorkerCycle` and `TrainingStream`.

### State and actions

**DurableService.** A Go map from node IDs is the set of its values with one value
per node. `mem` is the memory of the process and `disk` what `Load` would return,
the empty set standing for `ErrStateNotFound`. `phase` is where the holder of
`persistenceMu` is: in no call (`idle`), between the handler and the end of its
commit (`committing`), after a failed commit (`restoring`), after the restoration
of memory (`rolling back`), or in the start of the process (`starting`). `call`
holds the snapshots `before` and `after` and what the response will promise.
`acked`, `served`, `withdrawn` and `diverged` are history variables: the
properties speak of them and no action's guard but one reads them (a client
submits an update to a model it was served). A handler is one action for each
way it ends. The handlers that succeed go on to `committing`; those that return
an error keep what they already changed: a spent nonce, a counted rate window, a
deleted expired entry. `Crash` and `Tick` may happen between any two steps.

**FileStore.** `entry` is the state file as processes see it, `kept` the files it
may turn out to be after a power loss, `temp` the temporary file with its
contents and whether they are synced, `dir` whether the directory is certain to
be there. Each file operation of `Commit` is an action; each may fail.

**PostgresStore.** `row` is the state row, `chain` the audit table, `objects` the
bucket, `verified` the cache of the artifact store, `mem` the coordinator's state.
A state is the set of transitions that lead to it. `CommitTx` is the moment the
database commits; the answer may be lost after it.

**WorkerCycle.** Each worker has a step (`pc`), a registration, an accountant, the
call it waits for, and two things of the model it fetched: the round it will claim
as its base (`base`) and the round whose weights it trains on (`weights`). A call
the worker gave up on stays on its way and may be executed later. The coordinator is
`round`, `pending` and the validity of registrations. It decides by the claim;
`held` and `learned` record which weights the waiting updates, and those in the
model, were trained on.

**SimulationEngine.** `cmdq` are the command queues of size one, `resq` the result
queue, `busy` the coordinator's marks, `proc` and `task` the worker processes. The
loops of `_collect_round_results` are single steps: take a result, look at the
processes, see the deadline passed.

**LocalTraining.** `heap` maps storages to values; parameters, baselines and
updates are references into it. An optimizer step writes in place.

**Orchestrator.** `pc` and `at` say where `orchestrate()` is in its plan; `proc`,
`up` and `files` are the children, their readiness and health files. An item of the
preparation is `absent`, `whole`, `partial` (an earlier run left it half-made, but it
passes its probe: the generated protobuf file, the certificates and the packages of
the dashboard are only looked for) or `broken` (half-made by a step of this run that
failed).

**TrainingStream.** `history`, `recorded`, `active` are guarded by the state lock,
`lock` is the write lock, `write` where each thread is in `_write_state`, and
`published` what the file shows. `_consume_stop_request` takes two steps, the reading
of the command and its removal, and a command may be posted between them; `asked`
says that a stop was posted to this run and not lost.

**ReviewBundle.** Both outputs are functions from file names to contents. The archive
is opened in place and filled file by file. An exception unwinds the with-statement:
the gzip stream is ended over the members so far and can be read (`Unwind`). A kill
leaves an archive that cannot (`Die`). Reading such an archive under `--force`
either refuses it or raises an `EOFError` that nobody catches (`ProbeRaises`). The
profile in the baseline is read from the working tree a second time, after the copy.

**Partitioner**, **SecureMean**, **Aggregation** follow their
functions step by step; the steps between which nothing can happen are one action.

### Abstractions

* A vector of the network half is its length. A model is its round, its length and
  the updates aggregated into it; equal models are equal versions, because a
  version is the round and a digest of the payload. Aggregation may fail on
  vectors of one length too (`AggregationFailed`): sums can overflow to values
  that are not finite. On different lengths it must fail.
* Registration IDs are drawn from a counter. The code draws 24 random bytes.
* One handler reads the clock several times; the model gives all of its reads
  one value. Time may pass before the commit and before the restoration.
* A client's clock may be ahead of the coordinator's or behind it by the replay
  window, as the code admits. A nonce is forgotten by the time it was seen, metadata
  is fresh by the time it was issued, so a call stamped ahead of the clock can pass
  the replay cache twice. An update is for the round it names; the coordinator's
  check of that round is what keeps such a call out.
* Malformed requests, which are refused before any state is read, are left out,
  and so are policy and experiment identity, which do not change while the
  configuration stays the same, and the upgrades from earlier state schemas.
* `FileStore` assumes a POSIX file system in which a successful sync makes a
  file's data, or the renames in a directory so far, certain. On Windows the
  program skips the directory sync; that branch is not modelled.
* `PostgresStore` assumes that a transaction takes effect whole or not at all, that
  an S3 upload does, that nobody deletes objects, and that there is one
  coordinator. A hash is what it commits to.
* Aggregation works on one coordinate with small integers and exact fractions. The
  trim counts are computed as the code does, in integer arithmetic that gives
  the value of the floating-point expression for all betas and counts used: in
  double precision for the PyTorch backend, from a 32-bit beta for the native one.
* Dirichlet and multinomial draws are any outcome they can have.
* A ciphertext is the vector of its slots. Keys and approximation are left out.
* Losses, batches, log lines, metrics and messages are left out.

## Runs

| Run | Module, instance | Distinct states |
| --- | --- | --- |
| `rounds` | `MCDurableService`: two workers, four updates, quorum 2, one update of another length | 306 thousand |
| `replay` | `MCDurableService`: one worker with two certificates, two updates, one of them stamped ahead of the clock, quorum 1, clock past window, lease and minute | 534 thousand |
| `credentials` | `MCDurableService`: a worker, an admin, three IDs, generations up to 2 | 525 thousand |
| `storage` | `MCStorage`: four commits and three deaths of the file store; four transitions, three of them rounds, two of those with one model, and four faults of the database; two runs of the bundle script and two edits | 534 thousand |
| `cycle` | `MCWorkerCycle`: two workers, quorum 2, two rounds, one fault, a status command | 228 thousand |
| `engine` | `MCSimulationEngine`: two workers, three rounds, one result decides, one crash | 232 thousand |
| `tensors` | `MCLocalTraining`: three workers, on the CPU, on an accelerator with privacy, and malicious; two rounds | 387 thousand |
| `algorithms` | `MCAlgorithms`: three to five updates of values 0, 1, 3, f -1..1, k 0..2, beta 0, 20, 45, 50 %; twenty updates of values 0 and 1 with beta 20 and 35 %; up to three clients and two retries; two slots and five ciphertexts | 275 thousand |
| `orchestrate` | `MCOrchestrator`: two workers, five command lines, seven sets of leftovers | 276 thousand |
| `stream` | `TrainingStream`: three rounds, history of two, three samples, two posts | 76 thousand |
| `readme_model`, `delta` | as `replay`, as `tensors` | stop at the violation |

Deadlock is checked where the system must not stop: in `rounds`, `replay`,
`credentials` and `engine`. The other programs end, or stop at a bound.

In `storage` and `algorithms` the modules share no state. A behaviour is one of
one of them, chosen in the initial state; what the run shows is what separate runs
would show.

**Durable coordinator.** `Recoverable`: what the store holds, and what a rollback
has to restore, passes both validations of `restoreSnapshot`, of which `Commit`
runs one. `AcceptedIsDurable`: an update answered as accepted is in the store,
waiting or aggregated, unless a revocation took it. `ServedHistoryIsStable`: a
model a client was served is an ancestor of the stored model.
`AtRestMemoryIsStored`: between calls memory and store agree, unless a rollback
commit has just failed. `RoundsAreQuorums`: each round consists of `MinUpdates`
updates of different nodes and one length. `AggregatedAtMostOnce`: an update
enters the model once, however often its call is delivered, also when its nonce is
already forgotten and its metadata still fresh. (ADR 0001 calls round checks and
nonces defense in depth; for such a call only the round check is left.)
`RetiredStaysRetired`: a credential whose replacement or revocation was
acknowledged never becomes usable again. `RevocationHolds`: until `blocked_until`
the revoked entry is there, in memory and in the store. `RevokedNotPending`: no
update of a revoked node waits to be aggregated.

**Stores.** `LoadsWhole`: whenever the machine stops, the state file is absent or
whole. `KeepsContract`, `DatabaseKeepsContract`: both stores implement
`StateStore`. `DatabaseIsConsistent`: the model of the state row is in the bucket,
`verifyAuditRecords` accepts the chain at any time, each transition in the row has
its events exactly once, and an answered transition stays in the row.

The file store's `KeepsContract` is stated for a directory that existed before the
first start: `MkdirAll` does not sync the parent of a directory it creates, so a
power loss may take the whole directory. A `Load` that sees a rename whose
directory sync failed may be followed by a power loss that undoes the rename; no
call was answered in between, because a coordinator serves only after its own first
commit has succeeded.

**Review bundle.** `BundleIsSafe`: an archive the generator leaves holds files of one
bundle, never of two runs, and all of that bundle when its checksums verify; what a
run reports as built verifies. An output without the marker, or any output without
`--force`, is never changed. A run that refuses changes nothing, and one that ends
before it opens the archive leaves the last archive. In a checkout nobody changes
meanwhile, the bundle is the commit it names. Under `--force` a directory with the
marker is removed with whatever somebody put into it, and an archive that was
interrupted after its marker can be replaced.

**Workers.** `AccountantIsExact`: between two cycles the accountant has counted
exactly the accepted releases of its process. `TrainedOnCurrent`: every waiting
update was trained on the weights of the current round, and the model is made of
updates trained on the weights of the one before, although the coordinator sees only
what a submission claims. `OncePerRound`: a node contributes at
most once. `RoundsGoOn`: workers that keep cycling complete every round.

**Simulation.** `BusyMarksAreTrue`: a busy mark stands for exactly the work the
worker owes. `SendNeverBlocks`: the blocking `put` never meets a full queue.
`RunEnds`: every run ends, with no worker process left if it started.
`ImplementsTrainingRun`: recorded rounds are those of `TrainingRun`.
`ModelMovesByAggregates`: in-place writes of workers never reach the global model.
`ReportsAreStable`: a reported update keeps its value until it is aggregated.

**Computations.** `CountsAreSound`: an accepted configuration never fails in a
round, and those the runner and `main.py` derive are accepted, unless the user asked
for a k that is not positive or a quorum too small for Krum.
`RobustAggregation`: with no more malicious updates than a method tolerates, its
result stays near the honest ones, and a round counts as mitigated exactly when its
score is positive. For the trimmed mean "tolerates" is the number of values the
backend trims. `BackendsAgree`: the median is the same in both backends and Krum
differs in the order of ties only; the native trimmed mean trims as many values at
each end as PyTorch, with the same result, or exactly one less. FedAvg has one
implementation.
`PartitionIsExact`: each sample goes to exactly one client, minima and balance are
kept, and the retries are bounded. `DecryptsToFedAvg`: encrypted sums in any
nesting can be decrypted, to the weighted mean of the plain updates.

**Orchestrator.** `StartsInOrder`: no child starts before what it needs has passed its
probe or was made by this run, so never over what a failed step left half-made, nor
before its predecessors are ready in this run. What an earlier run left half-made is
used when it passes its probe. `ZeroMeansTrained`: without a signal, status 0 means
that the trainer ended with 0, after its rounds or stopped from the dashboard.
`DashboardIsOptional`: losing the dashboard does not end the run.
`SignalOrLossEnds`, `NothingOutlives`: a signal, or the loss of a required child,
ends it, and no child is left.

**Training stream.** `PublishedNeverRegresses`, `PublishedIsCurrent`: the state file
never goes back, is at most one round apart inside, and shows each boundary and the
end. `StopWithinOneRound`: at most one round begins while a stop command waits, and
only one posted to this run ends it. A command that cannot be read at the boundary is
removed and lost, as the code has it. `Finishes`: failing writes do not keep the trainer from ending.

### Bounds

Every bound is a guard of an action or the size of a set, and is named where the
constants are declared. The hazards are about the order of few steps of few
actors, and each instance is chosen so that its hazard happens: two nodes make a
quorum and let one be revoked, late or of another length while the other waits;
three rounds let a result of the first arrive in the second and free its worker
for the third; four commits and three deaths are enough for a failed commit
between two successful ones with a power loss after each; two models for three
rounds let a repeated round meet a cached digest. The clock runs one unit past the
window, lease or minute a run is about. In `cycle` only `experiment-status` runs
beside the workers: `worker-enroll` is its first half. A call given up by its
worker may be executed any number of steps later, so the one fault of `cycle`
already meets every step of the next cycle; the proofs about it hold for any number
of faults.

### Fairness

* Engine: weak fairness of the coordinator's steps, of passing deadlines and of
  the end of a terminated process. Workers may hang for ever.
* Orchestrator: weak fairness of the main thread and of the end of a killed
  child; strong fairness of the start-up timeout, which is looked at
  between other checks. No child is assumed to become ready, to exit or to obey
  SIGTERM.
* Training stream: weak fairness of both threads, and strong fairness of the main
  thread's taking of the lock, which the sampler, sleeping a second between
  writes, leaves free again and again.
* Worker cycle: weak fairness of the coordinator's answers and of each worker's
  steps, restarts included, which the deployment's supervisor makes.

The durable service, the stores, the review bundle and the pure functions have no
liveness property: whether a call ends is up to clients and disks, and the loops
of the functions are bounded.

### Disagreements between code and documents

Two runs end in a violation; each states what a document says.

* `readme_model`: `README.md` line 107 says the Go coordinator does "not perform
  native model aggregation or advance the global FL model"; the update that
  completes a quorum does both.
* `delta`: `README.md` line 122 defines an update as the change of the worker's
  model. On the CPU the baseline shares its storage with the parameters, so the
  update is zero before attack and noise. This is a bug of the code.

Seen while modelling, without a run of their own:

* When a transaction commits and its answer is lost, the call is rolled back
  without an event, and the audit chain keeps the event of the transition.
* `start()` is outside the `try` of the engine's `run()`: a worker that cannot be
  started leaves the earlier ones running.
* The native trimmed mean takes beta as a 32-bit float, so 0.35 of 20 updates trims
  6 and not 7 values at each end, where the documentation of the binding
  (`aggregator_pybind.cpp` line 219) says floor(beta*n). `BackendsAgree` allows this one value.
* `experiment-status` enrols first, which replaces the node's registration.
* A file edited between the clean check and the copy is packed into the review
  bundle.
* An archive that was cut short ends the bundle script under `--force` with an
  `EOFError` instead of a refusal.
* A dashboard's stop command that cannot be read once is removed.

## Proofs

The theorems hold for every value of the constants that satisfies the assumptions
of the module: no number of workers, rounds, commits, faults or crashes is fixed.
Most leaves are first-order and go to Zenon; those that cite `SMT` need arithmetic,
records or reasoning about functions.

### Durable coordinator

`DurabilityProofs` assumes the `ASSUME`s of `Registry`, `CoordinatorState` and
`DurableService`: positive lease, quorum, rate limit and minute, a finite set of
calls, and identities of the right type.

* `TypeCorrect`: `Spec => []TypeOK`.
* Nine theorems, one for each safety invariant the three runs check:
  `RecoveryCannotBeRefused` (`Recoverable`), `AcceptedUpdatesAreDurable`
  (`AcceptedIsDurable`), `ServedModelsStayInHistory` (`ServedHistoryIsStable`),
  `MemoryAndStoreAgree` (`AtRestMemoryIsStored`), `RoundsAreAlwaysQuorums`
  (`RoundsAreQuorums`), `UpdatesAreAggregatedOnce` (`AggregatedAtMostOnce`),
  `RevokedNeverPending` (`RevokedNotPending`), `RetiredCredentialsStayRetired`
  (`RetiredStaysRetired`), `RevocationsHold` (`RevocationHolds`).

None of the invariants is inductive.

* `RecoveryInv`. `Recoverable` alone is not inductive: what the next call saves
  as `before`, and what the next commit stores, comes from `mem`, so memory has
  to be restorable as well. `Sound` is all of it but two conditions on the waiting
  updates, that they are fewer than the quorum (`Few`) and of one length
  (`LengthsAgree`). Those two hold of memory except while a commit is pending or
  has just failed: two updates to a model without payload may differ in length,
  and the validation in `Commit` is the first to notice.
* `DurabilityInv`. The store alone does not carry the induction, because a
  rollback writes `call.before` and a later commit writes what is in memory:
  each of them must hold every accepted update.
* `HistoryInv`. The same for served models, with the order `AncestorOf`; in
  addition the state before a call is an ancestor of whatever the store holds
  during it, so going back never passes a model that was served.
* `AgreementInv`. While a commit is pending, the snapshot about to be written
  agrees with memory.
* `QuorumInv`, `RoundInv`. What holds of a state by itself is proved of all
  `Copies` of it at once, those in memory, in the store and in the call in flight;
  `CopiesStep` says where a new copy comes from. An update is aggregated once
  because `RoundInv` adds that it waits, or was aggregated, in the one round it is
  for (`InItsRound`); delivered again later it is refused for its round. Nonces play
  no part in it.
* `IdentityInv`. Registration IDs are drawn once and no revoked node has a waiting
  update, in any copy, so a retired ID could come back only with a copy in which
  it was valid.
* `RetirementInv`, `BlockInv`. While a commit is pending, memory and the snapshot
  about to be written already honour what the answer will promise; the copies a
  rollback goes back to honour what was promised before.

The handlers enter these proofs through five groups (refusing, issuing, revoking,
submitting, serving), each with one lemma that says what its members have in
common.

### Stores

`StorageProofs` is about both implementations of `StateStore` in `Storage`.

File store: `LoadsWholeHolds`, `AckedSurvivesHolds` (no snapshot older than the
last successful commit comes back) and `ContractHolds`. What reaches the state file
is what the temporary file holds at the rename, so the inductive invariant says
what it holds at each step (`Progress`), that every file that may come back is a
whole snapshot (`Stored`), and that in a directory that was there none is older
than the last success (`Fresh`).

PostgreSQL store: `DatabaseContractHolds` and `DatabaseIsConsistentHolds`, for any
transitions, models and faults. `DatabaseAssumption` says only that rounds are
completed by transitions and have models.

* `Uploaded`: the cache of verified digests is true, and a transaction begins only
  once its model is in the bucket.
* `Followed`: every state the coordinator may still commit, the one it goes back to
  after a failed call included, holds all answered transitions; without the latter
  a rollback could undo an answered call.
* `Linked`: the chain is one that `verifyAuditRecords()` accepts. `AppendedIs` says
  what `appendAuditEventsTx()` makes of a chain, record by record.
* `Recorded`: a transition in any state that may still be committed has its events
  in the chain exactly once, unless its own first commit is in progress, and then
  none is there. So a rollback to an earlier state, or a restart from a row that was
  committed and never answered, needs no event and adds none.

`MaxIsMember`, that a bounded set has a largest member, is proved from the
well-foundedness of `<`.

### Review bundle

`ReviewBundleProofs` shows `BundleIsAlwaysSafe` (`BundleIsSafe`), for any evidence
files, commits and versions, any order of the members, and any number of runs,
interrupts, deaths and changes of the checkout. `ReviewBundleAssumption` says that no
evidence file has the name of one of the files the script writes itself, that the
manifest is one of them, and that commits are made of versions. The
inductive invariant follows a run from step to step:

* `OutputsInv`: while a run checks, both outputs are those it found; until it opens
  the archive, the archive is; and what it is about to replace is absent or carries
  the marker. This is why a refusal is harmless and why nobody's own outputs are
  touched.
* `ContentInv`: the directory holds exactly the files written so far, with some
  versions of the evidence and some profile, which are the working tree's as long as
  nobody touched it. When the archive is opened this is the bundle, whatever was there
  before, and what an interrupt leaves is a part of it. `BundleSums` says that the
  checksums are of all its other files, so a part that verifies is the whole.
* `CommitInv`: the commit under review is a commit, and it is `HEAD` with clean
  evidence as long as nobody touched the checkout.

### Simulation engine

`SimulationEngineProofs` shows `EngineTypeCorrect`, `BusyMarksHold` (both
`BusyMarksAreTrue` and `SendNeverBlocks`), `SendNeverBlocksHolds` and
`EngineRefinesRun`, the safety part of `ImplementsTrainingRun`. `TypeInv` adds to
the types that the locals of a round are empty until its commands are sent.
`MarksInv` strengthens `BusyMarksAreTrue`: a worker that owes a result owes it in
one place only, an unread command, its work or the result queue. `RefInv` counts:
results, failures and what has been observed agree (`Tally`), a collected round has
its quorum (`Quorum`), and the history has one entry per completed round
(`Progress`).

### Aggregation

`UpdateProofs` shows `CountsAreAlwaysSound` (`CountsAreSound`), for any number of
workers and any integers for f, k and the percentage of beta. `AggregationAssumption`
says that there is a worker and that a quorum is between one and all of them.
`CountsInv` adds to the property that a round collects results only under a
configuration that both constructors accepted, and none before, and that it asks for
no more results than there are workers. The rest is
arithmetic:

* `DefaultFFits`, `CapKFits`: the f and k the runner and the launcher derive leave
  Krum its neighbours and candidates.
* `NativeTrimLeavesOne`: a beta below one half, rounded to a float of 24 bits, still
  trims less than half of any number of updates at each end. The product of that
  float with the number of updates is exact in the code too, which computes it in
  double precision.

What the methods then compute from the updates is not part of it.

### Local training

`UpdateProofs` also shows `ModelMovesByAggregatesHolds` and
`ReportsAreStableHolds`, for any workers, integer gradients and noise, and a
positive number of rounds, which `SimulationConfig` demands. Both are about who may
write where: `Places` says of which kind of storage each reference is, and the
kinds a worker trains in are never those of a model of the coordinator or of a
reported update. `Kept` is the two properties, the second one without the
restriction to idle workers.

### Worker cycle

`WorkerCycleProofs` shows `AccountantHolds`, `OncePerRoundHolds` and
`TrainedOnCurrentHolds`. For the latter, `Matched` says that a worker, the call it
waits for and the call it gave up on all claim the round whose weights they carry
(`Honest`), so that the coordinator's check of the claim is one of the weights. Between the acceptance of an update and the answer to the
heartbeat a release is accepted and not yet counted. `Account` says in which steps
exactly, and which call a process waits for in each of its steps; `Counted` ties
the number of a node's updates in the round to the pending set.

### Orchestrator

`OrchestratorProofs` shows `ZeroMeansTrainedHolds`, `DashboardIsOptionalHolds`
and `StartsInOrderHolds`, for any set of flags and any number of workers, at least
one and with different names as `worker_ids()` makes them, and for anything earlier
runs may have left. As long as no shutdown
has begun, the event is set only by a signal and no status has been noted
(`Quiet`); a status 0 is backed by a trainer that ended with 0 (`Truthful`); and the child
being looked at is one of the plan, which ends with the training (`Planned`).

For the order, `Supplied` says what has passed its probe or was made (`Usable`) at
each step of the preparation, and that nothing is broken as long as it goes on,
`Equipped` that it stays so, `Distinct` that no child is twice in the plan,
`Ordered` that all children before the one looked at are up and none after it was
started, and `Fresh` that a health file of a started child is of this run:
`orchestrate()` removes the one an earlier run left.

### Training stream

`TrainingStreamProofs` shows `PublishedIsCurrentHolds`, `StopWithinOneRoundHolds`
and the action property `PublishedNeverRegressesHolds`, for any number of rounds,
samples and posted commands. The argument is the lock's: only its holder has a
document (`Locking`), and since it reads the state after the acquisition, the
document lies between what the file shows and the state (`Shown`, `Taken`). The
lock does not order the state against the sampler's two critical sections; `Whole`
says what may happen between them: at most one round is completed, since the main
thread then waits for the lock. `Counting` and `Control` say how far a round has
come at each step and which thread may write, `Announced` and `Final` what the file
shows at a boundary and from the end of the run on, `Stopping` what becomes of a
command: it is in place from its posting to the next boundary, so no round begins
there over it.

### Only model-checked

* All liveness: `RunEnds`, `RoundsGoOn`, `SignalOrLossEnds`, `NothingOutlives`,
  `Finishes`, and the end of the run in `ImplementsTrainingRun`. TLAPS does not
  support fairness and `ENABLED`.
* What the functions of `Aggregation`, `Partitioner` and `SecureMean` compute
  (`RobustAggregation`, `BackendsAgree`, `PartitionIsExact`, `DecryptsToFedAvg`).
  They sort, fold and sum sequences of any length, and induction over data is out
  of the reach of the provers.

## Not modelled

* The service without the durable layer, whose handlers interleave between their
  locks, and the envelope service, which reads pending updates outside
  `persistenceMu`.
* Migrations, schema and experiment upgrades, export of the audit chain in pages,
  backup and recovery. They drive `pg_dump`, `pg_restore`, a database and a bucket,
  whose behaviour the repository does not contain.
* TLS, PKI, tokens and signatures: identities are taken as verified. The coordinator
  process itself is wiring.
* Real-valued arithmetic: losses, gradients, the epsilon of the accountant, noise,
  approximation errors and keys of CKKS, rounding in the SIMD and CUDA kernels, the
  CUDA trimmed mean, the architecture of the networks in `models.py`.
* Label maps of the poisoning attacks and `partition_stats`: functions without state
  that nothing else depends on.
* The worker's `--once`, the Go client, the commands `validate` and
  `coordinator-start` of the CLI, the log reader threads of `main.py`, and the
  rendering of the dashboard: none has a state the modelled parts read.
* Telemetry, which counts and measures the modelled calls.
* Scripts around a release: `validate_v1_release.py`, `validate_k8s_render.py`,
  `check_runtime_licenses.py`, `capture_cuda_parity_evidence.py`,
  `generate_python_proto.py`, `demo_ckks.py`, `setup.py`, the benchmarks, and the
  generated protocol files. They check texts or run once, without state of the
  running system.
