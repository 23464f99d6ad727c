------------------------------ MODULE WorkerCycle ------------------------------
(***************************************************************************)
(* The network worker (scripts/run_grpc_worker.py on client/grpc_worker.py)*)
(* and the operator command ztfl (cli.py on sdk.py) as clients of the      *)
(* coordinator.  A call is a request on its way, then an answer; a client  *)
(* that gives up or dies leaves its request behind, and the coordinator    *)
(* may still execute it.  Worker processes that exit are started again by  *)
(* their supervisor (restart: unless-stopped).                             *)
(*                                                                         *)
(* The coordinator is the part of service.go its clients see; its          *)
(* durability is in DurableService.  A registration ID is "current" while  *)
(* it is the one in the registry and "old" when a later registration of    *)
(* the same node has replaced it.                                          *)
(***************************************************************************)
EXTENDS Integers, FiniteSets

CONSTANTS
  Workers,
  Private,    \* workers that apply local differential privacy
  Quorum,     \* MinUpdates of the coordinator
  MaxRound,   \* bound: no worker trains in this round
  MaxFaults,  \* bound on lost calls, crashes, expired leases and server errors
  Commands    \* operator commands that may be given, each once

ASSUME CycleAssumption ==
  /\ Private \subseteq Workers /\ IsFiniteSet(Workers)
  /\ Quorum \in 1 .. Cardinality(Workers)
  /\ MaxRound \in Nat /\ MaxFaults \in Nat
  /\ Commands \subseteq {"diagnostics", "worker-enroll", "experiment-status"}

VARIABLES
  pc,        \* where each worker process is
  reg,       \* _registration_id of each worker: "none", "current" or "old"
  base,      \* the round and version a worker claims for its update
  weights,   \* the round whose weights it loaded to train on
  spent,     \* releases its accountant has counted
  call,      \* the call each worker waits for
  orphan,    \* a request of a call that was given up
  cli,       \* the operator command: its name, node, step and registration
  given,     \* commands given so far
  round, pending, lease,
             \* the coordinator: round, workers with a pending update, live leases
  accepts,   \* updates accepted from each node in this round
  released,  \* updates accepted from each worker process
  held,      \* the round whose weights each pending update was trained on
  learned,   \* those rounds, of the updates that made the current model
  faults

clients == <<pc, reg, base, weights, spent, call, orphan, released>>
operator == <<cli, given>>
server == <<round, pending, lease, accepts, held, learned>>
vars == <<pc, reg, base, weights, spent, call, orphan, cli, given, round, pending, lease,
          accepts, released, held, learned, faults>>

\* The weights of a submission are the ones its update was trained on, those of an
\* answer to GetGlobalModel the ones it carries.
Idle == [kind |-> "none", reg |-> "none", base |-> 0, weights |-> 0, result |-> "none"]
Request(kind, r, b, x) ==
  [kind |-> kind, reg |-> r, base |-> b, weights |-> x, result |-> "none"]
NoCommand == [name |-> "none", node |-> "none", step |-> "none", reg |-> "none"]

Init ==
  /\ pc = [w \in Workers |-> "down"]
  /\ reg = [w \in Workers |-> "none"]
  /\ base = [w \in Workers |-> 0] /\ weights = [w \in Workers |-> 0]
  /\ spent = [w \in Workers |-> 0]
  /\ call = [w \in Workers |-> Idle] /\ orphan = [w \in Workers |-> Idle]
  /\ cli = NoCommand /\ given = {}
  /\ round = 0 /\ pending = {} /\ lease = [w \in Workers |-> FALSE]
  /\ accepts = [w \in Workers |-> 0] /\ released = [w \in Workers |-> 0]
  /\ held = [w \in Workers |-> 0] /\ learned = {} /\ faults = 0

Fault == faults < MaxFaults /\ faults' = faults + 1

----------------------------------------------------------------------------
(* The coordinator *)

Authorized(w, r) == r = "current" /\ lease[w]

Aged(r) == IF r = "current" THEN "old" ELSE r

\* RegistrationStore.Register replaces the registration of the node: every other
\* holder of its ID is left with an old one.
Registers(w) ==
  /\ lease' = [lease EXCEPT ![w] = TRUE]
  /\ reg' = [reg EXCEPT ![w] = Aged(@)]
  /\ UNCHANGED <<round, pending, accepts, held, learned>>

\* Mutant: a second update of the node replaces the first.
Verdict_Replaces(w, r) ==
  IF ~Authorized(w, r.reg) THEN "denied" ELSE IF r.base # round THEN "stale" ELSE "ok"

\* The checks of SubmitLocalUpdate, in order.
Verdict(w, r) ==
  IF ~Authorized(w, r.reg) THEN "denied"
  ELSE IF r.base # round THEN "stale"
  ELSE IF w \in pending THEN "exists" ELSE "ok"

\* An accepted update waits, or completes the round: the mean of the pending
\* updates is added to the model.
Accepts(w, r) ==
  LET all == pending \cup {w}
      closes == Cardinality(all) >= Quorum
  IN /\ pending' = IF closes THEN {} ELSE all
     /\ round' = IF closes THEN round + 1 ELSE round
     /\ accepts' = IF closes THEN [v \in Workers |-> 0] ELSE [accepts EXCEPT ![w] = @ + 1]
     /\ held' = IF closes THEN [v \in Workers |-> 0] ELSE [held EXCEPT ![w] = r.weights]
     /\ learned' = IF closes THEN {r.weights} \cup {held[v] : v \in pending \ {w}} ELSE learned
     /\ UNCHANGED lease

Waiting(w, kind) == call[w].kind = kind /\ call[w].result = "none"
Answer(w, result) == call' = [call EXCEPT ![w].result = result]

ServeRegister(w) ==
  /\ Waiting(w, "register") /\ Registers(w)
  /\ call' = [call EXCEPT ![w].result = "ok", ![w].reg = "current"]
  /\ orphan' = [orphan EXCEPT ![w].reg = Aged(@)]
  /\ cli' = IF cli.node = w THEN [cli EXCEPT !.reg = Aged(@)] ELSE cli
  /\ UNCHANGED <<pc, base, weights, spent, released, given, faults>>

ServeModel(w) ==
  /\ Waiting(w, "model")
  /\ call' = [call EXCEPT ![w].result = IF Authorized(w, call[w].reg) THEN "ok" ELSE "denied",
                          ![w].base = round, ![w].weights = round]
  /\ UNCHANGED <<pc, reg, base, weights, spent, orphan, released, operator, server, faults>>

ServeSubmit(w) ==
  /\ Waiting(w, "submit")
  /\ LET verdict == Verdict(w, call[w])
     IN /\ Answer(w, verdict)
        /\ IF verdict = "ok"
           THEN Accepts(w, call[w]) /\ released' = [released EXCEPT ![w] = @ + 1]
           ELSE UNCHANGED <<server, released>>
  /\ UNCHANGED <<pc, reg, base, weights, spent, orphan, operator, faults>>

ServeHeartbeat(w) ==
  /\ Waiting(w, "heartbeat")
  /\ Answer(w, IF Authorized(w, call[w].reg) THEN "ok" ELSE "denied")
  /\ UNCHANGED <<pc, reg, base, weights, spent, orphan, released, operator, server, faults>>

\* A rate limit, an invalid payload or an internal error.
ServeError(w) ==
  /\ call[w].kind # "none" /\ call[w].result = "none" /\ Fault
  /\ Answer(w, "error")
  /\ UNCHANGED <<pc, reg, base, weights, spent, orphan, released, operator, server>>

\* A request that outlived its client is executed, or is lost.
ServeOrphan(w) ==
  /\ orphan[w].kind # "none"
  /\ \/ /\ orphan[w].kind = "register" /\ Registers(w)
        /\ call' = [call EXCEPT ![w].reg = Aged(@)]
        /\ cli' = IF cli.node = w THEN [cli EXCEPT !.reg = Aged(@)] ELSE cli
     \/ /\ orphan[w].kind = "submit" /\ Verdict(w, orphan[w]) = "ok"
        /\ Accepts(w, orphan[w]) /\ UNCHANGED <<reg, call, cli>>
     \/ UNCHANGED <<server, reg, call, cli>>
  /\ orphan' = [orphan EXCEPT ![w] = Idle]
  /\ UNCHANGED <<pc, base, weights, spent, released, given, faults>>

LeaseExpires(w) ==
  /\ lease[w] /\ Fault
  /\ lease' = [lease EXCEPT ![w] = FALSE]
  /\ UNCHANGED <<clients, operator, round, pending, accepts, held, learned>>

----------------------------------------------------------------------------
(* A worker process *)

At(w, step) == pc[w] = step
Goto(w, step) == pc' = [pc EXCEPT ![w] = step]
Send(w, kind) == call' = [call EXCEPT ![w] = Request(kind, reg[w], base[w], weights[w])]
Done(w) == call' = [call EXCEPT ![w] = Idle]
Got(w, step, results) == At(w, step) /\ call[w].result \in results

\* main(): a new process with a new accountant.
Start(w) ==
  /\ At(w, "down") /\ Goto(w, "connecting")
  /\ reg' = [reg EXCEPT ![w] = "none"] /\ base' = [base EXCEPT ![w] = 0]
  /\ weights' = [weights EXCEPT ![w] = 0]
  /\ spent' = [spent EXCEPT ![w] = 0] /\ released' = [released EXCEPT ![w] = 0]
  /\ UNCHANGED <<call, orphan, operator, server, faults>>

\* wait_ready(): the server's identity is verified once, the channel becomes
\* ready, and the registration is sent.
Connect(w) ==
  /\ At(w, "connecting") /\ Goto(w, "registering") /\ Send(w, "register")
  /\ UNCHANGED <<reg, base, weights, spent, orphan, released, operator, server, faults>>

\* A channel that does not become ready in time is tried again; an error of the
\* socket or of the identity check is not caught and ends the process.
ConnectFails(w) ==
  /\ At(w, "connecting") /\ Fault
  /\ Goto(w, "connecting") \/ Goto(w, "down")
  /\ UNCHANGED <<reg, base, weights, spent, call, orphan, released, operator, server>>

\* register() keeps the ID, the health file is written and the first cycle begins.
Registered(w) ==
  /\ Got(w, "registering", {"ok"})
  /\ reg' = [reg EXCEPT ![w] = call[w].reg]
  /\ Goto(w, "sleeping") /\ Done(w)
  /\ UNCHANGED <<base, weights, spent, orphan, released, operator, server, faults>>

\* _register_with_retry(): any other answer is tried again until the deadline.
RegisterFailed(w) ==
  /\ Got(w, "registering", {"error"})
  /\ Goto(w, "connecting") \/ Goto(w, "down")
  /\ Done(w)
  /\ UNCHANGED <<reg, base, weights, spent, orphan, released, operator, server, faults>>

\* Mutant: the model is fetched only once.
BeginCycle_KeepsModel(w) ==
  /\ At(w, "sleeping")
  /\ IF base[w] = 0 /\ released[w] = 0 THEN Goto(w, "fetching") /\ Send(w, "model")
                                      ELSE Goto(w, "submitting") /\ Send(w, "submit")
  /\ UNCHANGED <<reg, base, weights, spent, orphan, released, operator, server, faults>>

\* _run_cycle() after the interval.
BeginCycle(w) ==
  /\ At(w, "sleeping")
  /\ Goto(w, "fetching") /\ Send(w, "model")
  /\ UNCHANGED <<reg, base, weights, spent, orphan, released, operator, server, faults>>

\* Mutant: the weights are loaded into the model of the process only once.
Fetched_KeepsWeights(w) ==
  /\ Got(w, "fetching", {"ok"})
  /\ base' = [base EXCEPT ![w] = call[w].base]
  /\ weights' = IF released[w] = 0 THEN [weights EXCEPT ![w] = call[w].weights] ELSE weights
  /\ Goto(w, "training") /\ Done(w)
  /\ UNCHANGED <<reg, spent, orphan, released, operator, server, faults>>

\* The envelope is checked and a new model gets the weights it carries.
Fetched(w) ==
  /\ Got(w, "fetching", {"ok"})
  /\ base' = [base EXCEPT ![w] = call[w].base]
  /\ weights' = [weights EXCEPT ![w] = call[w].weights]
  /\ Goto(w, "training") /\ Done(w)
  /\ UNCHANGED <<reg, spent, orphan, released, operator, server, faults>>

\* Mutant: the release is counted when it is protected, before it is accepted.
Train_Counts(w) ==
  /\ At(w, "training") /\ base[w] < MaxRound /\ Goto(w, "submitting") /\ Send(w, "submit")
  /\ spent' = IF w \in Private THEN [spent EXCEPT ![w] = @ + 1] ELSE spent
  /\ UNCHANGED <<reg, base, weights, orphan, released, operator, server, faults>>

\* Training, protect_model_update() and the submission.
Train(w) ==
  /\ At(w, "training") /\ base[w] < MaxRound /\ Goto(w, "submitting") /\ Send(w, "submit")
  /\ UNCHANGED <<reg, base, weights, spent, orphan, released, operator, server, faults>>

\* FAILED_PRECONDITION and ALREADY_EXISTS end the cycle without a heartbeat.
Skip(w) ==
  /\ Got(w, "submitting", {"stale", "exists"})
  /\ Goto(w, "sleeping") /\ Done(w)
  /\ UNCHANGED <<reg, base, weights, spent, orphan, released, operator, server, faults>>

Submitted(w) ==
  /\ Got(w, "submitting", {"ok"})
  /\ Goto(w, "beating") /\ Send(w, "heartbeat")
  /\ UNCHANGED <<reg, base, weights, spent, orphan, released, operator, server, faults>>

\* The heartbeat is answered and the accountant counts the release.
Beaten(w) ==
  /\ Got(w, "beating", {"ok"})
  /\ spent' = IF w \in Private THEN [spent EXCEPT ![w] = @ + 1] ELSE spent
  /\ Goto(w, "sleeping") /\ Done(w)
  /\ UNCHANGED <<reg, base, weights, orphan, released, operator, server, faults>>

\* Any other answer is raised out of main().
CycleFailed(w) ==
  /\ \/ Got(w, "fetching", {"denied", "error"})
     \/ Got(w, "submitting", {"denied", "error"})
     \/ Got(w, "beating", {"denied", "error"})
  /\ Goto(w, "down") /\ Done(w)
  /\ UNCHANGED <<reg, base, weights, spent, orphan, released, operator, server, faults>>

\* What stays behind of a call nobody waits for.
Orphaned(w) == IF call[w].kind \in {"register", "submit"} /\ call[w].result = "none"
               THEN [orphan EXCEPT ![w] = call[w]] ELSE orphan

\* The call times out: a registration is tried again, any other error is raised.
TimesOut(w) ==
  /\ call[w].kind # "none" /\ Fault
  /\ orphan' = Orphaned(w) /\ Done(w)
  /\ IF At(w, "registering") THEN Goto(w, "connecting") ELSE Goto(w, "down")
  /\ UNCHANGED <<reg, base, weights, spent, released, operator, server>>

Killed(w) ==
  /\ ~At(w, "down") /\ Fault
  /\ orphan' = Orphaned(w) /\ Done(w) /\ Goto(w, "down")
  /\ UNCHANGED <<reg, base, weights, spent, released, operator, server>>

----------------------------------------------------------------------------
(* ztfl, with the credentials of node w *)

CliBegin(w, name) ==
  /\ cli = NoCommand /\ name \in Commands \ given
  /\ given' = given \cup {name}
  /\ cli' = [name |-> name, node |-> w, step |-> "ready", reg |-> "none"]
  /\ UNCHANGED <<clients, server, faults>>

\* wait_ready(): all that diagnostics does.
CliReady ==
  /\ cli.step = "ready"
  /\ cli' = IF cli.name = "diagnostics" THEN NoCommand ELSE [cli EXCEPT !.step = "enroll"]
  /\ UNCHANGED <<clients, given, server, faults>>

\* enroll(): worker-enroll ends with it.
CliEnroll ==
  /\ cli.step = "enroll" /\ Registers(cli.node)
  /\ call' = [call EXCEPT ![cli.node].reg = Aged(@)]
  /\ orphan' = [orphan EXCEPT ![cli.node].reg = Aged(@)]
  /\ cli' = IF cli.name = "worker-enroll" THEN NoCommand
            ELSE [cli EXCEPT !.step = "read", !.reg = "current"]
  /\ UNCHANGED <<pc, base, weights, spent, released, given, faults>>

\* experiment-status: get_model() and heartbeat(), or a denied call.
CliRead ==
  /\ cli.step = "read" /\ cli' = NoCommand
  /\ UNCHANGED <<clients, given, server, faults>>

----------------------------------------------------------------------------

Serve(w) == ServeRegister(w) \/ ServeModel(w) \/ ServeSubmit(w) \/ ServeHeartbeat(w)

Run(w) ==
  \/ Start(w) \/ Connect(w) \/ Registered(w) \/ RegisterFailed(w) \/ BeginCycle(w)
  \/ Fetched(w) \/ Train(w) \/ Skip(w) \/ Submitted(w) \/ Beaten(w) \/ CycleFailed(w)

Next ==
  \/ \E w \in Workers :
       \/ Serve(w) \/ Run(w)
       \/ ServeError(w) \/ ServeOrphan(w) \/ LeaseExpires(w)
       \/ ConnectFails(w) \/ TimesOut(w) \/ Killed(w)
       \/ \E name \in Commands : CliBegin(w, name)
  \/ CliReady \/ CliEnroll \/ CliRead

Spec == Init /\ [][Next]_vars

\* The coordinator answers, a worker goes on, and its supervisor restarts it.
FairSpec == Spec /\ \A w \in Workers : WF_vars(Serve(w)) /\ WF_vars(Run(w))

----------------------------------------------------------------------------
(* Properties *)

\* "The network worker advances its RDP accountant only after the coordinator
\* accepts the release" (docs/privacy-rdp-ckks.md): between two cycles the
\* accountant of a process has counted exactly its accepted releases, and never
\* more than those, although submissions are skipped, lost and repeated.
AccountantIsExact ==
  \A w \in Workers :
    /\ spent[w] <= released[w]
    /\ pc[w] = "sleeping" /\ w \in Private => spent[w] = released[w]

\* An update is a difference to the weights a worker trained on, and is added to
\* the coordinator's model: every pending update was trained on the current weights,
\* and those that made the current model on the weights they were added to.  The
\* coordinator compares only the round and version a request claims; rounds end
\* between fetch and submission, and requests of dead workers are executed late.
TrainedOnCurrent ==
  /\ \A w \in pending : held[w] = round
  /\ \A b \in learned : b = round - 1

\* A node contributes to a round at most once, although its worker does not learn
\* of lost answers, restarts and submits again.
OncePerRound == \A w \in Workers : accepts[w] <= 1

\* Rounds go on: with finitely many faults and operator commands the workers
\* complete every round, those that were denied, skipped or killed included.
RoundsGoOn == <>(round = MaxRound)

=============================================================================
