--------------------------- MODULE WorkerCycleProofs ---------------------------
(***************************************************************************)
(* For any number of workers, quorum, rounds and faults: the accountant of *)
(* a worker process is exact, a node contributes to a round at most once,  *)
(* and every update was trained on the weights it is added to.             *)
(*                                                                         *)
(* AccountantIsExact is not inductive: between the acceptance of an update *)
(* and the answer to the heartbeat a release is accepted and not yet       *)
(* counted.  IInv says when exactly that is the case, and which call a     *)
(* process waits for in each of its steps.  TrainedOnCurrent needs that    *)
(* what a worker claims for its update is what it trained on, in its       *)
(* state, in its call and in a request it left behind: the coordinator     *)
(* compares the claim only.                                                *)
(***************************************************************************)
EXTENDS WorkerCycle, TLAPS

\* Most leaves are first-order; the others cite SMT.
USE Zenon

Steps == {"down", "connecting", "registering", "sleeping", "fetching", "training",
          "submitting", "beating"}
Ids == {"none", "current", "old"}
Kinds == {"none", "register", "model", "submit", "heartbeat"}
Results == {"none", "ok", "denied", "stale", "exists", "error"}
Calls == [kind : Kinds, reg : Ids, base : Nat, weights : Nat, result : Results]

Types ==
  /\ pc \in [Workers -> Steps]
  /\ reg \in [Workers -> Ids]
  /\ base \in [Workers -> Nat]
  /\ weights \in [Workers -> Nat]
  /\ spent \in [Workers -> Nat]
  /\ released \in [Workers -> Nat]
  /\ accepts \in [Workers -> Nat]
  /\ held \in [Workers -> Nat]
  /\ pending \subseteq Workers
  /\ call \in [Workers -> Calls]
  /\ round \in Nat

\* A command that has begun acts for a worker.
CommandOfWorker ==
  /\ cli \in [name : Commands \cup {"none"}, node : Workers \cup {"none"},
              step : {"none", "ready", "enroll", "read"}, reg : Ids]
  /\ cli.step # "none" => cli.node \in Workers

\* The call a process waits for.
Awaited(step) ==
  IF step = "registering" THEN "register"
  ELSE IF step = "fetching" THEN "model"
  ELSE IF step = "submitting" THEN "submit"
  ELSE IF step = "beating" THEN "heartbeat" ELSE "none"

\* Releases of the process that are accepted and not yet counted.
Owed(w) == IF pc[w] = "beating" \/ (pc[w] = "submitting" /\ call[w].result = "ok") THEN 1 ELSE 0

Account(w) ==
  /\ call[w].kind = Awaited(pc[w])
  /\ spent[w] <= released[w]
  /\ pc[w] # "down" /\ w \in Private => released[w] = spent[w] + Owed(w)

Counted(w) == accepts[w] = IF w \in pending THEN 1 ELSE 0

\* What a message claims is what it carries.
Honest(c) == c.weights = c.base

Matched(w) == weights[w] = base[w] /\ Honest(call[w]) /\ Honest(orphan[w])

IInv ==
  /\ Types
  /\ CommandOfWorker
  /\ orphan \in [Workers -> Calls]
  /\ TrainedOnCurrent
  /\ \A w \in Workers : Matched(w)
  /\ \A w \in Workers : Account(w)
  /\ \A w \in Workers : Counted(w)

\* The state in which coordinator, workers and commands begin.
LEMMA InitIInv == Init => IInv
<1> SUFFICES ASSUME Init PROVE IInv
  OBVIOUS
<1>1. Idle \in Calls
  BY DEF Idle, Calls, Kinds, Ids, Results
<1>2. Types /\ orphan \in [Workers -> Calls]
  BY <1>1, SMT DEF Init, Types, Steps, Ids
<1>3. TrainedOnCurrent /\ \A w \in Workers : Matched(w)
  BY DEF Init, TrainedOnCurrent, Matched, Honest, Idle
<1>4. CommandOfWorker
  BY DEF Init, CommandOfWorker, NoCommand, Ids
<1>5. \A w \in Workers : Account(w) /\ Counted(w)
  BY SMT DEF Init, Account, Counted, Awaited, Owed, Idle
<1> QED BY <1>2, <1>3, <1>4, <1>5 DEF IInv

\* The changes of one call that the actions make.
LEMMA CallChanges ==
  ASSUME NEW c \in Calls, NEW r \in Ids, NEW b \in Nat, NEW x \in Results
  PROVE  /\ [c EXCEPT !.result = x] \in Calls
         /\ [c EXCEPT !.reg = r] \in Calls
         /\ [c EXCEPT !.result = x, !.reg = r] \in Calls
         /\ [c EXCEPT !.result = x, !.base = b, !.weights = b] \in Calls
BY DEF Calls

\* A call that is issued is well typed.
LEMMA NewCalls ==
  ASSUME NEW k \in Kinds, NEW r \in Ids, NEW b \in Nat, NEW x \in Nat
  PROVE  Request(k, r, b, x) \in Calls /\ Idle \in Calls
BY DEF Calls, Kinds, Ids, Results, Request, Idle

\* A call whose registration has been replaced stays well typed.
LEMMA AgedCall ==
  ASSUME Types, NEW w \in Workers, call' = [call EXCEPT ![w].reg = Aged(@)]
  PROVE  call' \in [Workers -> Calls]
<1>1. call[w] \in Calls /\ call[w].reg \in Ids
  BY DEF Types, Calls
<1>2. Aged(call[w].reg) \in Ids
  BY <1>1 DEF Aged, Ids
<1>3. [call[w] EXCEPT !.reg = Aged(call[w].reg)] \in Calls
  <2>1. 0 \in Nat /\ "none" \in Results
    BY DEF Results
  <2> QED BY <1>1, <1>2, <2>1, CallChanges
<1> QED BY <1>3 DEF Types

\* A call that gets its answer stays well typed.
LEMMA AnsweredCall ==
  ASSUME Types, NEW w \in Workers, NEW x \in Results, Answer(w, x)
  PROVE  call' \in [Workers -> Calls]
<1>1. call[w] \in Calls
  BY DEF Types
<1>2. 0 \in Nat /\ "none" \in Ids
  BY DEF Ids
<1>3. [call[w] EXCEPT !.result = x] \in Calls
  BY <1>1, <1>2, CallChanges
<1> QED BY <1>3 DEF Types, Answer

\* A call put in the place of another is well typed.
LEMMA SentCall ==
  ASSUME Types, NEW w \in Workers, NEW k \in Kinds, Send(w, k) \/ Done(w)
  PROVE  call' \in [Workers -> Calls]
<1>1. reg[w] \in Ids /\ base[w] \in Nat /\ weights[w] \in Nat
  BY DEF Types
<1>2. Request(k, reg[w], base[w], weights[w]) \in Calls /\ Idle \in Calls
  BY <1>1, NewCalls
<1> QED BY <1>2 DEF Types, Send, Done

\* What is left of the types once the calls are done.
Rest ==
  /\ pc \in [Workers -> Steps]
  /\ reg \in [Workers -> Ids]
  /\ base \in [Workers -> Nat]
  /\ weights \in [Workers -> Nat]
  /\ spent \in [Workers -> Nat]
  /\ released \in [Workers -> Nat]
  /\ accepts \in [Workers -> Nat]
  /\ held \in [Workers -> Nat]
  /\ pending \subseteq Workers
  /\ round \in Nat

\* A registration keeps the other types, whoever asks for it.
LEMMA RegistersRest ==
  ASSUME Types, NEW w \in Workers, Registers(w), UNCHANGED <<pc, base, weights, spent, released>>
  PROVE  Rest'
BY DEF Types, Rest, Registers, Aged, Ids

\* The acceptance of an update keeps its types.
LEMMA AcceptsRest ==
  ASSUME Types, NEW w \in Workers, NEW STATE r, r \in Calls, Accepts(w, r)
  PROVE  /\ accepts' \in [Workers -> Nat] /\ round' \in Nat
         /\ held' \in [Workers -> Nat] /\ pending' \subseteq Workers
<1>1. r.weights \in Nat
  BY DEF Calls
<1>2. pending' \subseteq Workers
  BY DEF Types, Accepts
<1>3. accepts' \in [Workers -> Nat] /\ round' \in Nat
  BY SMT DEF Types, Accepts
<1>4. held' \in [Workers -> Nat]
  BY <1>1, SMT DEF Types, Accepts
<1> QED BY <1>2, <1>3, <1>4

\* Every step keeps the types.
LEMMA TypesHold == IInv /\ [Next]_vars => Types'
<1> SUFFICES ASSUME IInv, [Next]_vars PROVE Types'
  OBVIOUS
<1>0. Types
  BY DEF IInv
<1>1. SUFFICES Rest' /\ call' \in [Workers -> Calls]
  BY DEF Types, Rest
<1>2. ASSUME NEW w \in Workers, ServeRegister(w) PROVE Rest' /\ call' \in [Workers -> Calls]
  <2>1. Rest'
    BY <1>0, <1>2, RegistersRest DEF ServeRegister
  <2>2. [call[w] EXCEPT !.result = "ok", !.reg = "current"] \in Calls
    BY <1>0, CallChanges DEF Types, Results, Ids
  <2>3. call' \in [Workers -> Calls]
    BY <1>0, <1>2, <2>2 DEF Types, ServeRegister
  <2> QED BY <2>1, <2>3
<1>3. ASSUME NEW w \in Workers, ServeModel(w) PROVE Rest' /\ call' \in [Workers -> Calls]
  <2> DEFINE x == IF Authorized(w, call[w].reg) THEN "ok" ELSE "denied"
  <2>1. x \in Results
    BY DEF Results
  <2> HIDE DEF x
  <2>2. [call[w] EXCEPT !.result = x, !.base = round, !.weights = round] \in Calls
    <3>1. "none" \in Ids
      BY DEF Ids
    <3> QED BY <1>0, <2>1, <3>1, CallChanges DEF Types
  <2>3. call' = [call EXCEPT ![w].result = x, ![w].base = round, ![w].weights = round]
    BY <1>3 DEF ServeModel, x
  <2>4. call' \in [Workers -> Calls]
    BY <1>0, <2>2, <2>3 DEF Types
  <2> QED BY <1>0, <1>3, <2>4 DEF Types, Rest, ServeModel, server
<1>4. ASSUME NEW w \in Workers, ServeSubmit(w) PROVE Rest' /\ call' \in [Workers -> Calls]
  <2>1. Verdict(w, call[w]) \in Results
    BY DEF Verdict, Results
  <2>2. call' \in [Workers -> Calls]
    BY <1>0, <1>4, <2>1, AnsweredCall DEF ServeSubmit
  <2>3. /\ accepts' \in [Workers -> Nat] /\ round' \in Nat
        /\ held' \in [Workers -> Nat] /\ pending' \subseteq Workers
    BY <1>0, <1>4, AcceptsRest DEF Types, ServeSubmit, server
  <2>4. released' \in [Workers -> Nat]
    BY <1>0, <1>4, SMT DEF Types, ServeSubmit
  <2> QED BY <1>0, <1>4, <2>2, <2>3, <2>4 DEF Types, Rest, ServeSubmit
<1>5. ASSUME NEW w \in Workers, ServeHeartbeat(w) \/ ServeError(w)
      PROVE Rest' /\ call' \in [Workers -> Calls]
  <2>1. {"ok", "denied", "error"} \subseteq Results
    BY DEF Results
  <2>2. call' \in [Workers -> Calls]
    BY <1>0, <1>5, <2>1, AnsweredCall DEF ServeHeartbeat, ServeError
  <2> QED BY <1>0, <1>5, <2>2 DEF Types, Rest, ServeHeartbeat, ServeError, server
<1>6. ASSUME NEW w \in Workers, ServeOrphan(w) PROVE Rest' /\ call' \in [Workers -> Calls]
  <2>1. CASE Registers(w) /\ call' = [call EXCEPT ![w].reg = Aged(@)]
    BY <1>0, <1>6, <2>1, RegistersRest, AgedCall DEF ServeOrphan
  <2>2. CASE Accepts(w, orphan[w]) /\ UNCHANGED <<reg, call>>
    <3>1. orphan[w] \in Calls
      BY DEF IInv
    <3> QED BY <1>0, <1>6, <2>2, <3>1, AcceptsRest DEF Types, Rest, ServeOrphan
  <2>3. CASE UNCHANGED <<server, reg, call>>
    BY <1>0, <1>6, <2>3 DEF Types, Rest, ServeOrphan, server
  <2> QED BY <1>6, <2>1, <2>2, <2>3 DEF ServeOrphan
<1>7. ASSUME NEW w \in Workers,
             \/ Start(w) \/ Connect(w) \/ RegisterFailed(w) \/ BeginCycle(w) \/ Train(w)
             \/ Skip(w) \/ Submitted(w) \/ Beaten(w) \/ CycleFailed(w) \/ ConnectFails(w)
             \/ TimesOut(w) \/ Killed(w) \/ LeaseExpires(w)
      PROVE Rest' /\ call' \in [Workers -> Calls]
  <2>1. {"none", "register", "model", "submit", "heartbeat"} \subseteq Kinds
    BY DEF Kinds
  <2>2. \/ UNCHANGED call \/ Done(w)
        \/ \E k \in {"register", "model", "submit", "heartbeat"} : Send(w, k)
    BY <1>7 DEF Start, Connect, RegisterFailed, BeginCycle, Train, Skip, Submitted, Beaten,
                CycleFailed, ConnectFails, TimesOut, Killed, LeaseExpires, clients
  <2>3. call' \in [Workers -> Calls]
    BY <1>0, <2>1, <2>2, SentCall DEF Types
  <2>4. pc' \in [Workers -> Steps]
    BY <1>0, <1>7 DEF Types, Steps, Goto, Start, Connect, RegisterFailed, BeginCycle, Train, Skip,
                      Submitted, Beaten, CycleFailed, ConnectFails, TimesOut, Killed,
                      LeaseExpires, clients
  <2>5. reg' \in [Workers -> Ids] /\ base' \in [Workers -> Nat] /\ weights' \in [Workers -> Nat]
    BY <1>0, <1>7, SMT DEF Types, Ids, Start, Connect, RegisterFailed, BeginCycle, Train, Skip,
                      Submitted, Beaten, CycleFailed, ConnectFails, TimesOut, Killed,
                      LeaseExpires, clients
  <2>6. spent' \in [Workers -> Nat] /\ released' \in [Workers -> Nat]
    BY <1>0, <1>7, SMT DEF Types, Start, Connect, RegisterFailed, BeginCycle, Train, Skip,
                      Submitted, Beaten, CycleFailed, ConnectFails, TimesOut, Killed,
                      LeaseExpires, clients
  <2>7. UNCHANGED <<accepts, held, pending, round>>
    BY <1>7 DEF Start, Connect, RegisterFailed, BeginCycle, Train, Skip, Submitted, Beaten,
                CycleFailed, ConnectFails, TimesOut, Killed, LeaseExpires, server
  <2> QED BY <1>0, <2>3, <2>4, <2>5, <2>6, <2>7 DEF Types, Rest
<1>8. ASSUME NEW w \in Workers, Registered(w) \/ Fetched(w)
      PROVE Rest' /\ call' \in [Workers -> Calls]
  <2>1. call[w].reg \in Ids /\ call[w].base \in Nat /\ call[w].weights \in Nat
    BY <1>0 DEF Types, Calls
  <2>2. "none" \in Kinds
    BY DEF Kinds
  <2>3. call' \in [Workers -> Calls]
    BY <1>0, <1>8, <2>2, SentCall DEF Registered, Fetched
  <2> QED BY <1>0, <1>8, <2>1, <2>3 DEF Types, Rest, Steps, Registered, Fetched, Goto, server
<1>9. ASSUME \/ CliReady \/ CliRead \/ UNCHANGED vars
             \/ \E w \in Workers, name \in Commands : CliBegin(w, name)
      PROVE Rest' /\ call' \in [Workers -> Calls]
  BY <1>0, <1>9 DEF Types, Rest, CliBegin, CliReady, CliRead, vars, clients, server
<1>10. CASE CliEnroll
  <2> DEFINE n == cli.node
  <2>1. n \in Workers
    BY <1>10 DEF CliEnroll, IInv, CommandOfWorker
  <2>2. Registers(n) /\ call' = [call EXCEPT ![n].reg = Aged(@)] /\ UNCHANGED <<pc, base, weights, spent, released>>
    BY <1>10 DEF CliEnroll
  <2> HIDE DEF n
  <2> QED BY <1>0, <2>1, <2>2, RegistersRest, AgedCall
<1> QED BY <1>2, <1>3, <1>4, <1>5, <1>6, <1>7, <1>8, <1>9, <1>10 DEF Next, Serve, Run

\* Every step keeps a begun command bound to its worker.
LEMMA CommandHolds == IInv /\ [Next]_vars => CommandOfWorker'
<1> SUFFICES ASSUME IInv, [Next]_vars PROVE CommandOfWorker'
  OBVIOUS
<1>1. ASSUME cli' = cli PROVE CommandOfWorker'
  BY <1>1 DEF IInv, CommandOfWorker
<1>2. ASSUME NEW w \in Workers, cli' = IF cli.node = w THEN [cli EXCEPT !.reg = Aged(@)] ELSE cli
      PROVE CommandOfWorker'
  BY <1>2 DEF IInv, CommandOfWorker, Aged, Ids
<1>3. ASSUME NEW w \in Workers, Serve(w) PROVE CommandOfWorker'
  BY <1>1, <1>2, <1>3 DEF Serve, ServeRegister, ServeModel, ServeSubmit, ServeHeartbeat, operator
<1>4. ASSUME NEW w \in Workers, ServeOrphan(w) PROVE CommandOfWorker'
  BY <1>1, <1>2, <1>4 DEF ServeOrphan
<1>5. ASSUME NEW w \in Workers,
             \/ Run(w) \/ ServeError(w) \/ LeaseExpires(w) \/ ConnectFails(w)
             \/ TimesOut(w) \/ Killed(w)
      PROVE CommandOfWorker'
  BY <1>1, <1>5 DEF Run, Start, Connect, Registered, RegisterFailed, BeginCycle, Fetched, Train,
                    Skip, Submitted, Beaten, CycleFailed, ServeError, LeaseExpires, ConnectFails,
                    TimesOut, Killed, operator
<1>6. ASSUME NEW w \in Workers, NEW name \in Commands, CliBegin(w, name) PROVE CommandOfWorker'
  BY <1>6 DEF CliBegin, CommandOfWorker, Ids
<1>7. CASE CliReady \/ CliRead
  BY <1>7, SMT DEF CliReady, CliRead, NoCommand, IInv, CommandOfWorker, Aged, Ids
<1>8. CASE CliEnroll
  BY <1>8 DEF CliEnroll, NoCommand, IInv, CommandOfWorker, Aged, Ids
<1>9. CASE UNCHANGED vars
  BY <1>1, <1>9 DEF vars
<1> QED BY <1>3, <1>4, <1>5, <1>6, <1>7, <1>8, <1>9 DEF Next

\* One worker's account, step by step.
LEMMA AccountsHold == IInv /\ [Next]_vars => \A v \in Workers : Account(v)'
<1> SUFFICES ASSUME IInv, [Next]_vars, NEW v \in Workers PROVE Account(v)'
  OBVIOUS
<1>0. /\ pc \in [Workers -> Steps] /\ call \in [Workers -> Calls]
      /\ spent \in [Workers -> Nat] /\ released \in [Workers -> Nat]
      /\ \A w \in Workers : Account(w)
  BY DEF IInv, Types
<1>c. CommandOfWorker
  BY DEF IInv
<1> USE <1>0 DEF Steps, Calls, Account, Owed, Awaited
<1>1. ASSUME NEW w \in Workers, Serve(w) PROVE Account(v)'
  <2>1. CASE ServeRegister(w)
    BY <2>1, SMT DEF ServeRegister, Registers, Waiting
  <2>2. CASE ServeModel(w)
    BY <2>2, SMT DEF ServeModel, Waiting, operator, server
  <2>3. CASE ServeSubmit(w)
    BY <2>3, SMT DEF ServeSubmit, Waiting, Answer, operator, server
  <2>4. CASE ServeHeartbeat(w)
    BY <2>4 DEF ServeHeartbeat, Waiting, Answer, operator, server
  <2> QED BY <1>1, <2>1, <2>2, <2>3, <2>4 DEF Serve
<1>2. ASSUME NEW w \in Workers, Run(w) PROVE Account(v)'
  <2> USE DEF At, Got, Goto, Send, Done, Request, Idle
  <2>1. CASE Start(w)
    BY <2>1, SMT DEF Start
  <2>2. CASE Connect(w) \/ Registered(w) \/ RegisterFailed(w) \/ BeginCycle(w)
    BY <2>2, SMT DEF Connect, Registered, RegisterFailed, BeginCycle
  <2>3. CASE Fetched(w) \/ Train(w)
    BY <2>3, SMT DEF Fetched, Train
  <2>4. CASE Skip(w) \/ Submitted(w)
    BY <2>4, SMT DEF Skip, Submitted
  <2>5. CASE Beaten(w)
    BY <2>5, SMT DEF Beaten
  <2>6. CASE CycleFailed(w)
    BY <2>6 DEF CycleFailed
  <2> QED BY <1>2, <2>1, <2>2, <2>3, <2>4, <2>5, <2>6 DEF Run
<1>3. ASSUME NEW w \in Workers, ServeError(w) \/ LeaseExpires(w) PROVE Account(v)'
  BY <1>3, SMT DEF ServeError, LeaseExpires, Answer, clients, operator, server
<1>4. ASSUME NEW w \in Workers, ConnectFails(w) \/ TimesOut(w) \/ Killed(w) PROVE Account(v)'
  BY <1>4, SMT DEF ConnectFails, TimesOut, Killed, At, Goto, Done, Idle
<1>5. ASSUME NEW w \in Workers, ServeOrphan(w) PROVE Account(v)'
  BY <1>5, SMT DEF ServeOrphan, Registers
<1>6. ASSUME NEW w \in Workers, NEW name \in Commands, CliBegin(w, name) PROVE Account(v)'
  BY <1>6 DEF CliBegin, clients
<1>7. CASE CliReady \/ CliRead
  BY <1>7 DEF CliReady, CliRead, clients
<1>8. CASE CliEnroll
  <2> DEFINE n == cli.node
  <2>1. n \in Workers /\ call' = [call EXCEPT ![n].reg = Aged(@)]
    BY <1>c, <1>8 DEF CliEnroll, CommandOfWorker
  <2> HIDE DEF n
  <2>2. call'[v].kind = call[v].kind /\ call'[v].result = call[v].result
    BY <2>1, SMT
  <2> QED BY <1>8, <2>2 DEF CliEnroll
<1>9. CASE UNCHANGED vars
  BY <1>9 DEF vars
<1> QED BY <1>1, <1>2, <1>3, <1>4, <1>5, <1>6, <1>7, <1>8, <1>9 DEF Next

(***************************************************************************)
(* Claims.  A step changes the messages and the model of one worker at     *)
(* most, in one of a few ways, and none of them separates a claim from     *)
(* what it is about.                                                       *)
(***************************************************************************)

CallStep(w) ==
  \/ UNCHANGED call \/ Done(w)
  \/ \E kind \in Kinds : Send(w, kind)
  \/ \E x \in Results : Answer(w, x)
  \/ call' = [call EXCEPT ![w].result = "ok", ![w].reg = "current"]
  \/ call' = [call EXCEPT ![w].reg = Aged(@)]
  \/ \E x \in Results : call' = [call EXCEPT ![w].result = x, ![w].base = round, ![w].weights = round]

OrphanStep(w) ==
  \/ UNCHANGED orphan
  \/ orphan' = [orphan EXCEPT ![w] = call[w]]
  \/ orphan' = [orphan EXCEPT ![w] = Idle]
  \/ orphan' = [orphan EXCEPT ![w].reg = Aged(@)]

LoadStep(w) ==
  \/ UNCHANGED <<base, weights>>
  \/ base' = [base EXCEPT ![w] = 0] /\ weights' = [weights EXCEPT ![w] = 0]
  \/ base' = [base EXCEPT ![w] = call[w].base] /\ weights' = [weights EXCEPT ![w] = call[w].weights]

WorkerStep(w) == CallStep(w) /\ OrphanStep(w) /\ LoadStep(w)

\* The actions, by what they do to the messages.
LEMMA StepsOfWorkers ==
  ASSUME IInv, [Next]_vars
  PROVE  UNCHANGED <<call, orphan, base, weights>> \/ \E w \in Workers : WorkerStep(w)
<1> USE DEF WorkerStep
<1>1. {"none", "register", "model", "submit", "heartbeat"} \subseteq Kinds
  BY DEF Kinds
<1>2. {"ok", "denied", "stale", "exists", "error"} \subseteq Results
  BY DEF Results
<1>3. ASSUME NEW w \in Workers, Serve(w) \/ ServeError(w) PROVE WorkerStep(w)
  <2>1. UNCHANGED <<base, weights>>
    BY <1>3 DEF Serve, ServeRegister, ServeModel, ServeSubmit, ServeHeartbeat, ServeError
  <2>2. OrphanStep(w)
    BY <1>3 DEF Serve, ServeRegister, ServeModel, ServeSubmit, ServeHeartbeat, ServeError, OrphanStep
  <2>3. CallStep(w)
    <3>1. CASE ServeRegister(w)
      BY <3>1 DEF ServeRegister, CallStep
    <3>2. CASE ServeModel(w)
      BY <1>2, <3>2 DEF ServeModel, CallStep
    <3>3. CASE ServeSubmit(w)
      BY <1>2, <3>3 DEF ServeSubmit, CallStep, Verdict
    <3>4. CASE ServeHeartbeat(w) \/ ServeError(w)
      BY <1>2, <3>4 DEF ServeHeartbeat, ServeError, CallStep
    <3> QED BY <1>3, <3>1, <3>2, <3>3, <3>4 DEF Serve
  <2> QED BY <2>1, <2>2, <2>3 DEF LoadStep
<1>4. ASSUME NEW w \in Workers, ServeOrphan(w) PROVE WorkerStep(w)
  BY <1>4 DEF ServeOrphan, CallStep, OrphanStep, LoadStep
<1>5. ASSUME NEW w \in Workers, Run(w) PROVE WorkerStep(w)
  <2>1. UNCHANGED orphan
    BY <1>5 DEF Run, Start, Connect, Registered, RegisterFailed, BeginCycle, Fetched, Train, Skip,
                Submitted, Beaten, CycleFailed
  <2>2. UNCHANGED call \/ Done(w) \/ \E kind \in Kinds : Send(w, kind)
    BY <1>1, <1>5 DEF Run, Start, Connect, Registered, RegisterFailed, BeginCycle, Fetched, Train,
                Skip, Submitted, Beaten, CycleFailed
  <2>3. LoadStep(w)
    BY <1>5 DEF Run, Start, Connect, Registered, RegisterFailed, BeginCycle, Fetched, Train, Skip,
                Submitted, Beaten, CycleFailed, LoadStep
  <2> QED BY <2>1, <2>2, <2>3 DEF CallStep, OrphanStep
<1>6. ASSUME NEW w \in Workers, ConnectFails(w) \/ TimesOut(w) \/ Killed(w) PROVE WorkerStep(w)
  BY <1>6 DEF ConnectFails, TimesOut, Killed, Orphaned, CallStep, OrphanStep, LoadStep
<1>7. CASE CliEnroll
  <2>1. PICK w \in Workers : w = cli.node
    BY <1>7 DEF CliEnroll, IInv, CommandOfWorker
  <2>2. /\ call' = [call EXCEPT ![w].reg = Aged(@)] /\ orphan' = [orphan EXCEPT ![w].reg = Aged(@)]
        /\ UNCHANGED <<base, weights>>
    BY <1>7, <2>1 DEF CliEnroll
  <2> QED BY <2>2 DEF CallStep, OrphanStep, LoadStep
<1>8. ASSUME \/ CliReady \/ CliRead \/ UNCHANGED vars
             \/ \E w \in Workers : LeaseExpires(w) \/ \E name \in Commands : CliBegin(w, name)
      PROVE  UNCHANGED <<call, orphan, base, weights>>
  BY <1>8 DEF CliBegin, CliReady, CliRead, LeaseExpires, vars, clients
<1> HIDE DEF WorkerStep
<1> QED BY <1>3, <1>4, <1>5, <1>6, <1>7, <1>8 DEF Next

\* Every step keeps the requests left behind well typed.
LEMMA OrphansTyped == IInv /\ [Next]_vars => orphan' \in [Workers -> Calls]
<1> SUFFICES ASSUME IInv, [Next]_vars PROVE orphan' \in [Workers -> Calls]
  OBVIOUS
<1>1. orphan \in [Workers -> Calls] /\ call \in [Workers -> Calls]
  BY DEF IInv, Types
<1>2. ASSUME NEW w \in Workers, OrphanStep(w) PROVE orphan' \in [Workers -> Calls]
  <2>1. Idle \in Calls
    BY DEF Idle, Calls, Kinds, Ids, Results
  <2>2. orphan[w] \in Calls /\ Aged(orphan[w].reg) \in Ids
    BY <1>1 DEF Calls, Aged, Ids
  <2>3. [orphan[w] EXCEPT !.reg = Aged(orphan[w].reg)] \in Calls
    BY <2>2 DEF Calls
  <2> QED BY <1>1, <1>2, <2>1, <2>3 DEF OrphanStep
<1> QED BY <1>1, <1>2, StepsOfWorkers DEF WorkerStep

\* Every step keeps the claims matched.
LEMMA MatchedHolds == IInv /\ [Next]_vars => \A v \in Workers : Matched(v)'
<1> SUFFICES ASSUME IInv, [Next]_vars, NEW v \in Workers PROVE Matched(v)'
  OBVIOUS
<1>1. Matched(v) /\ call \in [Workers -> Calls] /\ orphan \in [Workers -> Calls]
  BY DEF IInv, Types
<1>2. CASE UNCHANGED <<call, orphan, base, weights>>
  BY <1>1, <1>2 DEF Matched
<1>3. ASSUME NEW w \in Workers, WorkerStep(w) PROVE Matched(v)'
  <2>1. Matched(w)
    BY DEF IInv
  <2>2. weights'[v] = base'[v]
    BY <1>1, <1>3, <2>1, SMT DEF WorkerStep, LoadStep, Matched, Honest, IInv, Types
  <2>3. Honest(Idle) /\ \A kind : Honest(Request(kind, reg[w], base[w], weights[w]))
    BY <2>1, SMT DEF Honest, Idle, Request, Matched
  <2>4. Honest(orphan'[v])
    <3>1. CASE v # w
      BY <1>1, <1>3, <3>1 DEF WorkerStep, OrphanStep, Matched
    <3>2. CASE v = w
      <4>1. Honest([orphan[w] EXCEPT !.reg = Aged(orphan[w].reg)])
        BY <1>1, <2>1, SMT DEF Matched, Honest, Calls
      <4> QED BY <1>1, <1>3, <2>1, <2>3, <3>2, <4>1 DEF WorkerStep, OrphanStep, Matched
    <3> QED BY <3>1, <3>2
  <2>5. Honest(call'[v])
    <3>1. CASE v # w
      BY <1>1, <1>3, <3>1 DEF WorkerStep, CallStep, Matched, Done, Send, Answer
    <3>2. CASE v = w
      <4>1. call[w] \in Calls /\ Honest(call[w])
        BY <1>1, <2>1 DEF Matched
      <4>2. CASE UNCHANGED call \/ Done(w) \/ \E kind \in Kinds : Send(w, kind)
        BY <1>1, <2>3, <3>2, <4>1, <4>2 DEF Done, Send
      <4>3. ASSUME NEW x \in Results, Answer(w, x) PROVE Honest(call'[w])
        <5>1. call'[w] = [call[w] EXCEPT !.result = x]
          BY <1>1, <4>3 DEF Answer
        <5> QED BY <4>1, <5>1, SMT DEF Honest, Calls
      <4>4. CASE call' = [call EXCEPT ![w].result = "ok", ![w].reg = "current"]
        <5>1. call'[w] = [call[w] EXCEPT !.result = "ok", !.reg = "current"]
          BY <1>1, <4>4
        <5> QED BY <3>2, <4>1, <5>1, SMT DEF Honest, Calls
      <4>5. CASE call' = [call EXCEPT ![w].reg = Aged(@)]
        <5>1. call'[w] = [call[w] EXCEPT !.reg = Aged(call[w].reg)]
          BY <1>1, <4>5
        <5> QED BY <3>2, <4>1, <5>1, SMT DEF Honest, Calls
      <4>6. ASSUME NEW x \in Results,
                   call' = [call EXCEPT ![w].result = x, ![w].base = round, ![w].weights = round]
            PROVE  Honest(call'[w])
        <5>1. call'[w] = [call[w] EXCEPT !.result = x, !.base = round, !.weights = round]
          BY <1>1, <4>6
        <5> QED BY <4>1, <5>1, SMT DEF Honest, Calls
      <4> QED BY <1>3, <3>2, <4>2, <4>3, <4>4, <4>5, <4>6 DEF WorkerStep, CallStep
    <3> QED BY <3>1, <3>2
  <2> QED BY <2>2, <2>4, <2>5 DEF Matched
<1> QED BY <1>2, <1>3, StepsOfWorkers

(***************************************************************************)
(* The coordinator's pending updates.                                      *)
(***************************************************************************)

\* An update is accepted in its own round, from a worker without a pending one.
LEMMA AcceptsOnce ==
  ASSUME IInv, NEW w \in Workers, NEW STATE r, Verdict(w, r) = "ok", Accepts(w, r), Honest(r)
  PROVE  TrainedOnCurrent' /\ \A v \in Workers : Counted(v)'
<1>1. r.base = round /\ r.weights = round /\ w \notin pending
  BY DEF Verdict, Honest
<1>2. \/ /\ pending' = {} /\ accepts' = [v \in Workers |-> 0] /\ round' = round + 1
         /\ learned' = {r.weights} \cup {held[v] : v \in pending \ {w}}
      \/ /\ pending' = pending \cup {w} /\ accepts' = [accepts EXCEPT ![w] = @ + 1]
         /\ round' = round /\ learned' = learned /\ held' = [held EXCEPT ![w] = r.weights]
  BY DEF Accepts
<1>3. TrainedOnCurrent'
  <2>1. CASE /\ pending' = {} /\ round' = round + 1
             /\ learned' = {r.weights} \cup {held[v] : v \in pending \ {w}}
    <3>1. \A b \in learned' : b = round
      BY <1>1, <2>1 DEF IInv, TrainedOnCurrent
    <3>2. \A b \in learned' : b = round' - 1
      BY <2>1, <3>1, SMT DEF IInv, Types
    <3> QED BY <2>1, <3>2 DEF TrainedOnCurrent
  <2>2. CASE /\ pending' = pending \cup {w} /\ round' = round /\ learned' = learned
             /\ held' = [held EXCEPT ![w] = r.weights]
    BY <1>1, <2>2 DEF IInv, Types, TrainedOnCurrent
  <2> QED BY <1>2, <2>1, <2>2
<1>4. ASSUME NEW v \in Workers PROVE Counted(v)'
  BY <1>1, <1>2, SMT DEF IInv, Types, Counted
<1> QED BY <1>3, <1>4

\* Every step keeps the pending updates current and counted.
LEMMA CountsHold == IInv /\ [Next]_vars => TrainedOnCurrent' /\ \A v \in Workers : Counted(v)'
<1> SUFFICES ASSUME IInv, [Next]_vars PROVE TrainedOnCurrent' /\ \A v \in Workers : Counted(v)'
  OBVIOUS
<1> DEFINE counters == <<round, pending, accepts, held, learned>>
<1>1. CASE UNCHANGED counters
  BY <1>1 DEF IInv, Counted, TrainedOnCurrent
<1>2. ASSUME NEW w \in Workers, ServeSubmit(w)
      PROVE  TrainedOnCurrent' /\ \A v \in Workers : Counted(v)'
  <2>1. Honest(call[w])
    BY DEF IInv, Matched
  <2> QED BY <1>1, <1>2, <2>1, AcceptsOnce DEF ServeSubmit, server
<1>3. ASSUME NEW w \in Workers, ServeOrphan(w)
      PROVE  TrainedOnCurrent' /\ \A v \in Workers : Counted(v)'
  <2>1. Honest(orphan[w])
    BY DEF IInv, Matched
  <2> QED BY <1>1, <1>3, <2>1, AcceptsOnce DEF ServeOrphan, Registers, server
<1>4. ASSUME NEW w \in Workers, Serve(w) \/ Run(w), ~ServeSubmit(w)
      PROVE UNCHANGED counters
  BY <1>4 DEF Serve, ServeRegister, ServeModel, ServeHeartbeat, Registers, Run, Start, Connect,
              Registered, RegisterFailed, BeginCycle, Fetched, Train, Skip, Submitted, Beaten,
              CycleFailed, server
<1>5. ASSUME NEW w \in Workers,
             \/ ServeError(w) \/ LeaseExpires(w) \/ ConnectFails(w) \/ TimesOut(w) \/ Killed(w)
             \/ \E name \in Commands : CliBegin(w, name)
      PROVE UNCHANGED counters
  BY <1>5 DEF ServeError, LeaseExpires, ConnectFails, TimesOut, Killed, CliBegin, server
<1>6. ASSUME CliReady \/ CliEnroll \/ CliRead \/ UNCHANGED vars
      PROVE UNCHANGED counters
  BY <1>6 DEF CliReady, CliEnroll, CliRead, Registers, vars, server
<1> QED BY <1>1, <1>2, <1>3, <1>4, <1>5, <1>6 DEF Next

\* The inductive invariant holds in every reachable state.
THEOREM CycleInvariant == Spec => []IInv
<1>1. IInv /\ [Next]_vars => IInv'
  BY TypesHold, CommandHolds, AccountsHold, OrphansTyped, MatchedHolds, CountsHold DEF IInv
<1> QED BY <1>1, InitIInv, PTL DEF Spec

\* docs/privacy-rdp-ckks.md: the accountant of run_grpc_worker.py counts exactly
\* the accepted releases of its process, for any number of workers and faults.
THEOREM AccountantHolds == Spec => []AccountantIsExact
<1>1. IInv => AccountantIsExact
  BY SMT DEF IInv, Types, Account, Owed, AccountantIsExact
<1> QED BY <1>1, CycleInvariant, PTL

\* SubmitLocalUpdate takes one update per node and round, late requests included.
THEOREM OncePerRoundHolds == Spec => []OncePerRound
<1>1. IInv => OncePerRound
  BY SMT DEF IInv, Counted, OncePerRound
<1> QED BY <1>1, CycleInvariant, PTL

\* run_grpc_worker.py and SubmitLocalUpdate together: every update that is pending,
\* or was averaged into the current model, was trained on the weights it is added to.
THEOREM TrainedOnCurrentHolds == Spec => []TrainedOnCurrent
<1>1. IInv => TrainedOnCurrent
  BY DEF IInv, TrainedOnCurrent
<1> QED BY <1>1, CycleInvariant, PTL

=============================================================================
