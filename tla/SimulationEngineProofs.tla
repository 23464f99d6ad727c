------------------------ MODULE SimulationEngineProofs ------------------------
(***************************************************************************)
(* Safety of SimulationEngine for every number of workers, rounds and      *)
(* crashes: types, busy marks, the blocking put, and the refinement of     *)
(* TrainingRun.                                                            *)
(***************************************************************************)
EXTENDS SimulationEngine, FiniteSetTheorems, TLAPS

\* Most leaves are first-order; the others cite SMT.
USE Zenon

\* The locals of a round are empty until its commands are sent.
LocalsFresh ==
  /\ pc # "sending" => toSend = {}
  /\ pc \in {"starting", "draining", "selecting", "sending"} =>
       observed = {} /\ results = <<>> /\ failures = {}

TypeInv == TypeOK /\ LocalsFresh

\* What the types of the messages contain.
LEMMA Messages ==
  /\ 0 \in Mark /\ (\A r \in 1 .. Rounds : r \in Mark)
  /\ NoCommand \in Command /\ Stop \in Command
  /\ \A r \in 1 .. Rounds : Train(r) \in Command
  /\ \A c \in Command : c.round \in Mark
  /\ \A n \in Workers, r \in Mark, ok \in BOOLEAN : Result(n, r, ok) \in WorkerResult
  /\ \A m \in WorkerResult : m.node \in Workers /\ m.round \in Mark
  <1> USE ConfigAssumption DEF Mark
  <1>1. NoCommand \in Command /\ Stop \in Command
    BY SMT DEF Command, NoCommand, Stop
  <1>2. \A r \in 1 .. Rounds : Train(r) \in Command
    BY SMT DEF Command, Train
  <1>3. \A n \in Workers, r \in Mark, ok \in BOOLEAN : Result(n, r, ok) \in WorkerResult
    BY DEF Result, WorkerResult
  <1>4. \A m \in WorkerResult : m.node \in Workers /\ m.round \in Mark
    BY DEF WorkerResult
  <1> QED
    BY <1>1, <1>2, <1>3, <1>4, SMT DEF Command

\* The state run() starts from.
LEMMA TypeInit == Init => TypeInv
  <1> SUFFICES ASSUME Init PROVE TypeOK /\ LocalsFresh
    BY DEF TypeInv
  <1>1. 1 \in 1 .. Rounds /\ 0 \in 0 .. MaxCrashes /\ <<>> \in Seq(Workers)
    BY ConfigAssumption, SMT
  <1> QED
    BY <1>1, Messages DEF Init, TypeOK, LocalsFresh

\* Every step keeps the types, and leaves the locals of a round empty until its
\* commands are sent.
LEMMA TypeStep == TypeInv /\ [Next]_vars => TypeInv'
  <1> SUFFICES ASSUME TypeOK, LocalsFresh, [Next]_vars
               PROVE  TypeOK' /\ LocalsFresh'
    BY DEF TypeInv
  <1> USE Messages DEF TypeOK, LocalsFresh, procVars
  <1>1. CASE UNCHANGED vars
    BY <1>1 DEF vars, coordVars
  <1>2. ASSUME NEW w \in Workers, StartWorker(w)
        PROVE  TypeOK' /\ LocalsFresh'
    BY <1>2 DEF StartWorker
  <1>3. ASSUME NEW w \in Workers, SendTrain(w)
        PROVE  TypeOK' /\ LocalsFresh'
    BY <1>3 DEF SendTrain
  <1>4. ASSUME NEW w \in Workers, SendStop(w)
        PROVE  TypeOK' /\ LocalsFresh'
    BY <1>4 DEF SendStop
  <1>5. ASSUME NEW w \in Workers, Join(w)
        PROVE  TypeOK' /\ LocalsFresh'
    BY <1>5 DEF Join
  <1>6. CASE StartFails
    BY <1>6 DEF StartFails
  <1>7. CASE DrainResults
    BY <1>7 DEF DrainResults
  <1>8. CASE WaitForAvailable
    BY <1>8 DEF WaitForAvailable, Select, Abort, Available
  <1>9. ASSUME NEW m \in resq, CollectResult(m)
        PROVE  TypeOK' /\ LocalsFresh'
    <2>1. /\ m.node \in Workers
          /\ busy' \in [Workers -> Mark]
      BY <1>9 DEF CollectResult
    <2>3. results' = results \/ results' = Append(results, m.node)
      BY <1>9 DEF CollectResult
    <2>4. Append(results, m.node) \in Seq(Workers)
      BY <2>1, SMT
    <2>2. results' \in Seq(Workers)
      BY <2>3, <2>4
    <2> QED
      BY <1>9, <2>1, <2>2 DEF CollectResult
  <1>10. CASE GetTimesOut
    BY <1>10 DEF GetTimesOut
  <1>11. CASE MarkDead
    BY <1>11 DEF MarkDead
  <1>12. CASE StopCollecting
    BY <1>12 DEF StopCollecting
  <1>13. CASE ReceiveFails
    BY <1>13 DEF ReceiveFails, Abort
  <1>14. CASE CompleteRound
    <2>1. round' \in 1 .. Rounds /\ results' \in Seq(Workers)
      BY <1>14, ConfigAssumption, SMT DEF CompleteRound
    <2> QED
      BY <2>1, <1>14 DEF CompleteRound
  <1>15. CASE RoundFails
    BY <1>15 DEF RoundFails, Abort
  <1>16. CASE DeadlinePasses
    BY <1>16 DEF DeadlinePasses
  <1>17. ASSUME NEW w \in Workers, WorkerReady(w)
         PROVE  TypeOK' /\ LocalsFresh'
    BY <1>17 DEF WorkerReady, coordVars
  <1>21. ASSUME NEW w \in Workers, Terminated(w)
         PROVE  TypeOK' /\ LocalsFresh'
    BY <1>21 DEF Terminated, coordVars
  <1>20. ASSUME NEW w \in Workers, TakeCommand(w)
         PROVE  TypeOK' /\ LocalsFresh'
    <2>1. proc' \in [Workers -> {"none", "starting", "idle", "training", "exited"}]
      BY <1>20 DEF TakeCommand
    <2>2. task' \in [Workers -> Mark]
      BY <1>20 DEF TakeCommand
    <2>3. cmdq' \in [Workers -> Command]
      BY <1>20 DEF TakeCommand
    <2> QED
      BY <1>20, <2>1, <2>2, <2>3 DEF TakeCommand, coordVars
  <1>18. ASSUME NEW w \in Workers, NEW ok \in BOOLEAN, ReportResult(w, ok)
         PROVE  TypeOK' /\ LocalsFresh'
    BY <1>18, SMT DEF ReportResult, coordVars
  <1>19. ASSUME NEW w \in Workers, WorkerDies(w)
         PROVE  TypeOK' /\ LocalsFresh'
    BY <1>19, ConfigAssumption, SMT DEF WorkerDies, coordVars
  <1> QED
    BY <1>1, <1>2, <1>3, <1>4, <1>5, <1>6, <1>7, <1>8, <1>9, <1>10, <1>11, <1>12,
       <1>13, <1>14, <1>15, <1>16, <1>17, <1>18, <1>19, <1>20, <1>21
    DEF Next, Coordinator, Worker, Over

\* Every variable of the engine keeps its type.
THEOREM EngineTypeCorrect == Spec => []TypeOK
  <1>1. TypeInv => TypeOK
    BY DEF TypeInv
  <1> QED
    BY TypeInit, TypeStep, <1>1, PTL DEF Spec

----------------------------------------------------------------------------
(***************************************************************************)
(* Busy marks.  Owed(w) is a set and does not count: a worker with an      *)
(* unread command for round r and a result of round r in the queue would   *)
(* owe {r} too, and keep owing it after the result is received.  So the    *)
(* inductive invariant says where the one thing a worker owes is.          *)
(***************************************************************************)

NoResult(w) == \A m \in resq : m.node # w

Quiet(w) == cmdq[w] = NoCommand /\ task[w] = 0 /\ NoResult(w)

Unread(w, r) == cmdq[w] = Train(r) /\ task[w] = 0 /\ NoResult(w)

InWork(w, r) == cmdq[w] = NoCommand /\ task[w] = r /\ NoResult(w)

Answered(w, r) ==
  /\ cmdq[w] = NoCommand /\ task[w] = 0
  /\ \E m \in resq : m.node = w /\ m.round = r
                     /\ \A x \in resq : x.node = w => x = m

Tracked(w) ==
  /\ Alive(w) => /\ busy[w] = 0 => Quiet(w)
                 /\ busy[w] # 0 => \/ Unread(w, busy[w])
                                   \/ InWork(w, busy[w])
                                   \/ Answered(w, busy[w])
  /\ w \in toSend => busy[w] = 0 /\ Quiet(w) /\ proc[w] # "none"
  /\ proc[w] = "training" <=> task[w] # 0
  /\ proc[w] = "none" => busy[w] = 0 /\ Quiet(w)

MarksInv == pc = "starting" \/ InRounds => \A w \in Workers : Tracked(w)

\* What MarksInv says of each worker is at least what the two properties ask.
LEMMA MarksImply == TypeOK /\ MarksInv => BusyMarksAreTrue /\ SendNeverBlocks
  <1> SUFFICES ASSUME TypeOK, MarksInv
               PROVE  BusyMarksAreTrue /\ SendNeverBlocks
    OBVIOUS
  <1>1. SendNeverBlocks
    BY DEF SendNeverBlocks, MarksInv, InRounds, Tracked, Quiet, TypeOK
  <1>2. ASSUME NEW w \in Workers, InRounds, Alive(w)
        PROVE  Owed(w) = {r \in {busy[w]} : r # 0}
    <2>1. Tracked(w)
      BY <1>2 DEF MarksInv
    <2>2. \A r : Train(r).round = r /\ NoCommand.round = 0
      BY DEF Train, NoCommand
    <2>3. CASE busy[w] = 0
      BY <1>2, <2>1, <2>2, <2>3 DEF Tracked, Quiet, NoResult, Owed
    <2>4. CASE busy[w] # 0 /\ Unread(w, busy[w])
      BY <2>2, <2>4 DEF Unread, NoResult, Owed
    <2>5. CASE busy[w] # 0 /\ InWork(w, busy[w])
      BY <2>2, <2>5 DEF InWork, NoResult, Owed
    <2>6. CASE busy[w] # 0 /\ Answered(w, busy[w])
      BY <2>2, <2>6, SMT DEF Answered, Owed
    <2> QED
      BY <1>2, <2>1, <2>3, <2>4, <2>5, <2>6 DEF Tracked
  <1> QED
    BY <1>1, <1>2 DEF BusyMarksAreTrue

\* Nobody is marked and nobody owes anything before the workers start.
LEMMA MarksInit == Init => MarksInv
  BY DEF Init, MarksInv, Tracked, Quiet, NoResult, Alive

\* A step that concerns other workers.
Untouched(w) ==
  /\ cmdq'[w] = cmdq[w] /\ task'[w] = task[w]
  /\ busy'[w] = busy[w] /\ proc'[w] = proc[w]
  /\ \A m : m.node = w => (m \in resq' <=> m \in resq)
  /\ w \in toSend' => w \in toSend

\* It leaves the worker's debt where it is.
LEMMA UntouchedTracked ==
  ASSUME NEW w, Tracked(w), Untouched(w)
  PROVE  Tracked(w)'
  <1>1. NoResult(w)' <=> NoResult(w)
    BY DEF Untouched, NoResult
  <1>2. ASSUME NEW r PROVE Answered(w, r) => Answered(w, r)'
    <2> SUFFICES ASSUME Answered(w, r) PROVE Answered(w, r)'
      OBVIOUS
    <2>1. PICK m \in resq : m.node = w /\ m.round = r /\ \A x \in resq : x.node = w => x = m
      BY DEF Answered
    <2>2. m \in resq' /\ \A x \in resq' : x.node = w => x = m
      BY <2>1 DEF Untouched
    <2> QED
      BY <2>1, <2>2 DEF Answered, Untouched
  <1>3. ASSUME NEW r PROVE (Unread(w, r) => Unread(w, r)') /\ (InWork(w, r) => InWork(w, r)')
    BY <1>1 DEF Unread, InWork, Untouched
  <1>4. Quiet(w) => Quiet(w)'
    BY <1>1 DEF Quiet, Untouched
  <1> QED
    BY <1>2, <1>3, <1>4 DEF Tracked, Untouched, Alive

\* Rounds only go on: a step that ends in a round, or before the first one,
\* started there.
LEMMA RoundsPrecede ==
  ASSUME TypeOK, [Next]_vars, pc' = "starting" \/ InRounds'
  PROVE  pc = "starting" \/ InRounds
  <1>1. CASE pc' = pc
    BY <1>1 DEF InRounds
  <1>2. ASSUME NEW w \in Workers, Worker(w) PROVE pc' = pc
    BY <1>2 DEF Worker, WorkerReady, TakeCommand, ReportResult, WorkerDies, Terminated,
       coordVars
  <1>3. ASSUME NEW w \in Workers, SendStop(w) \/ Join(w) PROVE pc' = pc
    BY <1>3 DEF SendStop, Join, InRounds
  <1>4. ASSUME NEW w \in Workers, StartWorker(w) \/ SendTrain(w)
        PROVE  pc = "starting" \/ InRounds
    BY <1>4 DEF StartWorker, SendTrain, InRounds
  <1>5. ASSUME NEW m \in resq, CollectResult(m) PROVE InRounds
    BY <1>5 DEF CollectResult, InRounds
  <1>6. CASE StartFails \/ DrainResults \/ WaitForAvailable \/ GetTimesOut \/ MarkDead
             \/ StopCollecting \/ ReceiveFails \/ CompleteRound \/ RoundFails
    BY <1>6 DEF StartFails, DrainResults, WaitForAvailable, GetTimesOut, MarkDead,
       StopCollecting, ReceiveFails, CompleteRound, RoundFails, InRounds
  <1>7. CASE DeadlinePasses \/ Over \/ UNCHANGED vars
    BY <1>1, <1>7 DEF DeadlinePasses, Over, vars, coordVars
  <1> QED
    BY <1>1, <1>2, <1>3, <1>4, <1>5, <1>6, <1>7 DEF Next, Coordinator

\* Sending, collecting, draining and the death of a worker move a debt from one
\* place to the next together with its mark.
LEMMA MarksStep == TypeInv /\ TypeInv' /\ MarksInv /\ [Next]_vars => MarksInv'
  <1> SUFFICES ASSUME TypeOK, LocalsFresh, MarksInv, [Next]_vars,
                      pc' = "starting" \/ InRounds',
                      NEW v \in Workers
               PROVE  Tracked(v)'
    BY DEF TypeInv, MarksInv
  <1>t. \A w \in Workers : Tracked(w)
    BY RoundsPrecede DEF MarksInv
  <1>y. /\ busy \in [Workers -> Mark] /\ cmdq \in [Workers -> Command]
        /\ proc \in [Workers -> {"none", "starting", "idle", "training", "exited"}]
        /\ task \in [Workers -> Mark]
    BY DEF TypeOK
  <1>m. /\ \A m \in resq : m.node \in Workers
        /\ \A r : Train(r) # NoCommand /\ Train(r) # Stop /\ Train(r).round = r
    BY Messages DEF TypeOK, Train, Stop, NoCommand
  <1>u. ASSUME Untouched(v) PROVE Tracked(v)'
    BY <1>t, <1>u, UntouchedTracked
  <1>1. CASE UNCHANGED vars \/ GetTimesOut \/ StopCollecting \/ DeadlinePasses \/ CompleteRound
    <2>1. Untouched(v)
      BY <1>1 DEF vars, coordVars, procVars, GetTimesOut, StopCollecting, DeadlinePasses,
         CompleteRound, Untouched
    <2> QED
      BY <1>u, <2>1
  <1>2. ASSUME NEW w \in Workers, StartWorker(w)
        PROVE  Tracked(v)'
    <2>0. /\ proc[w] = "none" /\ proc' = [proc EXCEPT ![w] = "starting"]
          /\ UNCHANGED <<toSend, busy, cmdq, resq, task>>
      BY <1>2 DEF StartWorker
    <2>1. CASE v = w
      <3>1. busy[w] = 0 /\ Quiet(w) /\ w \notin toSend
        BY <1>t, <2>0 DEF Tracked
      <3>2. proc'[w] = "starting"
        BY <1>y, <2>0
      <3>3. busy'[w] = 0 /\ Quiet(w)' /\ w \notin toSend' /\ task'[w] = 0
        BY <2>0, <3>1 DEF Quiet, NoResult
      <3> QED
        BY <2>1, <3>2, <3>3 DEF Tracked
    <2>2. CASE v # w
      BY <1>u, <1>y, <2>0, <2>2 DEF Untouched
    <2> QED
      BY <2>1, <2>2
  <1>3. ASSUME NEW w \in Workers, SendTrain(w)
        PROVE  Tracked(v)'
    <2>0. /\ cmdq' = [cmdq EXCEPT ![w] = Train(round)]
          /\ busy' = [busy EXCEPT ![w] = round]
          /\ toSend' = toSend \ {w}
          /\ UNCHANGED <<resq, proc, task, round>>
          /\ w \in toSend
      BY <1>3 DEF SendTrain
    <2>1. CASE v = w
      <3>1. Quiet(w) /\ proc[w] # "none" /\ (proc[w] = "training" <=> task[w] # 0)
        BY <1>t, <2>0 DEF Tracked
      <3>2. Unread(w, round)' /\ busy'[w] = round /\ w \notin toSend'
        BY <1>y, <2>0, <3>1 DEF Quiet, Unread, NoResult
      <3>3. round # 0
        BY SMT DEF TypeOK
      <3>4. proc'[w] # "none" /\ (proc'[w] = "training" <=> task'[w] # 0)
        BY <2>0, <3>1
      <3> QED
        BY <2>0, <2>1, <3>2, <3>3, <3>4 DEF Tracked, Unread
    <2>2. CASE v # w
      BY <1>u, <1>y, <2>0, <2>2 DEF Untouched
    <2> QED
      BY <2>1, <2>2
  <1>7. CASE DrainResults
    <2>0. /\ busy'[v] = IF \E m \in resq : m.node = v THEN 0 ELSE busy[v]
          /\ resq' = {} /\ toSend' = {} /\ toSend = {}
          /\ UNCHANGED <<cmdq, proc, task>>
      BY <1>7 DEF DrainResults, LocalsFresh
    <2>1. CASE NoResult(v)
      BY <1>u, <2>0, <2>1 DEF Untouched, NoResult
    <2>2. CASE ~NoResult(v)
      <3>1. /\ proc[v] # "none" /\ (proc[v] = "training" <=> task[v] # 0)
            /\ Alive(v) => cmdq[v] = NoCommand /\ task[v] = 0
        BY <1>t, <2>2 DEF Tracked, Quiet, Unread, InWork, Answered
      <3>2. busy'[v] = 0 /\ NoResult(v)'
        BY <2>0, <2>2 DEF NoResult
      <3> QED
        BY <2>0, <3>1, <3>2 DEF Tracked, Quiet, Alive
    <2> QED
      BY <2>1, <2>2
  <1>8. CASE WaitForAvailable
    <2>1. /\ toSend' \subseteq Available \/ toSend' = toSend
          /\ UNCHANGED <<busy, cmdq, resq, proc, task>>
      BY <1>8 DEF WaitForAvailable, Select, procVars
    <2>2. CASE v \in toSend' => v \in toSend
      BY <1>u, <2>1, <2>2 DEF Untouched
    <2>3. CASE v \in Available
      <3>1. busy[v] = 0 /\ Alive(v) /\ Quiet(v) /\ (proc[v] = "training" <=> task[v] # 0)
        BY <1>t, <2>3 DEF Available, Tracked
      <3>2. busy'[v] = 0 /\ Quiet(v)' /\ proc'[v] # "none"
            /\ (proc'[v] = "training" <=> task'[v] # 0)
        BY <2>1, <3>1 DEF Quiet, NoResult, Alive
      <3> QED
        BY <3>2 DEF Tracked
    <2> QED
      BY <2>1, <2>2, <2>3
  <1>9. ASSUME NEW m \in resq, CollectResult(m)
        PROVE  Tracked(v)'
    <2>0. /\ m.node \in Workers
          /\ resq' = resq \ {m} /\ busy' = [busy EXCEPT ![m.node] = 0]
          /\ UNCHANGED <<toSend, cmdq, proc, task>> /\ toSend = {}
      BY <1>9, <1>m DEF CollectResult, LocalsFresh
    <2>2. CASE v = m.node
      <3>1. /\ Alive(v) => Answered(v, busy[v])
            /\ proc[v] # "none" /\ (proc[v] = "training" <=> task[v] # 0)
        BY <1>t, <2>2 DEF Tracked, Quiet, Unread, InWork, NoResult
      <3>2. Alive(v) => Quiet(v)'
        BY <2>0, <2>2, <3>1 DEF Answered, Quiet, NoResult
      <3>3. busy'[v] = 0
        BY <1>y, <2>0, <2>2
      <3> QED
        BY <2>0, <3>1, <3>2, <3>3 DEF Tracked, Alive
    <2>3. CASE v # m.node
      BY <1>u, <1>y, <2>0, <2>3 DEF Untouched
    <2> QED
      BY <2>2, <2>3
  <1>11. CASE MarkDead
    <2>0. /\ busy'[v] = IF v \in selected \ observed /\ ~Alive(v) THEN 0 ELSE busy[v]
          /\ toSend = {} /\ UNCHANGED <<toSend, cmdq, resq, proc, task>>
      BY <1>11 DEF MarkDead, LocalsFresh, procVars
    <2>1. CASE busy'[v] = busy[v]
      BY <1>u, <2>0, <2>1 DEF Untouched
    <2>2. CASE ~Alive(v) /\ busy'[v] = 0
      BY <1>t, <2>0, <2>2 DEF Tracked, Alive, Quiet, NoResult
    <2> QED
      BY <2>0, <2>1, <2>2
  <1>13. CASE StartFails \/ ReceiveFails \/ RoundFails
    BY <1>13 DEF StartFails, ReceiveFails, RoundFails, Abort, InRounds
  <1>14. ASSUME NEW w \in Workers, SendStop(w) \/ Join(w)
         PROVE  Tracked(v)'
    BY <1>14 DEF SendStop, Join, InRounds
  <1>15. ASSUME NEW w \in Workers, WorkerReady(w)
         PROVE  Tracked(v)'
    <2>0. /\ proc[w] = "starting" /\ proc' = [proc EXCEPT ![w] = "idle"]
          /\ UNCHANGED <<toSend, busy, cmdq, resq, task>>
      BY <1>15 DEF WorkerReady, coordVars
    <2>1. CASE v = w
      <3>1. proc'[w] = "idle" /\ task[w] = 0
        BY <1>t, <1>y, <2>0 DEF Tracked
      <3>2. /\ NoResult(w)' <=> NoResult(w)
            /\ \A r : Answered(w, r)' <=> Answered(w, r)
            /\ \A r : (Unread(w, r)' <=> Unread(w, r)) /\ (InWork(w, r)' <=> InWork(w, r))
        BY <2>0 DEF NoResult, Unread, InWork, Answered
      <3> QED
        BY <1>t, <2>0, <2>1, <3>1, <3>2 DEF Tracked, Alive, Quiet
    <2>2. CASE v # w
      BY <1>u, <1>y, <2>0, <2>2 DEF Untouched
    <2> QED
      BY <2>1, <2>2
  <1>16. ASSUME NEW w \in Workers, TakeCommand(w)
         PROVE  Tracked(v)'
    <2>1. /\ busy[w] # 0 /\ Unread(w, busy[w]) /\ w \notin toSend
      BY <1>m, <1>t, <1>16 DEF TakeCommand, Tracked, Alive, Quiet, Unread, InWork, Answered
    <2>0. /\ proc' = [proc EXCEPT ![w] = "training"]
          /\ task' = [task EXCEPT ![w] = busy[w]]
          /\ cmdq' = [cmdq EXCEPT ![w] = NoCommand]
          /\ UNCHANGED <<toSend, busy, resq>>
      BY <1>m, <1>16, <2>1 DEF TakeCommand, coordVars, Unread
    <2>2. CASE v = w
      <3>1. InWork(w, busy[w])' /\ proc'[w] = "training" /\ task'[w] = busy[w]
        BY <1>y, <2>0, <2>1 DEF Unread, InWork, NoResult
      <3> QED
        BY <2>0, <2>1, <2>2, <3>1 DEF Tracked
    <2>3. CASE v # w
      BY <1>u, <1>y, <2>0, <2>3 DEF Untouched
    <2> QED
      BY <2>2, <2>3
  <1>17. ASSUME NEW w \in Workers, NEW ok \in BOOLEAN, ReportResult(w, ok)
         PROVE  Tracked(v)'
    <2> DEFINE res == Result(w, busy[w], ok)
    <2>1. /\ InWork(w, busy[w]) /\ busy[w] = task[w] /\ busy[w] # 0 /\ w \notin toSend
      BY <1>t, <1>17 DEF ReportResult, Tracked, Alive, Quiet, Unread, InWork, Answered
    <2>0. /\ res.node = w /\ res.round = busy[w]
          /\ resq' = resq \cup {res}
          /\ proc' = [proc EXCEPT ![w] = "idle"] /\ task' = [task EXCEPT ![w] = 0]
          /\ UNCHANGED <<toSend, busy, cmdq>>
      BY <1>17, <2>1 DEF ReportResult, coordVars, Result
    <2> HIDE DEF res
    <2>2. CASE v = w
      <3>1. proc'[w] = "idle" /\ task'[w] = 0
        BY <1>y, <2>0
      <3>2. Answered(w, busy[w])'
        BY <2>0, <2>1, <3>1 DEF InWork, NoResult, Answered
      <3> QED
        BY <2>0, <2>1, <2>2, <3>1, <3>2 DEF Tracked
    <2>3. CASE v # w
      BY <1>u, <1>y, <2>0, <2>3 DEF Untouched
    <2> QED
      BY <2>2, <2>3
  <1>18. ASSUME NEW w \in Workers, WorkerDies(w) \/ Terminated(w)
         PROVE  Tracked(v)'
    <2>1. /\ proc' = [proc EXCEPT ![w] = "exited"]
          /\ task' = [task EXCEPT ![w] = 0]
          /\ UNCHANGED <<busy, toSend, cmdq, resq>>
      BY <1>18 DEF WorkerDies, Terminated, coordVars
    <2>2. CASE v = w
      <3>1. proc'[w] = "exited" /\ task'[w] = 0
        BY <1>y, <2>1
      <3>2. w \in toSend => busy[w] = 0 /\ Quiet(w)
        BY <1>t DEF Tracked
      <3> QED
        BY <2>1, <2>2, <3>1, <3>2 DEF Tracked, Alive, Quiet, NoResult
    <2>3. CASE v # w
      BY <1>u, <1>y, <2>1, <2>3 DEF Untouched
    <2> QED
      BY <2>2, <2>3
  <1> QED
    BY <1>1, <1>2, <1>3, <1>7, <1>8, <1>9, <1>11, <1>13, <1>14, <1>15, <1>16, <1>17, <1>18
    DEF Next, Coordinator, Worker, Over

\* Busy marks are true and the blocking put never waits, for every number of
\* workers, rounds and crashes.
THEOREM BusyMarksHold == Spec => [](BusyMarksAreTrue /\ SendNeverBlocks)
  <1>1. TypeInv /\ MarksInv => BusyMarksAreTrue /\ SendNeverBlocks
    BY MarksImply DEF TypeInv
  <1> QED
    BY TypeInit, TypeStep, MarksInit, MarksStep, <1>1, PTL DEF Spec

\* The coordinator never waits in the put of a command, so no worker that stopped
\* reading its queue can hold a round up.
THEOREM SendNeverBlocksHolds == Spec => []SendNeverBlocks
  BY BusyMarksHold, PTL

----------------------------------------------------------------------------
(***************************************************************************)
(* Refinement of TrainingRun.  A recorded round is a quorum because the    *)
(* collection stops the moment the minimum is reached: Tally says so while *)
(* it runs, together with the bookkeeping that keeps completed, failed and *)
(* unobserved clients apart.                                               *)
(***************************************************************************)

Tally ==
  /\ completed \cup failures = observed
  /\ completed \cap failures = {}
  /\ Len(results) = Cardinality(completed)

Quorum ==
  /\ pc \in {"sending", "collecting", "polling", "collected"} =>
       Cardinality(selected) \in Minimum .. Required
  /\ pc \in {"sending", "collecting", "polling"} =>
       Len(results) < MinResultsFor(Cardinality(selected))
  /\ pc = "collected" => Len(results) <= MinResultsFor(Cardinality(selected))

Progress ==
  /\ history \in Seq(TR!Metrics)
  /\ pc = "starting" \/ InRounds => outcome = "running" /\ Len(history) = round - 1
  /\ pc \in {"stopping", "joining"} /\ outcome = "running" => Len(history) = Rounds

RefInv == Tally /\ Quorum /\ Progress

\* What the configuration makes of the minimum.
LEMMA Minima ==
  /\ Required \in Nat /\ Required > 0
  /\ Minimum \in 1 .. Required
  /\ \A n \in Minimum .. Required : MinResultsFor(n) \in 1 .. n
  /\ \A n \in Nat : MinResultsFor(n) \in Nat
  <1>1. Cardinality(Workers) \in Nat
    BY ConfigAssumption, FS_CardinalityType
  <1> QED
    BY <1>1, ConfigAssumption, SMT DEF Minimum, MinResultsFor

\* The locals of a round are finite, so they can be counted.
LEMMA FiniteLocals ==
  ASSUME TypeOK
  PROVE  /\ \A S \in SUBSET Workers : IsFiniteSet(S) /\ Cardinality(S) \in Nat
         /\ completed \in SUBSET Workers
         /\ Len(results) \in Nat
  <1>1. \A S \in SUBSET Workers : IsFiniteSet(S) /\ Cardinality(S) \in Nat
    BY ConfigAssumption, FS_Subset, FS_CardinalityType
  <1>2. completed \in SUBSET Workers /\ Len(results) \in Nat
    BY SMT DEF TypeOK, completed
  <1> QED
    BY <1>1, <1>2

\* Nothing received counts as nothing.
LEMMA EmptyTally ==
  ASSUME results = <<>>
  PROVE  completed = {} /\ Len(results) = 0 /\ Cardinality(completed) = 0
  <1>1. completed = {}
    BY SMT DEF completed
  <1> QED
    BY <1>1, FS_EmptySet

\* No round has been recorded at the start.
LEMMA RefInit == Init => RefInv
  <1> SUFFICES ASSUME Init PROVE RefInv
    OBVIOUS
  <1>1. completed = {} /\ Len(results) = 0 /\ Cardinality(completed) = 0
    BY EmptyTally DEF Init
  <1>2. Tally
    BY <1>1 DEF Tally, Init
  <1>3. Quorum
    BY DEF Quorum, Init
  <1>4. Progress
    BY SMT DEF Progress, Init, InRounds
  <1> QED
    BY <1>2, <1>3, <1>4 DEF RefInv

\* A counted result adds its sender to the completed clients.
LEMMA CountResult ==
  ASSUME TypeOK, Tally, NEW n \in Workers, n \notin observed,
         results' = Append(results, n)
  PROVE  /\ completed' = completed \cup {n}
         /\ Len(results') = Len(results) + 1
         /\ Cardinality(completed') = Cardinality(completed) + 1
  <1>3. /\ Len(results) \in Nat /\ DOMAIN results = 1 .. Len(results)
        /\ Len(results') = Len(results) + 1 /\ DOMAIN results' = 1 .. Len(results) + 1
        /\ \A i \in 1 .. Len(results) : results'[i] = results[i]
        /\ results'[Len(results) + 1] = n
    BY SMT DEF TypeOK
  <1>4. /\ completed \cup {n} \subseteq completed'
        /\ completed' \subseteq completed \cup {n}
    BY <1>3, SMT DEF completed
  <1>1. completed' = completed \cup {n} /\ Len(results') = Len(results) + 1
    BY <1>3, <1>4
  <1>2. n \notin completed
    BY DEF Tally
  <1> QED
    BY <1>1, <1>2, FiniteLocals, FS_AddElement

\* A result adds to what was observed exactly once, as a success or as a failure.
LEMMA TallyStep == TypeInv /\ Tally /\ [Next]_vars => Tally'
  <1> SUFFICES ASSUME TypeOK, LocalsFresh, Tally, [Next]_vars
               PROVE  Tally'
    BY DEF TypeInv
  <1>1. CASE UNCHANGED <<observed, results, failures>>
    BY <1>1 DEF Tally, completed
  <1>2. ASSUME NEW m \in resq, CollectResult(m)
        PROVE  Tally'
    <2>1. m.node \in Workers
      BY Messages DEF TypeOK
    <2>2. CASE UNCHANGED <<observed, results, failures>>
      BY <1>1, <2>2
    <2>3. CASE /\ m.node \notin observed /\ observed' = observed \cup {m.node}
               /\ results' = Append(results, m.node) /\ failures' = failures
      BY <2>1, <2>3, CountResult, SMT DEF Tally, TypeOK
    <2>4. CASE /\ m.node \notin observed /\ observed' = observed \cup {m.node}
               /\ results' = results /\ failures' = failures \cup {m.node}
      BY <2>4 DEF Tally, completed
    <2>5. \/ UNCHANGED <<observed, results, failures>>
          \/ /\ m.node \notin observed /\ observed' = observed \cup {m.node}
             /\ results' = IF m.ok THEN Append(results, m.node) ELSE results
             /\ failures' = IF m.ok THEN failures ELSE failures \cup {m.node}
      BY <1>2 DEF CollectResult
    <2>6. CASE m.ok
      BY <2>2, <2>3, <2>5, <2>6
    <2>7. CASE ~m.ok
      BY <2>2, <2>4, <2>5, <2>7
    <2> QED
      BY <2>6, <2>7
  <1>3. CASE MarkDead
    <2>1. PICK dead \in SUBSET (selected \ observed) :
               /\ failures' = failures \cup dead /\ observed' = observed \cup dead
               /\ results' = results
      BY <1>3 DEF MarkDead
    <2> QED
      BY <2>1 DEF Tally, completed
  <1>4. CASE CompleteRound
    <2>1. results' = <<>> /\ observed' = {} /\ failures' = {}
      BY <1>4 DEF CompleteRound
    <2>2. completed' = {} /\ Len(results') = 0 /\ Cardinality(completed') = 0
      <3>1. completed' = {}
        BY <2>1, SMT DEF completed
      <3> QED
        BY <2>1, <3>1, FS_EmptySet
    <2> QED
      BY <2>1, <2>2 DEF Tally
  <1>5. CASE WaitForAvailable
    BY <1>5, <1>1 DEF WaitForAvailable
  <1>6. CASE StartFails \/ DrainResults \/ GetTimesOut \/ StopCollecting \/ ReceiveFails
             \/ RoundFails \/ DeadlinePasses \/ Over \/ UNCHANGED vars
    BY <1>6, <1>1 DEF StartFails, DrainResults, GetTimesOut, StopCollecting,
       ReceiveFails, RoundFails, DeadlinePasses, Over, vars, coordVars
  <1>7. ASSUME NEW w \in Workers,
               StartWorker(w) \/ SendTrain(w) \/ SendStop(w) \/ Join(w) \/ Worker(w)
        PROVE  Tally'
    BY <1>7, <1>1 DEF StartWorker, SendTrain, SendStop, Join, Worker, WorkerReady,
       TakeCommand, ReportResult, WorkerDies, Terminated, coordVars
  <1> QED
    BY <1>2, <1>3, <1>4, <1>5, <1>6, <1>7 DEF Next, Coordinator

\* The collection of a round ends with its quorum or with too few workers left.
LEMMA QuorumStep == TypeInv /\ TypeOK' /\ Tally /\ Quorum /\ [Next]_vars => Quorum'
  <1> SUFFICES ASSUME TypeOK, LocalsFresh, TypeOK', Tally, Quorum, [Next]_vars
               PROVE  Quorum'
    BY DEF TypeInv
  <1>f. /\ Cardinality(selected) \in Nat /\ Cardinality(selected') \in Nat
        /\ Len(results) \in Nat
    BY FiniteLocals DEF TypeOK
  <1>1. CASE UNCHANGED <<pc, selected, results>>
    BY <1>1 DEF Quorum
  <1>2. CASE pc' \notin {"sending", "collecting", "polling", "collected"}
    BY <1>2 DEF Quorum
  <1>3. CASE WaitForAvailable
    <2>1. CASE pc' # "sending"
      BY <1>2, <1>3, <2>1 DEF WaitForAvailable, Select, Abort
    <2>2. CASE pc' = "sending"
      <3>1. /\ Cardinality(selected') = Smaller(Required, Cardinality(Available))
            /\ Cardinality(Available) >= Required \/ Cardinality(Available) >= Minimum
            /\ results' = results /\ results = <<>>
        BY <1>3, <2>2 DEF WaitForAvailable, Select, Abort, LocalsFresh
      <3>2. Cardinality(Available) \in Nat
        BY FiniteLocals DEF Available
      <3>3. Cardinality(selected') \in Minimum .. Required
        BY <3>1, <3>2, Minima, SMT DEF Smaller
      <3>4. Len(results') = 0
        BY <3>1
      <3>5. MinResultsFor(Cardinality(selected')) \in Nat /\ MinResultsFor(Cardinality(selected')) > 0
        BY <3>3, Minima, SMT
      <3> QED
        BY <2>2, <3>3, <3>4, <3>5 DEF Quorum, MinResultsFor
    <2> QED
      BY <2>1, <2>2
  <1>4. ASSUME NEW w \in Workers, SendTrain(w)
        PROVE  Quorum'
    BY <1>4 DEF SendTrain, Quorum, MinResultsFor
  <1>5. ASSUME NEW m \in resq, CollectResult(m)
        PROVE  Quorum'
    <2>1. m.node \in Workers /\ selected' = selected
          /\ pc = "collecting" /\ pc' \in {"collecting", "collected"}
      BY <1>5, Messages DEF TypeOK, CollectResult
    <2>2. CASE UNCHANGED <<results, pc>>
      BY <1>1, <2>1, <2>2
    <2>3. CASE results' = results
      BY <2>1, <2>3, <1>f, Minima, SMT DEF Quorum, MinResultsFor
    <2>4. CASE /\ m.node \notin observed /\ results' = Append(results, m.node)
               /\ pc' = "collecting" => ~QuorumReached(results')
      <3>1. Len(results') = Len(results) + 1
        BY <2>1, <2>4, CountResult
      <3>2. MinResultsFor(Cardinality(selected)) \in Nat
        BY <1>f, Minima
      <3> QED
        BY <1>f, <2>1, <2>4, <3>1, <3>2, SMT DEF Quorum, QuorumReached, MinResultsFor
    <2>5. \/ UNCHANGED <<results, pc>>
          \/ /\ m.node \notin observed
             /\ results' = IF m.ok THEN Append(results, m.node) ELSE results
             /\ pc' = IF QuorumReached(results') \/ QuorumLost(results', observed')
                      THEN "collected" ELSE pc
      BY <1>5 DEF CollectResult
    <2>6. \/ results' = results
          \/ m.node \notin observed /\ results' = Append(results, m.node)
      BY <2>5
    <2>7. \/ UNCHANGED <<results, pc>>
          \/ pc' = "collecting" => ~QuorumReached(results')
      BY <2>1, <2>5
    <2> QED
      BY <2>2, <2>3, <2>4, <2>6, <2>7
  <1>6. CASE MarkDead
    BY <1>6, <1>f, Minima, SMT DEF MarkDead, Quorum, MinResultsFor
  <1>7. CASE GetTimesOut
    BY <1>7 DEF GetTimesOut, Quorum, MinResultsFor
  <1>8. CASE StopCollecting
    BY <1>8, <1>f, Minima, SMT DEF StopCollecting, Quorum, MinResultsFor
  <1>9. CASE DrainResults \/ CompleteRound \/ StartFails \/ ReceiveFails \/ RoundFails
    BY <1>9, <1>2 DEF DrainResults, CompleteRound, StartFails, ReceiveFails, RoundFails,
       Abort
  <1>10. ASSUME NEW w \in Workers, StartWorker(w) \/ SendStop(w) \/ Join(w)
         PROVE  Quorum'
    BY <1>10, <1>2 DEF StartWorker, SendStop, Join
  <1>11. CASE DeadlinePasses \/ Over \/ UNCHANGED vars
    BY <1>11, <1>1 DEF DeadlinePasses, Over, vars, coordVars
  <1>12. ASSUME NEW w \in Workers, Worker(w)
         PROVE  Quorum'
    BY <1>12, <1>1 DEF Worker, WorkerReady, TakeCommand, ReportResult, WorkerDies,
       Terminated, coordVars
  <1> QED
    BY <1>3, <1>4, <1>5, <1>6, <1>7, <1>8, <1>9, <1>10, <1>11, <1>12
    DEF Next, Coordinator

\* The metrics of a round with a quorum are ones TrainingRun may record.
LEMMA QuorumIsDecided ==
  ASSUME TypeOK, Tally, Quorum, CompleteRound
  PROVE  RoundMetrics \in TR!Metrics /\ TR!Decided(RoundMetrics)
  <1>1. RoundMetrics \in TR!Metrics
    BY FiniteLocals DEF TypeOK, RoundMetrics, TR!Metrics
  <1>2. /\ pc = "collected" /\ Len(results) >= MinResultsFor(Cardinality(selected))
        /\ Cardinality(selected) \in Nat /\ Len(results) \in Nat
    BY FiniteLocals DEF CompleteRound, TypeOK
  <1>3. Cardinality(completed) = MinResultsFor(Cardinality(selected))
    BY <1>2, Minima, SMT DEF Quorum, Tally
  <1>4. Cardinality(selected) \in TR!MinResultsFor(Required) .. Required
    BY <1>2 DEF Quorum, Minimum, MinResultsFor, TR!MinResultsFor
  <1>5. completed \cup failures \subseteq selected /\ completed \cap failures = {}
    BY DEF Tally, TypeOK
  <1>6. /\ RoundMetrics.selected = selected /\ RoundMetrics.completed = completed
        /\ RoundMetrics.failed = failures
        /\ RoundMetrics.stragglers = selected \ (completed \cup failures)
    BY DEF RoundMetrics
  <1>7. \A n : TR!MinResultsFor(n) = MinResultsFor(n)
    BY DEF MinResultsFor, TR!MinResultsFor
  <1>8. /\ Cardinality(RoundMetrics.selected) \in TR!MinResultsFor(Required) .. Required
        /\ Cardinality(RoundMetrics.completed)
             = TR!MinResultsFor(Cardinality(RoundMetrics.selected))
    BY <1>3, <1>4, <1>6, <1>7
  <1>9. /\ RoundMetrics.completed \cup RoundMetrics.failed \cup RoundMetrics.stragglers
             = RoundMetrics.selected
        /\ RoundMetrics.completed \cap RoundMetrics.failed = {}
        /\ RoundMetrics.stragglers \cap (RoundMetrics.completed \cup RoundMetrics.failed)
             = {}
    BY <1>5, <1>6
  <1>10. \A S : TR!Cardinality(S) = Cardinality(S)
    BY DEF TR!Cardinality, Cardinality
  <1> QED
    BY <1>1, <1>8, <1>9, <1>10 DEF TR!Decided

\* A step of the engine is a step of TrainingRun or leaves its variables alone,
\* and keeps Progress.
LEMMA RunStep ==
  ASSUME TypeInv, TypeOK', Tally, Quorum, Progress, [Next]_vars
  PROVE  [TR!RunNext]_TR!runVars /\ Progress'
  <1> USE DEF Progress, InRounds
  <1>0. TypeOK /\ LocalsFresh /\ Rounds \in Nat /\ round \in 1 .. Rounds
    BY ConfigAssumption DEF TypeInv, TypeOK
  <1>1. CASE /\ UNCHANGED <<history, outcome, round>>
             /\ pc' = "starting" \/ InRounds' => pc = "starting" \/ InRounds
             /\ pc' \in {"stopping", "joining"} => pc \in {"stopping", "joining"}
    BY <1>1 DEF TR!runVars
  <1>2. CASE /\ pc = "starting" \/ InRounds
             /\ UNCHANGED history /\ outcome' = "failed"
             /\ pc' \in {"start_failed", "stopping"}
    BY <1>2 DEF TR!RunNext, TR!Fail
  <1>3. CASE CompleteRound
    <2>1. RoundMetrics \in TR!Metrics /\ TR!Decided(RoundMetrics)
      BY <1>0, <1>3, QuorumIsDecided
    <2>2. /\ history' = Append(history, RoundMetrics) /\ outcome' = outcome
          /\ outcome = "running" /\ Len(history) = round - 1
      BY <1>3 DEF CompleteRound
    <2>3. history' \in Seq(TR!Metrics) /\ Len(history') = round
      BY <1>0, <2>1, <2>2, SMT
    <2>4. TR!Round
      BY <1>0, <2>1, <2>2, SMT DEF TR!Round
    <2>5. Progress'
      BY <1>0, <1>3, <2>2, <2>3, SMT DEF CompleteRound
    <2> QED
      BY <2>4, <2>5 DEF TR!RunNext
  <1>4. ASSUME NEW w \in Workers, Join(w)
        PROVE  [TR!RunNext]_TR!runVars /\ Progress'
    <2>1. CASE outcome' = outcome
      BY <1>4, <2>1, <1>1 DEF Join
    <2>2. CASE outcome' # outcome
      <3>1. /\ outcome = "running" /\ outcome' = "done" /\ Len(history) = Rounds
            /\ history' = history /\ pc' = "closed"
        BY <1>4, <2>2 DEF Join
      <3> QED
        BY <3>1 DEF TR!RunNext, TR!Finish
    <2> QED
      BY <2>1, <2>2
  <1>5. CASE WaitForAvailable
    <2>1. CASE outcome' = outcome /\ pc' # "stopping"
      BY <1>1, <1>5, <2>1 DEF WaitForAvailable, Select, Abort
    <2>2. CASE Abort
      BY <1>2, <1>5, <2>2 DEF WaitForAvailable, Abort
    <2> QED
      BY <1>5, <2>1, <2>2 DEF WaitForAvailable, Select
  <1>6. CASE StartFails \/ ReceiveFails \/ RoundFails
    BY <1>2, <1>6 DEF StartFails, ReceiveFails, RoundFails, Abort
  <1>7. ASSUME NEW m \in resq, CollectResult(m)
        PROVE  [TR!RunNext]_TR!runVars /\ Progress'
    <2>1. /\ pc' \in {"collecting", "collected"} /\ pc = "collecting"
          /\ UNCHANGED <<history, outcome, round>>
      BY <1>7 DEF CollectResult
    <2> QED
      BY <1>1, <2>1
  <1>8. CASE MarkDead
    BY <1>1, <1>8 DEF MarkDead
  <1>9. CASE DrainResults \/ GetTimesOut \/ StopCollecting
    BY <1>1, <1>9 DEF DrainResults, GetTimesOut, StopCollecting
  <1>10. CASE DeadlinePasses \/ Over \/ UNCHANGED vars
    BY <1>1, <1>10 DEF DeadlinePasses, Over, vars, coordVars
  <1>11. ASSUME NEW w \in Workers, StartWorker(w)
         PROVE  [TR!RunNext]_TR!runVars /\ Progress'
    BY <1>1, <1>11 DEF StartWorker
  <1>12. ASSUME NEW w \in Workers, SendTrain(w)
         PROVE  [TR!RunNext]_TR!runVars /\ Progress'
    BY <1>1, <1>12 DEF SendTrain
  <1>13. ASSUME NEW w \in Workers, SendStop(w)
         PROVE  [TR!RunNext]_TR!runVars /\ Progress'
    BY <1>1, <1>13 DEF SendStop
  <1>14. ASSUME NEW w \in Workers, Worker(w)
         PROVE  [TR!RunNext]_TR!runVars /\ Progress'
    BY <1>1, <1>14 DEF Worker, WorkerReady, TakeCommand, ReportResult, WorkerDies,
       Terminated, coordVars
  <1> QED
    BY <1>3, <1>4, <1>5, <1>6, <1>7, <1>8, <1>9, <1>10, <1>11, <1>12, <1>13, <1>14
    DEF Next, Coordinator

\* The engine implements the abstract run for every number of workers, rounds and
\* crashes: what TrainingRun never does, no interleaving of late results, dead
\* workers and deadlines makes the engine do.
THEOREM EngineRefinesRun == Spec => TR!RunSafety
  <1>1. Init => TR!RunInit
    BY DEF Init, TR!RunInit
  <1>2. TypeInv /\ TypeInv' /\ RefInv /\ [Next]_vars => RefInv' /\ [TR!RunNext]_TR!runVars
    BY TallyStep, QuorumStep, RunStep DEF RefInv, TypeInv
  <1> QED
    BY TypeInit, TypeStep, RefInit, <1>1, <1>2, PTL DEF Spec, TR!RunSafety

==============================================================================
