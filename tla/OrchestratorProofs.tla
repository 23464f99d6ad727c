--------------------------- MODULE OrchestratorProofs ---------------------------
(***************************************************************************)
(* For any number of workers and any command line: exit status 0 without a *)
(* signal means that the trainer ended with 0, losing the dashboard does   *)
(* not end the run, and the children are started in order.                 *)
(*                                                                         *)
(* None is inductive.  The first two need that, as long as no shutdown has *)
(* begun, the event is set only by a signal and no status has been noted;  *)
(* the second one also that the child being polled is one of the plan.     *)
(***************************************************************************)
EXTENDS Orchestrator, SequenceTheorems, TLAPS

\* Most leaves are first-order; the others cite SMT.
USE Zenon

Ending == {"stopping", "reaping", "done"}

Quiet == pc \notin Ending => (stop => signalled) /\ code = "none"

Truthful == code = "0" /\ ~signalled /\ "check_only" \notin args => proc[Training] = "ok"

Processes == proc \in [Children -> {"none", "running", "ok", "failed"}]

Planned ==
  /\ plan \in Seq(Children)
  /\ pc \notin {"preparing"} \cup Ending =>
       at \in 1 .. Len(plan) /\ plan[Len(plan)] = Training
  /\ pc \in {"port_stop", "port_exit", "port_open", "health", "health_exit"} =>
       This # Training

IInv == Processes /\ Quiet /\ Truthful /\ Planned

\* The state main() starts from.
LEMMA InitIInv == Init => IInv
<1> SUFFICES ASSUME Init PROVE IInv
  OBVIOUS
<1>1. Processes /\ Quiet /\ Truthful
  BY DEF Init, Processes, Quiet, Truthful, Ending
<1>2. Planned
  BY SMT DEF Init, Planned
<1> QED BY <1>1, <1>2 DEF IInv

\* Every step keeps the processes typed, the event and the status untouched until
\* a shutdown begins, and a status 0 backed by a trainer that ended with 0: only the
\* verdict on the trainer gives one.
LEMMA QuietHolds == IInv /\ [Next]_vars => Processes' /\ Quiet' /\ Truthful'
<1> SUFFICES ASSUME IInv, [Next]_vars PROVE Processes' /\ Quiet' /\ Truthful'
  OBVIOUS
<1> USE DEF IInv, Processes, Quiet, Truthful, Ending
<1>1. ASSUME NEW step, Provide(step) PROVE Processes' /\ Quiet' /\ Truthful'
  BY <1>1, SMT DEF Provide, Now, Advance, Quit, children, ending
<1>2. CASE CheckTools \/ CheckPorts
  BY <1>2, SMT DEF CheckTools, CheckPorts, Now, Advance, Quit, children, ending, prepared
<1>3. CASE PrepareDashboard
  BY <1>3, SMT DEF PrepareDashboard, Now, Launch, Quit, children, ending
<1>4. CASE Start
  BY <1>4 DEF Start, children, ending, prepared
<1>5. CASE StartFails \/ StartupTimeout
  BY <1>5 DEF StartFails, StartupTimeout, Leave, children
<1>6. CASE PortStop \/ PortExit \/ PortOpen
  BY <1>6 DEF PortStop, PortExit, PortOpen, Leave, Look, Ready, children, prepared
<1>7. CASE Health \/ HealthExit \/ Settle
  BY <1>7 DEF Health, HealthExit, Settle, Leave, Look, Ready, children, prepared
<1>8. CASE Wait
  BY <1>8, SMT DEF Wait, Leave, children, prepared
<1>9. CASE Poll
  <2>1. CASE PassOn
    BY <1>9, <2>1 DEF PassOn, Poll, children, prepared
  <2>2. CASE Exited(This) /\ Leave(Verdict(This))
    <3>1. Verdict(This) = "0" => proc[Training] = "ok"
      BY <2>2, SMT DEF Verdict, Exited
    <3> QED BY <2>2, <3>1 DEF Leave, children
  <2> QED BY <1>9, <2>1, <2>2 DEF Poll
<1>10. CASE Terminate \/ Reap
  BY <1>10 DEF Terminate, Reap, children, prepared
<1>11. CASE Signal
  BY <1>11 DEF Signal, children, prepared
<1>12. ASSUME NEW c \in Children, BecomeReady(c) \/ Exit(c) \/ Die(c)
       PROVE Processes' /\ Quiet' /\ Truthful'
  BY <1>12, SMT DEF BecomeReady, Exit, Die, Running, Children, prepared, ending
<1>13. CASE UNCHANGED vars
  BY <1>13 DEF vars
<1> QED BY <1>1, <1>2, <1>3, <1>4, <1>5, <1>6, <1>7, <1>8, <1>9, <1>10, <1>11, <1>12, <1>13 DEF Next, Main

\* No worker is named like another child.
LEMMA WorkerNames ==
  Workers \in Seq(WorkerSet) /\ WorkerSet \cap {Coordinator, Dashboard, Training} = {}
<1>1. Workers \in [1 .. Len(Workers) -> STRING \ {"coordinator", "dashboard", "training"}]
  BY WorkersAssumption, SMT
<1>2. WorkerSet \cap {Coordinator, Dashboard, Training} = {}
  BY <1>1 DEF WorkerSet, Coordinator, Dashboard, Training
<1>3. Workers \in [1 .. Len(Workers) -> WorkerSet] /\ Len(Workers) \in Nat
  BY <1>1, WorkersAssumption, SMT DEF WorkerSet
<1> QED BY <1>2, <1>3, SMT

\* The plan of a launch holds only children and ends with the trainer.
LEMMA LaunchPlan ==
  \A with \in BOOLEAN : Launch(with) =>
    plan' \in Seq(Children) /\ Len(plan') >= 1 /\ plan'[Len(plan')] = Training
<1> SUFFICES ASSUME NEW with \in BOOLEAN, Launch(with)
             PROVE plan' \in Seq(Children) /\ Len(plan') >= 1 /\ plan'[Len(plan')] = Training
  OBVIOUS
<1> DEFINE mid == IF "network" \in args THEN Workers ELSE <<>>
           dash == IF with THEN <<Dashboard>> ELSE <<>>
           front == <<Coordinator>> \o mid
           most == front \o dash
<1>1. mid \in Seq(Children)
  <2>1. Workers \in Seq(Children)
    BY WorkerNames, SMT DEF Children
  <2> QED BY <2>1, SMT
<1>2. <<Coordinator>> \in Seq(Children) /\ <<Training>> \in Seq(Children) /\ dash \in Seq(Children)
  <2>1. Coordinator \in Children /\ Training \in Children /\ Dashboard \in Children
    BY DEF Children
  <2> QED BY <2>1, SMT
<1> HIDE DEF mid, dash
<1>3. front \in Seq(Children)
  BY <1>1, <1>2, ConcatProperties
<1> HIDE DEF front
<1>4. most \in Seq(Children)
  BY <1>2, <1>3, ConcatProperties
<1> HIDE DEF most
<1>5. plan' = most \o <<Training>>
  BY DEF Launch, most, front, mid, dash
<1> QED BY <1>2, <1>4, <1>5, ConcatProperties, SMT

\* Every step keeps the index within the plan: the trainer, its last child, is
\* never waited for, so no start-up step looks beyond it.
LEMMA PlannedHolds == IInv /\ [Next]_vars => Planned'
<1> SUFFICES ASSUME IInv, [Next]_vars PROVE Planned'
  OBVIOUS
<1> USE DEF IInv, Planned, Ending, This
<1>1. ASSUME NEW step, Provide(step) PROVE Planned'
  BY <1>1 DEF Provide, Now, Advance, Quit
<1>2. CASE CheckTools \/ CheckPorts
  BY <1>2 DEF CheckTools, CheckPorts, Now, Advance, Quit
<1>3. CASE PrepareDashboard
  <2>1. ASSUME NEW with \in BOOLEAN, Launch(with) PROVE Planned'
    <3>1. plan' \in Seq(Children) /\ Len(plan') >= 1 /\ plan'[Len(plan')] = Training
      BY <2>1, LaunchPlan
    <3>2. at' = 1 /\ pc' = "starting"
      BY <2>1 DEF Launch
    <3>3. Len(plan') \in Nat
      BY <3>1, SMT
    <3> QED BY <3>1, <3>2, <3>3, SMT
  <2> QED BY <1>3, <2>1 DEF PrepareDashboard, Now, Quit
<1>4. CASE Start
  BY <1>4, WorkerNames DEF Start
<1>5. CASE StartFails \/ StartupTimeout
  BY <1>5 DEF StartFails, StartupTimeout, Leave
<1>6. CASE PortStop \/ PortExit \/ PortOpen
  BY <1>6, SMT DEF PortStop, PortExit, PortOpen, Leave, Look, Ready
<1>7. CASE Health \/ HealthExit \/ Settle
  BY <1>7, SMT DEF Health, HealthExit, Settle, Leave, Look, Ready
<1>8. CASE Wait
  BY <1>8, SMT DEF Wait, Leave
<1>9. CASE Poll
  BY <1>9, SMT DEF Poll, PassOn, Leave
<1>10. CASE Terminate \/ Reap
  BY <1>10 DEF Terminate, Reap
<1>11. CASE Signal
  BY <1>11 DEF Signal
<1>12. ASSUME NEW c \in Children, BecomeReady(c) \/ Exit(c) \/ Die(c) PROVE Planned'
  BY <1>12 DEF BecomeReady, Exit, Die
<1>13. CASE UNCHANGED vars
  BY <1>13 DEF vars
<1> QED BY <1>1, <1>2, <1>3, <1>4, <1>5, <1>6, <1>7, <1>8, <1>9, <1>10, <1>11, <1>12, <1>13 DEF Next, Main

\* The inductive invariant of orchestrate() holds in every reachable state.
THEOREM OrchestratorInvariant == Spec => []IInv
<1>1. Init => IInv
  BY InitIInv
<1>2. IInv /\ [Next]_vars => IInv'
  BY QuietHolds, PlannedHolds DEF IInv
<1> QED BY <1>1, <1>2, PTL DEF Spec

\* For any workers and flags, exit status 0 of an unsignalled run that was not
\* --check-only means that the trainer exited with 0.
THEOREM ZeroMeansTrainedHolds == Spec => []ZeroMeansTrained
<1>1. IInv => ZeroMeansTrained
  BY DEF IInv, Truthful, ZeroMeansTrained
<1> QED BY <1>1, OrchestratorInvariant, PTL

\* Manager.wait() is left only on a signal or when a child other than the
\* dashboard has exited.
THEOREM DashboardIsOptionalHolds == Spec => DashboardIsOptional
<1>1. ASSUME IInv, [Next]_vars, pc \in {"waiting", "polling"}, pc' = "stopping"
      PROVE  signalled \/ (\E c \in Children \ {Dashboard} : Exited(c))
  <2>1. CASE Wait
    BY <1>1, <2>1 DEF Wait, IInv, Quiet, Ending
  <2>2. CASE Poll
    <3>1. Exited(This) /\ Verdict(This) # "none"
      BY <1>1, <2>2 DEF Poll, PassOn
    <3>2. This \in Children
      <4>1. plan \in Seq(Children) /\ at \in 1 .. Len(plan)
        BY <1>1, <2>2 DEF Poll, IInv, Planned, Ending
      <4> QED BY <4>1, SMT DEF This
    <3>3. This # Dashboard
      BY <3>1 DEF Verdict, Dashboard, Training
    <3> QED BY <3>1, <3>2, <3>3
  <2>3. CASE ~Wait /\ ~Poll
    <3>1. CASE Signal \/ (\E c \in Children : BecomeReady(c) \/ Exit(c) \/ Die(c)) \/ UNCHANGED vars
      BY <1>1, <3>1 DEF Signal, BecomeReady, Exit, Die, vars
    <3>2. CASE Main \/ StartupTimeout
      BY <1>1, <2>3, <3>2 DEF Main, StartupTimeout, Provide, CheckTools, CheckPorts,
         PrepareDashboard, Now, Start, StartFails, PortStop, PortExit, PortOpen, Health,
         HealthExit, Settle, Terminate, Reap
    <3> QED BY <1>1, <3>1, <3>2 DEF Next
  <2> QED BY <2>1, <2>2, <2>3
<1>2. IInv /\ [Next]_vars =>
        [(pc \in {"waiting", "polling"} /\ pc' = "stopping")
           => (signalled \/ (\E c \in Children \ {Dashboard} : Exited(c)))]_vars
  BY <1>1
<1> QED BY <1>2, OrchestratorInvariant, PTL DEF Spec, DashboardIsOptional

-----------------------------------------------------------------------------
(***************************************************************************)
(* Starting in order.  Two things are not visible in StartsInOrder itself: *)
(* how far the preparation has come, and where orchestrate() is in the     *)
(* plan.  The children before the current one are up, those after it have  *)
(* not been started, and a health file of a started worker is its own, as  *)
(* its start removed the file of an earlier run.                           *)
(***************************************************************************)

Needs == {"deps", "proto", "native", "certs"}
Found == {"absent", "partial", "whole"}
Conditions == {"absent", "partial", "whole", "broken"}

Supplied ==
  pc = "preparing" =>
    /\ at \in 1 .. 7 /\ plan = <<>> /\ Started = {}
    /\ items \in [Items -> Found]
    /\ at > 2 => "deps" \in Usable
    /\ at > 3 => "proto" \in Usable
    /\ at > 4 => "native" \in Usable
    /\ at > 5 => "certs" \in Usable

Equipped ==
  /\ pc \notin {"preparing"} \cup Ending =>
       /\ Needs \subseteq Usable
       /\ \A i \in 1 .. Len(plan) : plan[i] = Dashboard => "frontend" \in Usable
  /\ Started # {} => Needs \subseteq Usable
  /\ Dashboard \in Started => "frontend" \in Usable

Distinct ==
  /\ Len(plan) <= Len(Workers) + 3
  /\ \A i, j \in 1 .. Len(plan) : plan[i] = plan[j] => i = j

Watching == {"port_stop", "port_exit", "port_open", "health", "health_exit", "settling"}

Ordered ==
  /\ \A i, j \in 1 .. Len(plan) : i < j /\ plan[j] \in Started => plan[i] \in up
  /\ pc \notin {"preparing", "waiting", "polling"} \cup Ending =>
       \A i \in 1 .. Len(plan) : i < at => plan[i] \in up
  /\ pc \notin {"preparing", "waiting", "polling"} \cup Ending =>
       \A j \in 1 .. Len(plan) : j > at => plan[j] \notin Started
  /\ pc = "starting" => This \notin Started
  /\ pc \in Watching => This \in Started

Fresh == files \cap Started \subseteq up

Listed ==
  /\ pc \notin {"reaping", "done"} => asked = {} /\ killed = {}
  /\ pc = "reaping" => asked = alive

OrderInv == TypeOK /\ Supplied /\ Equipped /\ Distinct /\ Ordered /\ Fresh /\ Listed

\* The state main() starts from: nothing is provided beyond what earlier runs left.
LEMMA InitOrder == Init => OrderInv
<1> SUFFICES ASSUME Init PROVE OrderInv
  OBVIOUS
<1>1. Started = {}
  BY DEF Init, Started
<1>2. Len(Workers) \in Nat /\ Len(Workers) >= 1
  BY WorkersAssumption, SMT
<1>3. TypeOK
  <2>1. at \in 1 .. Len(Workers) + 6
    BY <1>2, SMT DEF Init
  <2>2. proc \in [Children -> {"none", "running", "ok", "failed"}]
    BY DEF Init
  <2>3. items \in [Items -> {"absent", "partial", "whole", "broken"}]
    BY LeftoversAssumption DEF Init
  <2> QED BY <2>1, <2>2, <2>3, <1>1 DEF Init, TypeOK
<1>4. Supplied
  <2>1. items \in [Items -> Found]
    BY LeftoversAssumption DEF Init, Found
  <2>2. pc = "preparing" /\ at = 1 /\ plan = <<>>
    BY DEF Init
  <2>3. at \in 1 .. 7 /\ ~(at > 2) /\ ~(at > 3) /\ ~(at > 4) /\ ~(at > 5)
    BY <2>2, SMT
  <2> QED BY <1>1, <2>1, <2>2, <2>3 DEF Supplied
<1>6. Equipped /\ Fresh /\ Listed
  BY <1>1 DEF Init, Equipped, Fresh, Listed, Ending
<1>5. Distinct /\ Ordered
  BY <1>1, <1>2, SMT DEF Init, Distinct, Ordered, Watching, Ending
<1> QED BY <1>3, <1>4, <1>5, <1>6 DEF OrderInv

\* The order of the preparation.
LEMMA PreparingSteps ==
  \A k \in 1 .. 7 : /\ Preparing[k] = "tools" <=> k = 1
                    /\ Preparing[k] = "deps" <=> k = 2
                    /\ Preparing[k] = "proto" <=> k = 3
                    /\ Preparing[k] = "native" <=> k = 4
                    /\ Preparing[k] = "certs" <=> k = 5
                    /\ Preparing[k] = "ports" <=> k = 6
                    /\ Preparing[k] = "frontend" <=> k = 7
BY SMT DEF Preparing

\* No two children of a launch have the same name, and only a launch with the
\* dashboard has it in its plan.
LEMMA LaunchDistinct ==
  \A with \in BOOLEAN : Launch(with) =>
    /\ Len(plan') <= Len(Workers) + 3
    /\ \A i, j \in 1 .. Len(plan') : plan'[i] = plan'[j] => i = j
    /\ \A i \in 1 .. Len(plan') : plan'[i] = Dashboard => with
<1> SUFFICES ASSUME NEW with \in BOOLEAN, Launch(with)
             PROVE  /\ Len(plan') <= Len(Workers) + 3
                    /\ \A i, j \in 1 .. Len(plan') : plan'[i] = plan'[j] => i = j
                    /\ \A i \in 1 .. Len(plan') : plan'[i] = Dashboard => with
  OBVIOUS
<1> DEFINE mid == IF "network" \in args THEN Workers ELSE <<>>
           dash == IF with THEN <<Dashboard>> ELSE <<>>
           front == <<Coordinator>> \o mid
           most == front \o dash
           m == Len(mid)
<1>1. /\ mid \in Seq(WorkerSet) /\ m \in Nat /\ m <= Len(Workers)
      /\ \A i, j \in 1 .. m : mid[i] = mid[j] => i = j
  BY WorkerNames, WorkersAssumption, SMT
<1>2. dash \in Seq(Children) /\ Len(dash) = (IF with THEN 1 ELSE 0) /\ (with => dash[1] = Dashboard)
  <2>1. Dashboard \in Children
    BY DEF Children
  <2>2. CASE with
    BY <2>1, <2>2, SMT
  <2>3. CASE ~with
    BY <2>3, SMT
  <2> QED BY <2>2, <2>3
<1> HIDE DEF mid, dash
<1>3. mid \in Seq(Children) /\ \A i \in 1 .. m : mid[i] \in WorkerSet
  BY <1>1, SMT DEF Children
<1>4. /\ front \in Seq(Children) /\ Len(front) = m + 1
      /\ front[1] = Coordinator /\ \A i \in 2 .. m + 1 : front[i] = mid[i - 1]
  BY <1>1, <1>3, SMT DEF Children
<1> HIDE DEF front
<1>5. /\ most \in Seq(Children) /\ Len(most) = m + 1 + Len(dash)
      /\ \A i \in 1 .. m + 1 : most[i] = front[i]
      /\ with => most[m + 2] = Dashboard
  <2>1. /\ most \in Seq(Children) /\ Len(most) = Len(front) + Len(dash)
        /\ \A i \in 1 .. Len(front) + Len(dash) :
             most[i] = IF i <= Len(front) THEN front[i] ELSE dash[i - Len(front)]
    BY <1>2, <1>4, ConcatProperties
  <2> HIDE DEF most
  <2>2. \A i \in 1 .. m + 1 : most[i] = front[i]
    BY <1>1, <1>2, <1>4, <2>1, SMT
  <2>3. with => most[m + 2] = Dashboard
    <3>1. m + 2 \in 1 .. m + 1 + 1 /\ ~(m + 2 <= m + 1) /\ m + 2 - (m + 1) = 1
      BY <1>1, SMT
    <3> QED BY <1>2, <1>4, <2>1, <3>1, SMT
  <2> QED BY <1>4, <2>1, <2>2, <2>3
<1> HIDE DEF most
<1>6. plan' = most \o <<Training>>
  BY DEF Launch, most, front, mid, dash
<1>7. /\ Len(plan') = m + 2 + Len(dash) /\ plan'[m + 2 + Len(dash)] = Training
      /\ \A i \in 1 .. m + 1 + Len(dash) : plan'[i] = most[i]
  BY <1>1, <1>2, <1>5, <1>6, SMT DEF Children
<1>8. /\ plan'[1] = Coordinator /\ \A i \in 2 .. m + 1 : plan'[i] = mid[i - 1]
      /\ with => plan'[m + 2] = Dashboard
  BY <1>1, <1>2, <1>4, <1>5, <1>7, SMT
<1> HIDE DEF m
<1>9. /\ Coordinator # Dashboard /\ Coordinator # Training /\ Dashboard # Training
      /\ WorkerSet \cap {Coordinator, Dashboard, Training} = {}
  BY WorkerNames DEF Coordinator, Dashboard, Training
<1>10. \A i \in 1 .. Len(plan') :
         \/ i = 1 /\ plan'[i] = Coordinator
         \/ i \in 2 .. m + 1 /\ plan'[i] = mid[i - 1] /\ plan'[i] \in WorkerSet
         \/ with /\ i = m + 2 /\ plan'[i] = Dashboard
         \/ i = m + 2 + Len(dash) /\ plan'[i] = Training
  BY <1>1, <1>2, <1>3, <1>7, <1>8, SMT DEF m
<1>11. \A i \in 1 .. Len(plan') : plan'[i] = Dashboard => with
  BY <1>9, <1>10
<1>12. ASSUME NEW i \in 1 .. Len(plan'), NEW j \in 1 .. Len(plan'), plan'[i] = plan'[j]
       PROVE  i = j
  <2>1. CASE plan'[i] \in WorkerSet
    <3>1. i \in 2 .. m + 1 /\ j \in 2 .. m + 1 /\ mid[i - 1] = mid[j - 1]
      BY <1>9, <1>10, <1>12, <2>1
    <3>2. i - 1 \in 1 .. m /\ j - 1 \in 1 .. m
      BY <1>1, <3>1, SMT DEF m
    <3>3. i - 1 = j - 1
      BY <1>1, <3>1, <3>2 DEF m
    <3> QED BY <3>1, <3>3, SMT
  <2>2. CASE plan'[i] \notin WorkerSet
    BY <1>9, <1>10, <1>12, <2>2, SMT
  <2> QED BY <2>1, <2>2
<1> QED BY <1>1, <1>2, <1>7, <1>11, <1>12, SMT DEF m

\* An item that was made is usable, and no other changes.
LEMMA MadeUsable ==
  ASSUME NEW step \in Items, items \in [Items -> Found], Made(step)
  PROVE  items' \in [Items -> Found] /\ step \in Usable' /\ Usable \subseteq Usable'
BY SMT DEF Made, Usable, Found

\* An item that passes its probe is usable while no step has failed.
LEMMA PresentUsable ==
  ASSUME NEW step \in Items, items \in [Items -> Found], Present(step), items' = items
  PROVE  items' \in [Items -> Found] /\ step \in Usable' /\ Usable \subseteq Usable'
BY SMT DEF Present, Usable, Found

\* A step that fails leaves its item in some condition.
LEMMA UnmadeTyped ==
  ASSUME NEW step \in Items, items \in [Items -> Found], Unmade(step)
  PROVE  items' \in [Items -> Conditions]
BY SMT DEF Unmade, Found, Conditions

\* A preparation step that succeeds has provided its item.
LEMMA AdvanceOrder ==
  ASSUME OrderInv, Advance, pc = "preparing", args' = args, Usable \subseteq Usable',
         items' \in [Items -> Found], at < 7,
         Preparing[at] \in Needs => Preparing[at] \in Usable'
  PROVE  OrderInv'
<1>1. Started' = Started /\ UNCHANGED <<plan, proc, up, files, stop, signalled, seen, alive, asked, killed>>
  BY DEF Advance, children, ending, Started
<1>2. at \in 1 .. 7 /\ plan = <<>> /\ Started = {}
  BY DEF OrderInv, Supplied
<1>3. \/ pc' = "done" /\ code' = "0" /\ at' = at
      \/ pc' = "preparing" /\ code' = code /\ at' = at + 1
  BY DEF Advance
<1>4. TypeOK'
  <2>1. Len(Workers) \in Nat /\ Len(Workers) >= 1
    BY WorkersAssumption, SMT
  <2>2. at' \in 1 .. Len(Workers) + 6
    BY <1>2, <1>3, <2>1, SMT
  <2>3. items' \in [Items -> {"absent", "partial", "whole", "broken"}]
    BY DEF Found
  <2> QED BY <1>1, <1>3, <2>2, <2>3 DEF OrderInv, TypeOK
<1>5. Supplied'
  <2> SUFFICES ASSUME pc' = "preparing" PROVE Supplied'
    BY DEF Supplied
  <2>1. at' = at + 1 /\ at' \in 1 .. 7
    BY <1>2, <1>3, SMT
  <2> QED BY <1>1, <1>2, <2>1, PreparingSteps, SMT DEF OrderInv, Supplied, Needs
<1>6. Equipped' /\ Fresh'
  BY <1>1, <1>2, <1>3 DEF OrderInv, Equipped, Fresh, Ending
<1>7. Distinct' /\ Ordered' /\ Listed'
  BY <1>1, <1>2, <1>3, SMT DEF OrderInv, Distinct, Ordered, Listed, Ending, Watching
<1> QED BY <1>4, <1>5, <1>6, <1>7 DEF OrderInv

\* A preparation step that fails ends main() before any child is started.
LEMMA QuitOrder ==
  ASSUME OrderInv, Quit("1"), pc = "preparing", args' = args, items' \in [Items -> Conditions]
  PROVE  OrderInv'
<1>1. /\ Started' = Started /\ pc' = "done" /\ code' = "1"
      /\ UNCHANGED <<plan, at, proc, up, files, stop, signalled, seen, alive, asked, killed>>
  BY DEF Quit, children, ending, Started
<1>2. plan = <<>> /\ Started = {}
  BY DEF OrderInv, Supplied
<1>3. TypeOK'
  BY <1>1 DEF OrderInv, TypeOK, Conditions
<1>4. Supplied' /\ Equipped' /\ Fresh'
  BY <1>1, <1>2 DEF OrderInv, Supplied, Equipped, Fresh, Ending
<1>5. Distinct' /\ Ordered' /\ Listed'
  BY <1>1, <1>2, SMT DEF OrderInv, Distinct, Ordered, Listed, Ending, Watching
<1> QED BY <1>3, <1>4, <1>5 DEF OrderInv

\* The launch follows a complete preparation, and takes the dashboard along only
\* when its packages are there.
LEMMA LaunchOrder ==
  ASSUME OrderInv, NEW with \in BOOLEAN, Launch(with), Now("frontend"), args' = args,
         Usable \subseteq Usable', with => "frontend" \in Usable',
         items' \in [Items -> Found]
  PROVE  OrderInv'
<1>1. /\ Started' = Started /\ pc' = "starting" /\ at' = 1
      /\ UNCHANGED <<code, proc, up, files, stop, signalled, seen, alive, asked, killed>>
  BY DEF Launch, children, ending, Started
<1>2. Started = {} /\ Needs \subseteq Usable'
  BY PreparingSteps, SMT DEF Now, OrderInv, Supplied, Needs
<1>3. /\ plan' \in Seq(Children) /\ Len(plan') \in Nat /\ Len(plan') >= 1
      /\ Len(plan') <= Len(Workers) + 3
      /\ \A i, j \in 1 .. Len(plan') : plan'[i] = plan'[j] => i = j
      /\ \A i \in 1 .. Len(plan') : plan'[i] = Dashboard => with
  BY LaunchPlan, LaunchDistinct, SMT
<1>4. TypeOK'
  <2>1. Len(Workers) \in Nat
    BY WorkersAssumption, SMT
  <2>2. at' \in 1 .. Len(Workers) + 6
    BY <1>1, <2>1, SMT
  <2>3. items' \in [Items -> {"absent", "partial", "whole", "broken"}]
    BY DEF Found
  <2> QED BY <1>1, <2>2, <2>3 DEF OrderInv, TypeOK
<1>5. Supplied' /\ Equipped' /\ Fresh' /\ Distinct'
  BY <1>1, <1>2, <1>3 DEF OrderInv, Supplied, Equipped, Fresh, Distinct, Ending
<1>6. Listed'
  BY <1>1 DEF OrderInv, Listed, Now
<1>7. Ordered'
  BY <1>1, <1>2, <1>3, SMT DEF Ordered, Watching, Ending
<1> QED BY <1>4, <1>5, <1>6, <1>7 DEF OrderInv

\* The preparation as a whole.
LEMMA PreparationOrder ==
  ASSUME OrderInv,
         \/ \E step \in Needs : Provide(step)
         \/ CheckTools \/ CheckPorts \/ PrepareDashboard
  PROVE  OrderInv'
<1>0. pc = "preparing" /\ items \in [Items -> Found]
  <2>1. pc = "preparing"
    BY DEF Provide, CheckTools, CheckPorts, PrepareDashboard, Now
  <2> QED BY <2>1 DEF OrderInv, Supplied
<1>1. ASSUME NEW step \in Needs, Provide(step) PROVE OrderInv'
  <2>1. at \in 1 .. 7 /\ Preparing[at] = step /\ args' = args /\ step \in Items
    BY <1>0, <1>1 DEF Provide, Now, OrderInv, Supplied, Needs, Items
  <2>2. at < 7
    BY <2>1, PreparingSteps, SMT DEF Needs
  <2>3. CASE Advance /\ (Made(step) \/ (Present(step) /\ items' = items))
    <3>1. items' \in [Items -> Found] /\ step \in Usable' /\ Usable \subseteq Usable'
      BY <1>0, <2>1, <2>3, MadeUsable, PresentUsable
    <3> QED BY <1>0, <2>1, <2>2, <2>3, <3>1, AdvanceOrder
  <2>4. CASE Quit("1") /\ (Unmade(step) \/ items' = items)
    <3>1. items' \in [Items -> Conditions]
      BY <1>0, <2>1, <2>4, UnmadeTyped DEF Found, Conditions
    <3> QED BY <1>0, <2>1, <2>4, <3>1, QuitOrder
  <2> QED BY <1>1, <2>3, <2>4 DEF Provide
<1>2. CASE CheckTools \/ CheckPorts
  <2>1. pc = "preparing" /\ at \in 1 .. 7 /\ Preparing[at] \in {"tools", "ports"} /\ UNCHANGED prepared
    BY <1>2 DEF CheckTools, CheckPorts, Now, OrderInv, Supplied
  <2>2. at < 7 /\ Preparing[at] \notin Needs /\ args' = args /\ items' = items
    BY <2>1, PreparingSteps, SMT DEF Needs, prepared
  <2>3. Usable' = Usable /\ items' \in [Items -> Found] /\ items' \in [Items -> Conditions]
    BY <1>0, <2>2 DEF Usable, Found, Conditions
  <2> QED BY <1>0, <1>2, <2>2, <2>3, AdvanceOrder, QuitOrder DEF CheckTools, CheckPorts
<1>3. CASE PrepareDashboard
  <2>1. Now("frontend") /\ pc = "preparing" /\ args' = args
    BY <1>3 DEF PrepareDashboard, Now
  <2>2. "frontend" \in Items
    BY DEF Items
  <2>3. \/ Launch(FALSE) /\ items' = items
        \/ Launch(TRUE) /\ (Made("frontend") \/ (Present("frontend") /\ items' = items))
        \/ Quit("1") /\ Unmade("frontend")
    BY <1>3 DEF PrepareDashboard
  <2>4. CASE Launch(FALSE) /\ items' = items
    <3>1. Usable' = Usable
      BY <2>4 DEF Usable
    <3> QED BY <1>0, <2>1, <2>4, <3>1, LaunchOrder
  <2>5. CASE Launch(TRUE) /\ (Made("frontend") \/ (Present("frontend") /\ items' = items))
    <3>1. items' \in [Items -> Found] /\ "frontend" \in Usable' /\ Usable \subseteq Usable'
      BY <1>0, <2>2, <2>5, MadeUsable, PresentUsable
    <3> QED BY <2>1, <2>5, <3>1, LaunchOrder
  <2>6. CASE Quit("1") /\ Unmade("frontend")
    <3>1. items' \in [Items -> Conditions]
      BY <1>0, <2>2, <2>6, UnmadeTyped
    <3> QED BY <2>1, <2>6, <3>1, QuitOrder
  <2> QED BY <2>3, <2>4, <2>5, <2>6
<1> QED BY <1>1, <1>2, <1>3

\* Where the launched orchestrator is in its plan.
LEMMA AtChild ==
  ASSUME IInv, pc \notin {"preparing"} \cup Ending
  PROVE  plan \in Seq(Children) /\ at \in 1 .. Len(plan) /\ Len(plan) \in Nat /\ This \in Children
<1>1. plan \in Seq(Children) /\ at \in 1 .. Len(plan)
  BY DEF IInv, Planned
<1> QED BY <1>1, SMT DEF This

\* A child is started when all before it are up, and its health file is gone.
LEMMA StartOrder == ASSUME IInv, OrderInv, Start PROVE OrderInv'
<1>1. /\ plan \in Seq(Children) /\ at \in 1 .. Len(plan) /\ Len(plan) \in Nat /\ This \in Children
      /\ This = plan[at]
  BY AtChild DEF Start, Ending, This
<1>2. /\ Started' = Started \cup {This} /\ files' = files \ {This}
      /\ proc' \in [Children -> {"none", "running", "ok", "failed"}]
  BY <1>1 DEF Start, Started, OrderInv, TypeOK
<1>3. /\ pc = "starting" /\ pc' \in {"health", "settling", "port_stop"}
      /\ UNCHANGED <<args, items, Usable, plan, at, up, stop, signalled, seen, alive, asked, killed, code>>
  BY DEF Start, prepared, ending, Usable
<1>4. TypeOK'
  BY <1>2, <1>3 DEF OrderInv, TypeOK
<1>5. Supplied' /\ Distinct' /\ Listed'
  BY <1>3, SMT DEF OrderInv, Supplied, Distinct, Listed
<1>6. Equipped' /\ Fresh'
  BY <1>1, <1>2, <1>3 DEF OrderInv, Equipped, Fresh, Ending
<1>7. Ordered'
  <2>1. \A i \in 1 .. Len(plan) : plan[i] = This => i = at
    BY <1>1 DEF OrderInv, Distinct
  <2>2. /\ \A i \in 1 .. Len(plan) : i < at => plan[i] \in up
        /\ \A j \in 1 .. Len(plan) : j > at => plan[j] \notin Started
        /\ \A i, j \in 1 .. Len(plan) : i < j /\ plan[j] \in Started => plan[i] \in up
    BY <1>3 DEF OrderInv, Ordered, Ending
  <2>3. \A i, j \in 1 .. Len(plan) : i < j /\ plan[j] \in Started' => plan[i] \in up
    BY <1>2, <2>1, <2>2
  <2>4. \A j \in 1 .. Len(plan) : j > at => plan[j] \notin Started'
    BY <1>1, <1>2, <2>1, <2>2, SMT
  <2>5. This' \in Started'
    BY <1>2, <1>3 DEF This
  <2> QED BY <1>3, <2>2, <2>3, <2>4, <2>5 DEF Ordered, Watching, Ending
<1> QED BY <1>4, <1>5, <1>6, <1>7 DEF OrderInv

\* Leaving orchestrate() lists the running children, all of which were started.
LEMMA LeaveOrder ==
  ASSUME IInv, OrderInv, pc \notin {"preparing"} \cup Ending,
         NEW c \in {"0", "1", "130", "rc"}, Leave(c),
         seen' \subseteq seen \cup {This}, This \notin Started => seen' = seen
  PROVE  OrderInv'
<1>1. /\ Started' = Started /\ alive' \subseteq Started /\ pc' = "stopping" /\ stop' = TRUE /\ code' = c
      /\ UNCHANGED <<args, items, Usable, plan, at, proc, up, files, signalled, asked, killed>>
  BY DEF Leave, children, Started, Running, Usable
<1>2. asked = {} /\ killed = {}
  BY DEF OrderInv, Listed, Ending
<1>3. TypeOK'
  BY <1>1, <1>2 DEF OrderInv, TypeOK
<1>4. Supplied' /\ Equipped' /\ Distinct' /\ Fresh' /\ Listed'
  BY <1>1, <1>2 DEF OrderInv, Supplied, Equipped, Distinct, Fresh, Listed, Ending
<1>5. Ordered'
  BY <1>1 DEF OrderInv, Ordered, Watching, Ending
<1> QED BY <1>3, <1>4, <1>5 DEF OrderInv

\* A look at the event, the process, the port or the file changes nothing else.
LEMMA LookOrder ==
  ASSUME OrderInv, NEW where \in Watching \cup {"waiting"}, Look(where),
         pc \in Watching
  PROVE  OrderInv'
<1>1. /\ Started' = Started /\ This' = This /\ pc' = where
      /\ UNCHANGED <<args, items, Usable, plan, at, proc, up, files, stop, signalled, seen, alive,
                     asked, killed, code>>
  BY DEF Look, prepared, children, ending, Started, This, Usable
<1>2. TypeOK'
  BY <1>1 DEF OrderInv, TypeOK
<1>3. Supplied' /\ Equipped' /\ Distinct' /\ Fresh' /\ Listed'
  BY <1>1, SMT DEF OrderInv, Supplied, Equipped, Distinct, Fresh, Listed, Ending, Watching
<1>4. Ordered'
  BY <1>1 DEF OrderInv, Ordered, Watching, Ending
<1> QED BY <1>2, <1>3, <1>4 DEF OrderInv

\* The next child is due once the current one is up.
LEMMA ReadyOrder ==
  ASSUME IInv, OrderInv, Ready, This \in up,
         pc \in {"port_stop", "port_exit", "port_open", "health", "health_exit"}
  PROVE  OrderInv'
<1>1. /\ plan \in Seq(Children) /\ at \in 1 .. Len(plan) /\ Len(plan) \in Nat /\ This = plan[at]
      /\ at # Len(plan)
  BY AtChild DEF IInv, Planned, Ending, This
<1>2. /\ Started' = Started /\ at' = at + 1 /\ pc' = "starting" /\ This' = plan[at + 1]
      /\ UNCHANGED <<args, items, Usable, plan, proc, up, files, stop, signalled, seen, alive,
                     asked, killed, code>>
  BY DEF Ready, prepared, children, ending, Started, This, Usable
<1>3. at + 1 \in 1 .. Len(plan) /\ at + 1 > at
  BY <1>1, SMT
<1>4. TypeOK'
  <2>1. Len(Workers) \in Nat /\ Len(plan) <= Len(Workers) + 3
    BY WorkersAssumption, SMT DEF OrderInv, Distinct
  <2>2. at' \in 1 .. Len(Workers) + 6
    BY <1>1, <1>2, <1>3, <2>1, SMT
  <2> QED BY <1>2, <2>2 DEF OrderInv, TypeOK
<1>5. Supplied' /\ Equipped' /\ Distinct' /\ Fresh' /\ Listed'
  BY <1>2, SMT DEF OrderInv, Supplied, Equipped, Distinct, Fresh, Listed, Ending
<1>6. Ordered'
  <2>1. /\ \A i \in 1 .. Len(plan) : i < at => plan[i] \in up
        /\ \A j \in 1 .. Len(plan) : j > at => plan[j] \notin Started
        /\ \A i, j \in 1 .. Len(plan) : i < j /\ plan[j] \in Started => plan[i] \in up
    BY DEF OrderInv, Ordered, Ending
  <2>2. \A i \in 1 .. Len(plan) : i < at + 1 => plan[i] \in up
    BY <1>1, <2>1, SMT
  <2>3. \A j \in 1 .. Len(plan) : j > at + 1 => plan[j] \notin Started
    BY <1>1, <2>1, SMT
  <2>4. plan[at + 1] \notin Started
    BY <1>3, <2>1
  <2> QED BY <1>2, <2>1, <2>2, <2>3, <2>4 DEF Ordered, Watching, Ending
<1> QED BY <1>4, <1>5, <1>6 DEF OrderInv

\* Manager.wait() walks through the plan and starts nobody.
LEMMA WatchOrder ==
  ASSUME IInv, OrderInv, pc \in {"waiting", "polling"}, pc' \in {"waiting", "polling"},
         at' \in 1 .. Len(plan), seen' \subseteq Started,
         UNCHANGED <<prepared, plan, children, stop, signalled, ending, code>>
  PROVE  OrderInv'
<1>1. /\ Started' = Started
      /\ UNCHANGED <<args, items, Usable, plan, proc, up, files, stop, signalled, alive,
                     asked, killed, code>>
  BY DEF prepared, children, ending, Started, Usable
<1>2. TypeOK'
  <2>1. Len(Workers) \in Nat /\ Len(plan) <= Len(Workers) + 3 /\ Len(plan) \in Nat
    BY WorkersAssumption, AtChild, SMT DEF OrderInv, Distinct, Ending
  <2>2. at' \in 1 .. Len(Workers) + 6
    BY <2>1, SMT
  <2> QED BY <1>1, <2>2 DEF OrderInv, TypeOK
<1>3. Supplied' /\ Equipped' /\ Distinct' /\ Fresh' /\ Listed'
  BY <1>1 DEF OrderInv, Supplied, Equipped, Distinct, Fresh, Listed, Ending
<1>4. Ordered'
  BY <1>1 DEF OrderInv, Ordered, Watching, Ending
<1> QED BY <1>2, <1>3, <1>4 DEF OrderInv

\* A start-up step that looks at the child being started.
LEMMA StartupOrder ==
  ASSUME IInv, OrderInv,
         \/ StartFails \/ StartupTimeout
         \/ PortStop \/ PortExit \/ PortOpen \/ Health \/ HealthExit \/ Settle
  PROVE  OrderInv'
<1>1. CASE StartFails \/ StartupTimeout
  BY <1>1, LeaveOrder DEF StartFails, StartupTimeout, Ending
<1>2. CASE PortStop \/ PortExit
  BY <1>2, LeaveOrder, LookOrder DEF PortStop, PortExit, Ending, Watching
<1>3. CASE PortOpen
  BY <1>3, ReadyOrder, LookOrder DEF PortOpen, Watching
<1>4. CASE Health
  <2>1. This \in files => This \in up
    BY <1>4 DEF Health, OrderInv, Ordered, Fresh, Watching
  <2> QED BY <1>4, <2>1, ReadyOrder, LookOrder DEF Health, Watching
<1>5. CASE HealthExit \/ Settle
  BY <1>5, LeaveOrder, LookOrder DEF HealthExit, Settle, Ending, Watching
<1> QED BY <1>1, <1>2, <1>3, <1>4, <1>5

\* A pass of Manager.wait().
LEMMA WaitOrder == ASSUME IInv, OrderInv, Wait \/ Poll PROVE OrderInv'
<1>1. /\ plan \in Seq(Children) /\ at \in 1 .. Len(plan) /\ Len(plan) \in Nat /\ This \in Children
      /\ seen \subseteq Started
  BY AtChild DEF Wait, Poll, Ending, OrderInv, TypeOK
<1>2. CASE Wait
  <2>1. 1 \in 1 .. Len(plan)
    BY <1>1, SMT
  <2>2. CASE stop /\ Leave("0") /\ UNCHANGED seen
    BY <1>2, <2>2, LeaveOrder DEF Wait, Ending
  <2>3. CASE ~(stop /\ Leave("0") /\ UNCHANGED seen)
    BY <1>1, <1>2, <2>1, <2>3, WatchOrder DEF Wait
  <2> QED BY <2>2, <2>3
<1>3. CASE Poll
  <2>1. Exited(This) => This \in Started
    BY <1>1 DEF Exited, Started
  <2>2. CASE PassOn
    <3>1. seen' \subseteq Started
      BY <1>1, <1>3, <2>1 DEF Poll
    <3>2. at' \in 1 .. Len(plan) /\ pc' \in {"waiting", "polling"} /\ pc = "polling"
      BY <1>1, <1>3, <2>2, SMT DEF Poll, PassOn
    <3> QED BY <2>2, <3>1, <3>2, WatchOrder DEF PassOn
  <2>3. CASE ~PassOn
    <3>1. Exited(This) /\ seen' = seen \cup {This} /\ Leave(Verdict(This)) /\ Verdict(This) # "none"
      BY <1>3, <2>3 DEF Poll
    <3>2. Verdict(This) \in {"0", "1", "130", "rc"}
      BY <3>1 DEF Verdict
    <3> QED BY <1>3, <2>1, <3>1, <3>2, LeaveOrder DEF Poll, Ending
  <2> QED BY <2>2, <2>3
<1> QED BY <1>2, <1>3

\* Shutting down and signals.
LEMMA EndingOrder == ASSUME OrderInv, Terminate \/ Reap \/ Signal PROVE OrderInv'
<1>1. /\ Started' = Started
      /\ UNCHANGED <<args, items, Usable, plan, at, proc, up, files, seen, alive, code, This>>
  BY DEF Terminate, Reap, Signal, prepared, children, ending, Started, This, Usable
<1>2. Supplied' /\ Equipped' /\ Distinct' /\ Fresh'
  BY <1>1, SMT DEF Terminate, Reap, Signal, OrderInv, Supplied, Equipped, Distinct, Fresh, Ending
<1>3. TypeOK' /\ Listed'
  BY <1>1 DEF Terminate, Reap, Signal, ending, OrderInv, TypeOK, Listed, Ending
<1>4. Ordered'
  BY <1>1 DEF Terminate, Reap, Signal, OrderInv, Ordered, Watching, Ending
<1> QED BY <1>2, <1>3, <1>4 DEF OrderInv

\* A child that becomes ready is up before its file counts; one that ends stays
\* among the started ones.
LEMMA ChildOrder ==
  ASSUME OrderInv, NEW c \in Children, BecomeReady(c) \/ Exit(c) \/ Die(c)
  PROVE  OrderInv'
<1>1. /\ Started' = Started /\ proc' \in [Children -> {"none", "running", "ok", "failed"}]
      /\ UNCHANGED <<args, items, Usable, pc, plan, at, stop, signalled, seen, alive, asked, killed, code, This>>
  BY DEF BecomeReady, Exit, Die, Running, Started, prepared, ending, OrderInv, TypeOK, This, Usable
<1>2. /\ up \subseteq up' /\ up' \subseteq Started
      /\ files' \subseteq WorkerSet /\ files' \ files \subseteq up'
  BY DEF BecomeReady, Exit, Die, Running, Started, OrderInv, TypeOK
<1>3. TypeOK'
  BY <1>1, <1>2 DEF OrderInv, TypeOK
<1>4. Supplied' /\ Equipped' /\ Distinct' /\ Fresh' /\ Listed'
  BY <1>1, <1>2, SMT DEF OrderInv, Supplied, Equipped, Distinct, Fresh, Listed, Ending
<1>5. Ordered'
  BY <1>1, <1>2 DEF OrderInv, Ordered, Watching, Ending
<1> QED BY <1>3, <1>4, <1>5 DEF OrderInv

\* For any workers, flags and leftovers of earlier runs, no child is started before
\* what it needs has passed its probe or was made, and the children before it are up.
THEOREM StartsInOrderHolds == Spec => []StartsInOrder
<1>1. IInv /\ OrderInv /\ [Next]_vars => OrderInv'
  <2> SUFFICES ASSUME IInv, OrderInv, [Next]_vars PROVE OrderInv'
    OBVIOUS
  <2>1. CASE Main
    BY <2>1, PreparationOrder, StartOrder, StartupOrder, WaitOrder, EndingOrder DEF Main, Needs
  <2>2. CASE StartupTimeout \/ Signal
    BY <2>2, StartupOrder, EndingOrder
  <2>3. CASE \E c \in Children : BecomeReady(c) \/ Exit(c) \/ Die(c)
    BY <2>3, ChildOrder
  <2>4. CASE UNCHANGED vars
    <3>1. Usable' = Usable /\ Started' = Started /\ This' = This
      BY <2>4 DEF vars, Usable, Started, This
    <3>2. TypeOK' /\ Distinct'
      BY <2>4, <3>1 DEF vars, OrderInv, TypeOK, Distinct
    <3>3. Supplied'
      BY <2>4, <3>1 DEF vars, OrderInv, Supplied
    <3>4. Equipped' /\ Fresh'
      BY <2>4, <3>1 DEF vars, OrderInv, Equipped, Fresh
    <3>5. Ordered' /\ Listed'
      BY <2>4, <3>1 DEF vars, OrderInv, Ordered, Listed
    <3> QED BY <3>2, <3>3, <3>4, <3>5 DEF OrderInv
  <2> QED BY <2>1, <2>2, <2>3, <2>4 DEF Next
<1>2. OrderInv => StartsInOrder
  BY DEF OrderInv, Equipped, Ordered, StartsInOrder, Needs
<1> QED BY <1>1, <1>2, InitOrder, OrchestratorInvariant, PTL DEF Spec

=============================================================================
