------------------------------ MODULE Orchestrator ------------------------------
(***************************************************************************)
(* The single-command orchestrator main.py: it prepares the tools, starts  *)
(* the coordinator, the workers, the dashboard and the trainer one after   *)
(* the other, waits for each to be ready, watches them, and shuts all of   *)
(* them down.                                                              *)
(*                                                                         *)
(* The main thread runs orchestrate(); a signal handler sets an event; the *)
(* children become ready, exit, obey or ignore SIGTERM at any time.        *)
(***************************************************************************)
EXTENDS Integers, Sequences, FiniteSets

CONSTANTS
  Workers,     \* the network workers, a sequence
  Options,     \* command lines: sets of flags, "npm" when npm is installed
  Leftovers    \* what earlier runs may have left of each item

ASSUME OptionsAssumption ==
  Options \subseteq SUBSET {"network", "dashboard", "keep_alive", "auto_install",
                            "skip_native_build", "check_only", "force_certs", "npm"}

\* What a run installs, generates or builds.
Items == {"deps", "proto", "native", "certs", "frontend"}

\* A "partial" item is incomplete and passes its probe: the probes look for four
\* packages, one generated module, one function, or non-empty files.
ASSUME LeftoversAssumption == Leftovers \subseteq [Items -> {"absent", "partial", "whole"}]

\* worker_ids() numbers the workers of each kind and wants at least one benign one.
ASSUME WorkersAssumption ==
  /\ Workers \in Seq(STRING \ {"coordinator", "dashboard", "training"})
  /\ Len(Workers) >= 1
  /\ \A i, j \in 1 .. Len(Workers) : Workers[i] = Workers[j] => i = j

VARIABLES
  args,      \* the flags of this run
  items,     \* the state of each item; "broken": half-made by a failed step of this run
  pc,        \* where the main thread is
  plan,      \* the children to start, in order
  at,        \* the child being started, or being polled
  proc,      \* the process of each child
  up,        \* children that have become ready in this run
  files,     \* workers whose health file exists
  stop,      \* Manager.stop is set
  signalled, \* ... by SIGINT or SIGTERM
  seen,      \* children whose exit wait() has handled
  alive,     \* shutdown()'s list
  asked,     \* children sent SIGTERM
  killed,    \* children sent SIGKILL
  code       \* exit status of main()

prepared == <<args, items>>
children == <<proc, up, files>>
ending == <<alive, asked, killed>>
vars == <<args, items, pc, plan, at, proc, up, files, stop, signalled, seen, alive,
          asked, killed, code>>

Coordinator == "coordinator"
Dashboard == "dashboard"
Training == "training"
WorkerSet == {Workers[i] : i \in 1 .. Len(Workers)}
Children == {Coordinator, Dashboard, Training} \cup WorkerSet

Running(c) == proc[c] = "running"
Exited(c) == proc[c] \in {"ok", "failed"}
Started == {c \in Children : proc[c] # "none"}

Preparing == <<"tools", "deps", "proto", "native", "certs", "ports", "frontend">>

Init ==
  /\ args \in Options
  /\ items \in Leftovers
  /\ pc = "preparing" /\ at = 1 /\ plan = <<>>
  /\ proc = [c \in Children |-> "none"]
  /\ up = {} /\ files \in {{}, WorkerSet}
  /\ stop = FALSE /\ signalled = FALSE
  /\ seen = {} /\ alive = {} /\ asked = {} /\ killed = {}
  /\ code = "none"

----------------------------------------------------------------------------
(* Preparation: nothing is running yet, an error ends main() with 1 *)

Now(step) == pc = "preparing" /\ Preparing[at] = step

Quit(c) ==
  /\ pc' = "done" /\ code' = c
  /\ UNCHANGED <<plan, at, children, stop, signalled, seen, ending>>

\* The next preparation step; --check-only ends with the certificates.
Advance ==
  /\ IF Preparing[at] = "certs" /\ "check_only" \in args
     THEN pc' = "done" /\ code' = "0" /\ at' = at
     ELSE pc' = pc /\ code' = code /\ at' = at + 1
  /\ UNCHANGED <<plan, children, stop, signalled, seen, ending>>

\* The probe of an item; existing certificates are not used when new ones are asked
\* for.
Present(step) == items[step] # "absent" /\ (step = "certs" => "force_certs" \notin args)

\* The flag that forbids providing a missing item.
Forbidden(step) == \/ step \in {"deps", "frontend"} /\ "auto_install" \notin args
                   \/ step = "native" /\ "skip_native_build" \in args

\* The installer, generator or builder of an item: one that fails may have changed
\* nothing, removed what was there, or left it half-made.
Made(step) == items' = [items EXCEPT ![step] = "whole"]
Unmade(step) == \E left \in {items[step], "absent", "broken"} : items' = [items EXCEPT ![step] = left]

\* Mutant: the exit status of the command is not looked at.
Provide_Unchecked(step) ==
  /\ Now(step) /\ UNCHANGED args
  /\ \/ Present(step) /\ items' = items /\ Advance
     \/ ~Present(step) /\ Forbidden(step) /\ items' = items /\ Quit("1")
     \/ ~Present(step) /\ ~Forbidden(step) /\ (Made(step) \/ Unmade(step)) /\ Advance

\* A prerequisite: probed, and installed, generated or built when missing.  The
\* native module is loaded once more.
Provide(step) ==
  /\ Now(step) /\ UNCHANGED args
  /\ \/ Present(step) /\ items' = items /\ (Advance \/ (step = "native" /\ Quit("1")))
     \/ ~Present(step) /\ Forbidden(step) /\ items' = items /\ Quit("1")
     \/ /\ ~Present(step) /\ ~Forbidden(step)
        /\ \/ Made(step) /\ Advance
           \/ Unmade(step) /\ Quit("1")

\* The files and tools the run needs are there, and the Python is new enough.
CheckTools == Now("tools") /\ UNCHANGED prepared /\ (Advance \/ Quit("1"))

\* The ports are free, or another dashboard port is found, or the run ends.
CheckPorts == Now("ports") /\ UNCHANGED prepared /\ (Advance \/ Quit("1"))

\* The manager is created and the first child is next.
Launch(with) ==
  /\ plan' = <<Coordinator>> \o (IF "network" \in args THEN Workers ELSE <<>>)
               \o (IF with THEN <<Dashboard>> ELSE <<>>) \o <<Training>>
  /\ pc' = "starting" /\ at' = 1
  /\ UNCHANGED <<code, children, stop, signalled, seen, ending>>

\* prepare_dashboard(): the dashboard is left out when it is not asked for, its
\* sources or npm are not there, or its packages are missing and may not be
\* installed.
PrepareDashboard ==
  /\ Now("frontend") /\ UNCHANGED args
  /\ \/ items' = items /\ Launch(FALSE)
        /\ \/ "dashboard" \notin args
           \/ ~Present("frontend") /\ Forbidden("frontend")
           \/ "npm" \notin args
     \/ {"dashboard", "npm"} \subseteq args /\ Present("frontend") /\ items' = items /\ Launch(TRUE)
     \/ /\ {"dashboard", "npm"} \subseteq args /\ ~Present("frontend") /\ ~Forbidden("frontend")
        /\ \/ Made("frontend") /\ Launch(TRUE)
           \/ Unmade("frontend") /\ Quit("1")

----------------------------------------------------------------------------
(* Leaving orchestrate(): its finally clause runs Manager.shutdown() *)

\* shutdown() notes the status, closes, and lists the children still running.
Leave(c) ==
  /\ code' = c /\ pc' = "stopping" /\ stop' = TRUE
  /\ alive' = {d \in Children : Running(d)}
  /\ UNCHANGED <<args, items, plan, at, children, signalled, asked, killed>>

\* SIGTERM to the group of every child on the list.
Terminate ==
  /\ pc = "stopping" /\ pc' = IF alive = {} THEN "done" ELSE "reaping"
  /\ asked' = alive
  /\ UNCHANGED <<prepared, plan, at, children, stop, signalled, seen, alive, killed, code>>

\* Mutant: who does not obey is left alone.
Reap_NoKill ==
  /\ pc = "reaping"
  /\ pc' = "done" /\ killed' = {}
  /\ UNCHANGED <<prepared, plan, at, children, stop, signalled, seen, alive, asked, code>>

\* The waits end with the last child or at the shared deadline; SIGKILL to the
\* groups of those still running.
Reap ==
  /\ pc = "reaping"
  /\ pc' = "done" /\ killed' = {c \in alive : Running(c)}
  /\ UNCHANGED <<prepared, plan, at, children, stop, signalled, seen, alive, asked, code>>

----------------------------------------------------------------------------
(* Start-up *)

This == plan[at]

\* Mutant: the health file of an earlier run stays.
Start_StaleFile ==
  /\ pc = "starting"
  /\ proc' = [proc EXCEPT ![This] = "running"]
  /\ files' = files
  /\ pc' = IF This \in WorkerSet THEN "health"
           ELSE IF This = Training THEN "settling" ELSE "port_stop"
  /\ UNCHANGED <<prepared, plan, at, up, stop, signalled, seen, ending, code>>

\* Manager.start(), for a worker after its health file is removed.
Start ==
  /\ pc = "starting"
  /\ proc' = [proc EXCEPT ![This] = "running"]
  /\ files' = files \ {This}
  /\ pc' = IF This \in WorkerSet THEN "health"
           ELSE IF This = Training THEN "settling" ELSE "port_stop"
  /\ UNCHANGED <<prepared, plan, at, up, stop, signalled, seen, ending, code>>

\* Popen raises.
StartFails == pc = "starting" /\ Leave("1") /\ UNCHANGED seen

Ready ==
  /\ pc' = "starting" /\ at' = at + 1
  /\ UNCHANGED <<prepared, plan, children, stop, signalled, seen, ending, code>>

Look(where) ==
  /\ pc' = where
  /\ UNCHANGED <<prepared, plan, at, children, stop, signalled, seen, ending, code>>

\* wait_port(): one pass looks at the event, the process and the port.
PortStop == pc = "port_stop" /\ IF stop THEN Leave("130") /\ UNCHANGED seen
                                        ELSE Look("port_exit")
PortExit == pc = "port_exit" /\ IF Exited(This) THEN Leave("1") /\ UNCHANGED seen
                                                ELSE Look("port_open")
PortOpen == pc = "port_open" /\ IF This \in up /\ Running(This) THEN Ready
                                                                ELSE Look("port_stop")

\* The loop on a worker's health file looks at the file and the process, never
\* at the event.
Health == pc = "health" /\ IF This \in files THEN Ready ELSE Look("health_exit")
HealthExit == pc = "health_exit" /\ IF Exited(This) THEN Leave("1") /\ UNCHANGED seen
                                                    ELSE Look("health")

\* --startup-timeout has passed; a health file is looked for once more.
StartupTimeout ==
  /\ \/ pc = "port_stop"
     \/ pc = "health" /\ This \notin files
  /\ Leave("1") /\ UNCHANGED seen

\* Half a second after its start the trainer must still run.
Settle == pc = "settling" /\ IF Exited(This) THEN Leave("1") /\ UNCHANGED seen
                                             ELSE Look("waiting")

----------------------------------------------------------------------------
(* Manager.wait() *)

\* Mutant: the event is looked at only when a child has exited.
Wait_IgnoresStop ==
  /\ pc = "waiting"
  /\ pc' = "polling" /\ at' = 1
  /\ UNCHANGED <<prepared, plan, children, stop, signalled, seen, ending, code>>

\* stop.wait(0.25) before each pass over the children.
Wait ==
  /\ pc = "waiting"
  /\ \/ stop /\ Leave("0") /\ UNCHANGED seen
     \/ /\ ~stop /\ pc' = "polling" /\ at' = 1
        /\ UNCHANGED <<prepared, plan, children, stop, signalled, seen, ending, code>>

\* Mutant: a lost child that ended with 0 counts as success.
Verdict_ExitStatus(c) ==
  IF c = Training THEN IF proc[c] = "failed" THEN "rc"
                       ELSE IF "keep_alive" \in args THEN "none" ELSE "0"
  ELSE IF c = Dashboard THEN "none"
  ELSE IF proc[c] = "failed" THEN "rc" ELSE "0"

\* Mutant: the dashboard is as vital as the others.
Verdict_NotOptional(c) ==
  IF c = Training THEN IF proc[c] = "failed" THEN "rc"
                       ELSE IF "keep_alive" \in args THEN "none" ELSE "0"
  ELSE IF proc[c] = "failed" THEN "rc" ELSE "1"

\* What the exit of child c means for the run, the status to leave with or "none":
\* a child's own failure status ("rc"), 0 for a trainer that ended with 0, 1 for a
\* required child that ended without an error; the dashboard is optional.
Verdict(c) ==
  IF c = Training THEN IF proc[c] = "failed" THEN "rc"
                       ELSE IF "keep_alive" \in args THEN "none" ELSE "0"
  ELSE IF c = Dashboard THEN "none"
  ELSE IF proc[c] = "failed" THEN "rc" ELSE "1"

PassOn ==
  /\ IF at = Len(plan) THEN pc' = "waiting" /\ at' = at ELSE pc' = pc /\ at' = at + 1
  /\ UNCHANGED <<prepared, plan, children, stop, signalled, ending, code>>

Poll ==
  /\ pc = "polling"
  /\ IF Exited(This) /\ This \notin seen
     THEN /\ seen' = seen \cup {This}
          /\ IF Verdict(This) = "none" THEN PassOn ELSE Leave(Verdict(This))
     ELSE seen' = seen /\ PassOn

----------------------------------------------------------------------------
(* Signals and children *)

\* on_signal(), installed before the first child is started.
Signal ==
  /\ pc \notin {"preparing", "done"} /\ ~signalled
  /\ stop' = TRUE /\ signalled' = TRUE
  /\ UNCHANGED <<prepared, pc, plan, at, children, seen, ending, code>>

\* The child listens on its port, or has registered and writes its health file;
\* a worker registers with a coordinator that is up.
BecomeReady(c) ==
  /\ Running(c) /\ c \notin up /\ c # Training
  /\ c \in WorkerSet => Coordinator \in up /\ Running(Coordinator)
  /\ up' = up \cup {c}
  /\ files' = IF c \in WorkerSet THEN files \cup {c} ELSE files
  /\ UNCHANGED <<prepared, pc, plan, at, proc, stop, signalled, seen, ending, code>>

Exit(c) ==
  /\ Running(c) /\ c \notin killed
  /\ \E status \in {"ok", "failed"} : proc' = [proc EXCEPT ![c] = status]
  /\ UNCHANGED <<prepared, pc, plan, at, up, files, stop, signalled, seen, ending, code>>

\* SIGKILL cannot be ignored.
Die(c) ==
  /\ Running(c) /\ c \in killed
  /\ proc' = [proc EXCEPT ![c] = "failed"]
  /\ UNCHANGED <<prepared, pc, plan, at, up, files, stop, signalled, seen, ending, code>>

Main ==
  \/ \E step \in {"deps", "proto", "native", "certs"} : Provide(step)
  \/ CheckTools \/ CheckPorts \/ PrepareDashboard
  \/ Start \/ StartFails
  \/ PortStop \/ PortExit \/ PortOpen \/ Health \/ HealthExit \/ Settle
  \/ Wait \/ Poll \/ Terminate \/ Reap

Next ==
  \/ Main \/ StartupTimeout \/ Signal
  \/ \E c \in Children : BecomeReady(c) \/ Exit(c) \/ Die(c)

Spec == Init /\ [][Next]_vars

\* The main thread goes on, every deadline passes, SIGKILL is delivered.  No
\* child is assumed to become ready, to exit or to obey SIGTERM.
Fairness ==
  /\ WF_vars(Main) /\ SF_vars(StartupTimeout)
  /\ \A c \in Children : WF_vars(Die(c))

FairSpec == Spec /\ Fairness

----------------------------------------------------------------------------
(* Properties *)

\* Only children that were started are alive, asked to end or killed.
TypeOK ==
  /\ args \in Options /\ items \in [Items -> {"absent", "partial", "whole", "broken"}]
  /\ at \in 1 .. Len(Workers) + 6
  /\ proc \in [Children -> {"none", "running", "ok", "failed"}]
  /\ up \subseteq Started /\ files \subseteq WorkerSet
  /\ stop \in BOOLEAN /\ signalled \in BOOLEAN
  /\ seen \subseteq Started /\ killed \subseteq asked
  /\ asked \subseteq alive /\ alive \subseteq Started
  /\ code \in {"none", "0", "1", "130", "rc"}

\* Items that passed their probe as this run found them, or that this run made.
Usable == {x \in Items : items[x] \in {"partial", "whole"}}

\* No child is started before everything it needs has passed its probe or was made
\* by this run, whichever step failed: never over what a failed step left half-made.
\* (What an earlier run left half-made is used when it passes its probe.)  The next
\* child is started only when all children before it have become ready in this run:
\* a health file left by an earlier run does not count.
StartsInOrder ==
  /\ TypeOK
  /\ Started # {} => {"deps", "proto", "native", "certs"} \subseteq Usable
  /\ Dashboard \in Started => "frontend" \in Usable
  /\ \A i, j \in 1 .. Len(plan) : i < j /\ plan[j] \in Started => plan[i] \in up

\* Without a signal, exit status 0 means that the trainer ended with status 0: it
\* ran all its rounds, or was stopped at a round boundary from the dashboard.
ZeroMeansTrained ==
  pc = "done" /\ code = "0" /\ ~signalled /\ "check_only" \notin args
    => proc[Training] = "ok"

\* Once the children are being watched, only a signal, the end of the training or
\* the end of a required child makes the orchestrator stop, and losing the
\* dashboard never does.
DashboardIsOptional ==
  [][(pc \in {"waiting", "polling"} /\ pc' = "stopping")
       => (signalled \/ (\E c \in Children \ {Dashboard} : Exited(c)))]_vars

\* A signal ends the orchestrator, in whatever phase it arrives.  So does the end
\* of a required child while the children are watched, and the end of the training
\* unless --keep-alive is given and it ended with 0.
SignalOrLossEnds ==
  /\ signalled ~> (pc = "done")
  /\ \A c \in Children \ {Dashboard} :
       (pc \in {"waiting", "polling"} /\ Exited(c)
          /\ ~(c = Training /\ proc[c] = "ok" /\ "keep_alive" \in args))
         ~> (pc = "done")

\* After the orchestrator has ended none of the processes it started goes on,
\* even one that ignores SIGTERM.
NothingOutlives == (pc = "done") ~> (\A c \in Children : ~Running(c))

=============================================================================
