----------------------------- MODULE TrainingStream -----------------------------
(***************************************************************************)
(* scripts/run_master_training.py: a training run that publishes its state *)
(* in a file for the dashboard and takes a stop command from another file. *)
(* Two threads of the trainer write the state file: the main thread after  *)
(* every event of the run, and the sampler.  The dashboard (route.ts)      *)
(* reads the state file and writes the command file at any time, and the   *)
(* process may be killed at any time.                                      *)
(***************************************************************************)
EXTENDS Integers, Sequences

CONSTANTS
  Rounds,      \* --rounds
  Keep,        \* rounds kept in the history
  MaxSamples,  \* bound on the system samples
  MaxPosts     \* bound on the stop commands

ASSUME StreamAssumption ==
  /\ Rounds \in Nat \ {0} /\ Keep \in Nat \ {0}
  /\ MaxSamples \in Nat /\ MaxPosts \in Nat

VARIABLES
  pc,        \* the main thread: its next step, once its write is done
  sampler,   \* "none", "running" or "dead"
  stopped,   \* _SAMPLER_STOP
  active, history, recorded, samples,
             \* _ACTIVE, _HISTORY, the round of the last worker results, and the
             \* number of samples taken
  begun,     \* rounds begun
  lock,      \* holder of _WRITE_LOCK
  write,     \* the _write_state() of each thread
  doc,       \* what it is about to publish
  published, \* the state file
  command,   \* the command file: "none" or "stop"
  posts,     \* stop commands posted
  asked,     \* history: this run was told to stop, and has not lost the command
  late       \* history: rounds begun since it was told to stop

main == <<pc, begun, stopped, late>>
state == <<active, history, recorded, samples>>
writing == <<lock, write, doc>>
posted == <<command, posts, asked>>
vars == <<pc, sampler, stopped, active, history, recorded, samples, begun, lock, write,
          doc, published, command, posts, asked, late>>

Threads == {"main", "sampler"}
Nothing == [active |-> FALSE, history |-> <<>>, recorded |-> 0, samples |-> 0]
LastOf(rounds) == IF rounds = <<>> THEN 0 ELSE rounds[Len(rounds)]

\* The command file may be left over from an earlier run.
Init ==
  /\ pc = "main" /\ sampler = "none" /\ stopped = FALSE
  /\ active = FALSE /\ history = <<>> /\ recorded = 0 /\ samples = 0 /\ begun = 0
  /\ lock = "free" /\ write = [t \in Threads |-> "idle"] /\ doc = [t \in Threads |-> Nothing]
  /\ published = Nothing
  /\ command \in {"none", "stop"} /\ posts = 0 /\ asked = FALSE /\ late = 0

----------------------------------------------------------------------------
(* _write_state(), in either thread *)

Want(t) == write' = [write EXCEPT ![t] = "acquire"] /\ UNCHANGED <<lock, doc, published>>

\* Mutant: the state is put together before the lock is taken.
Acquire_Late(t) ==
  /\ write[t] = "acquire"
  /\ \/ /\ doc[t] = Nothing /\ UNCHANGED <<lock, write>>
        /\ doc' = [doc EXCEPT ![t] = [active |-> active, history |-> history,
                                      recorded |-> recorded, samples |-> samples]]
     \/ /\ doc[t] # Nothing /\ lock = "free" /\ lock' = t
        /\ write' = [write EXCEPT ![t] = "replace"] /\ doc' = doc
  /\ UNCHANGED <<main, sampler, state, published, posted>>

Acquire(t) ==
  /\ write[t] = "acquire" /\ lock = "free"
  /\ lock' = t /\ write' = [write EXCEPT ![t] = "state"]
  /\ UNCHANGED <<main, sampler, state, doc, published, posted>>

\* _state(): the first critical section of _STATE_LOCK ...
ReadState(t) ==
  /\ write[t] = "state"
  /\ doc' = [doc EXCEPT ![t].active = active, ![t].history = history,
                        ![t].samples = samples]
  /\ write' = [write EXCEPT ![t] = "workers"]
  /\ UNCHANGED <<main, sampler, state, lock, published, posted>>

\* ... and _worker_snapshot(), the second.  Then the temporary file is written.
ReadWorkers(t) ==
  /\ write[t] = "workers"
  /\ doc' = [doc EXCEPT ![t].recorded = recorded]
  /\ write' = [write EXCEPT ![t] = "replace"]
  /\ UNCHANGED <<main, sampler, state, lock, published, posted>>

Replace(t) ==
  /\ write[t] = "replace"
  /\ published' = doc[t]
  /\ lock' = "free" /\ write' = [write EXCEPT ![t] = "idle"]
  /\ doc' = [doc EXCEPT ![t] = Nothing]
  /\ UNCHANGED <<main, sampler, state, posted>>

\* Mutant: the lock is not released when the write raises.
WriteFails_KeepsLock(t) ==
  /\ write[t] = "replace"
  /\ lock' = lock /\ write' = [write EXCEPT ![t] = "idle"]
  /\ doc' = [doc EXCEPT ![t] = Nothing]
  /\ IF t = "sampler"
     THEN sampler' = "dead" /\ pc' = pc
     ELSE /\ sampler' = sampler
          /\ pc' = IF pc = "done" \/ sampler = "none" THEN "failed" ELSE "finally"
  /\ UNCHANGED <<begun, stopped, late, state, published, posted>>

\* Writing or renaming the temporary file raises: the sampler thread ends; the
\* main thread goes to the finally clause, or ends when it is already there.
WriteFails(t) ==
  /\ write[t] = "replace"
  /\ lock' = "free" /\ write' = [write EXCEPT ![t] = "idle"]
  /\ doc' = [doc EXCEPT ![t] = Nothing]
  /\ IF t = "sampler"
     THEN sampler' = "dead" /\ pc' = pc
     ELSE /\ sampler' = sampler
          /\ pc' = IF pc = "done" \/ sampler = "none" THEN "failed" ELSE "finally"
  /\ UNCHANGED <<begun, stopped, late, state, published, posted>>

----------------------------------------------------------------------------
(* The main thread *)

Ready(step) == pc = step /\ write["main"] = "idle"

\* main(): the command file is removed, the run is announced ...
Main ==
  /\ Ready("main")
  /\ pc' = "spawn" /\ active' = TRUE /\ command' = "none"
  /\ Want("main")
  /\ UNCHANGED <<sampler, stopped, history, recorded, samples, begun, posts, asked, late>>

\* ... and the sampler is started.
Spawn ==
  /\ Ready("spawn")
  /\ sampler' = "running" /\ pc' = "start"
  /\ UNCHANGED <<stopped, state, begun, writing, published, posted, late>>

\* start() of the streaming coordinator; base.main() may raise before and in it.
Start ==
  /\ Ready("start")
  /\ \/ pc' = "boundary" /\ Want("main")
     \/ pc' = "finally" /\ UNCHANGED <<writing, published>>
  /\ UNCHANGED <<sampler, stopped, state, begun, posted, late>>

\* _run_round() begins with _consume_stop_request(): it looks for the command file,
\* and reads it; an OSError in reading leaves an empty payload.
Boundary ==
  /\ Ready("boundary") /\ begun < Rounds
  /\ \/ command = "none" /\ pc' = "round"
     \/ command = "stop" /\ pc' \in {"obey", "ignore"}
  /\ UNCHANGED <<sampler, stopped, state, begun, writing, published, posted, late>>

\* Mutant: the command is removed, and the round is run.
Obey_RunsOn ==
  /\ Ready("obey") /\ command' = "none" /\ pc' = "round"
  /\ UNCHANGED <<sampler, stopped, state, begun, writing, published, posts, asked, late>>

\* It then removes the file, whatever was posted since; a stop that was read ends
\* the run ...
Obey ==
  /\ Ready("obey")
  /\ command' = "none" /\ active' = FALSE /\ pc' = "finally" /\ Want("main")
  /\ UNCHANGED <<sampler, stopped, history, recorded, samples, begun, posts, asked, late>>

\* ... and one that could not be read is lost.
Ignore ==
  /\ Ready("ignore")
  /\ command' = "none" /\ pc' = "round" /\ asked' = FALSE /\ late' = 0
  /\ UNCHANGED <<sampler, stopped, state, begun, writing, published, posts>>

\* The removal raises.
RemovalFails ==
  /\ Ready("obey") \/ Ready("ignore")
  /\ pc' = "finally"
  /\ UNCHANGED <<sampler, stopped, state, begun, writing, published, posted, late>>

\* The base class runs the round; a command that is already in place waits.
BeginRound ==
  /\ Ready("round") /\ begun' = begun + 1 /\ pc' = "collect"
  /\ late' = IF asked THEN late + 1 ELSE late
  /\ UNCHANGED <<sampler, stopped, state, writing, published, posted>>

\* _collect_round_results(), or the round raises before it.
Collect ==
  /\ Ready("collect")
  /\ \/ pc' = "aggregate" /\ recorded' = begun /\ Want("main")
     \/ pc' = "finally" /\ UNCHANGED <<recorded, writing, published>>
  /\ UNCHANGED <<sampler, stopped, active, history, samples, begun, posted, late>>

\* Mutant: the oldest rounds are kept instead of the latest.
Aggregate_KeepsOldest ==
  /\ Ready("aggregate")
  /\ \/ pc' = "boundary" /\ Want("main")
        /\ history' = IF Len(history) < Keep THEN Append(history, begun) ELSE history
     \/ pc' = "finally" /\ UNCHANGED <<history, writing, published>>
  /\ UNCHANGED <<sampler, stopped, active, recorded, samples, begun, posted, late>>

\* The rest of the round and _emit_round(), or an aggregation error.
Aggregate ==
  /\ Ready("aggregate")
  /\ \/ pc' = "boundary" /\ Want("main")
        /\ LET all == Append(history, begun)
           IN history' = IF Len(all) > Keep THEN Tail(all) ELSE all
     \/ pc' = "finally" /\ UNCHANGED <<history, writing, published>>
  /\ UNCHANGED <<sampler, stopped, active, recorded, samples, begun, posted, late>>

AllRoundsDone ==
  /\ Ready("boundary") /\ begun = Rounds
  /\ pc' = "finally"
  /\ UNCHANGED <<sampler, stopped, state, begun, writing, published, posted, late>>

Finally ==
  /\ Ready("finally")
  /\ active' = FALSE /\ stopped' = TRUE /\ pc' = "join"
  /\ UNCHANGED <<sampler, history, recorded, samples, begun, writing, published, posted, late>>

\* The join ends with the sampler or after two seconds; then the last write.
Join ==
  /\ Ready("join")
  /\ pc' = "done" /\ Want("main")
  /\ UNCHANGED <<sampler, stopped, state, begun, posted, late>>

----------------------------------------------------------------------------
(* The sampler, the dashboard, and the end of the process *)

\* The interpreter exits, and the sampler, a daemon, with it.
Exit ==
  /\ Ready("done") /\ pc' = "exited"
  /\ UNCHANGED <<sampler, stopped, state, begun, writing, published, posted, late>>

Over == pc \in {"failed", "killed", "exited"}

Sample ==
  /\ sampler = "running" /\ write["sampler"] = "idle" /\ ~stopped
  /\ samples < MaxSamples /\ samples' = samples + 1
  /\ Want("sampler")
  /\ UNCHANGED <<main, sampler, active, history, recorded, posted>>

SamplerEnds ==
  /\ sampler = "running" /\ write["sampler"] = "idle" /\ stopped
  /\ sampler' = "dead"
  /\ UNCHANGED <<main, state, writing, published, posted>>

\* POST: the complete command is renamed into place.  A run that has not started
\* yet will remove it as a leftover.
Post ==
  /\ posts < MaxPosts
  /\ command' = "stop" /\ posts' = posts + 1
  /\ asked' = (asked \/ pc # "main")
  /\ UNCHANGED <<main, sampler, state, writing, published>>

Kill ==
  /\ pc' = "killed"
  /\ UNCHANGED <<sampler, stopped, state, begun, writing, published, posted, late>>

WriteState(t) ==
  Acquire(t) \/ ReadState(t) \/ ReadWorkers(t) \/ Replace(t) \/ WriteFails(t)

MainThread ==
  /\ ~Over
  /\ \/ WriteState("main")
     \/ Main \/ Spawn \/ Start \/ Boundary \/ Obey \/ Ignore \/ RemovalFails
     \/ BeginRound \/ Collect \/ Aggregate \/ AllRoundsDone \/ Finally \/ Join \/ Exit

SamplerThread == ~Over /\ (WriteState("sampler") \/ Sample \/ SamplerEnds)

Next == MainThread \/ SamplerThread \/ (~Over /\ (Post \/ Kill))

Spec == Init /\ [][Next]_vars

\* Both threads go on, and a thread that keeps asking for the lock gets it.
FairSpec == /\ Spec
            /\ WF_vars(MainThread) /\ WF_vars(SamplerThread)
            /\ SF_vars(~Over /\ Acquire("main"))

----------------------------------------------------------------------------
(* Properties *)

\* Types of the trainer's state; the history never exceeds its limit.
TypeOK ==
  /\ pc \in {"main", "spawn", "start", "boundary", "obey", "ignore", "round", "collect",
             "aggregate", "finally", "join", "done", "exited", "failed", "killed"}
  /\ sampler \in {"none", "running", "dead"} /\ stopped \in BOOLEAN /\ active \in BOOLEAN
  /\ history \in Seq(1 .. Rounds) /\ Len(history) <= Keep
  /\ recorded \in 0 .. Rounds /\ begun \in 0 .. Rounds /\ samples \in 0 .. MaxSamples
  /\ lock \in Threads \cup {"free"}
  /\ write \in [Threads -> {"idle", "acquire", "state", "workers", "replace"}]
  /\ command \in {"none", "stop"} /\ posts \in 0 .. MaxPosts
  /\ asked \in BOOLEAN /\ late \in 0 .. Rounds

\* The state file never goes back, whichever thread writes it: no round, result or
\* sample it has shown disappears behind an older state, and a run it has shown as
\* ended is not shown as active again.
PublishedNeverRegresses ==
  [][/\ LastOf(published'.history) >= LastOf(published.history)
     /\ published'.recorded >= published.recorded
     /\ published'.samples >= published.samples
     /\ (published'.active /\ ~published.active) => pc = "spawn"]_vars

\* What the state file shows is current.  The two critical sections of _state() do
\* not tear it apart: its worker results are those of its last round or of the one
\* after it.  At a round boundary it shows the round just completed.  A trainer
\* that ends on its own, by a stop, an error or after its last round, leaves a file
\* with an inactive run and its last results, even when the sampler outlives the
\* join.
PublishedIsCurrent ==
  /\ TypeOK
  /\ published.recorded >= LastOf(published.history)
  /\ published.recorded <= LastOf(published.history) + 1
  /\ Ready("boundary") => LastOf(published.history) = begun
  /\ pc = "exited" => /\ ~published.active
                      /\ published.history = history /\ published.recorded = recorded

\* A stop takes effect within one round: from the moment this run is told to stop, at
\* most one more round begins, whichever step of the run the command meets and even
\* when _consume_stop_request() removes it together with a later one; only a command
\* file that could not be read (or one that replaced it before the removal) is lost.
\* And only a command posted to this run stops it, never one left behind for an
\* earlier run.
StopWithinOneRound ==
  /\ late <= 1
  /\ pc = "finally" /\ ~active => asked

\* The trainer ends although its threads share a lock and writes may fail.
Finishes == <>Over

=============================================================================
