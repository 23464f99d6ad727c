-------------------------- MODULE TrainingStreamProofs --------------------------
(***************************************************************************)
(* For any number of rounds, samples and stop commands: the state file is  *)
(* current and never goes back although two threads write it, and a stop   *)
(* takes effect within one round.                                          *)
(*                                                                         *)
(* The argument is the lock's: only its holder has a document, and since   *)
(* it has been read after the acquisition it lies between what the file    *)
(* shows and the state.  The one thing the lock does not order is the      *)
(* state against the sampler's two critical sections; Whole says what may  *)
(* happen between them.                                                    *)
(***************************************************************************)
EXTENDS TrainingStream, SequenceTheorems, TLAPS

\* Most leaves are first-order; the others cite SMT.
USE Zenon

Doc == [active : BOOLEAN, history : Seq(1 .. Rounds),
        recorded : 0 .. Rounds, samples : 0 .. MaxSamples]

Types == TypeOK /\ doc \in [Threads -> Doc] /\ published \in Doc

\* _WRITE_LOCK is held from its acquisition to the replacement of the file.
Locking == \A t \in Threads : lock = t <=> write[t] \in {"state", "workers", "replace"}

\* How far the round in progress has come.
Counting ==
  /\ LastOf(history) <= recorded /\ recorded <= LastOf(history) + 1
  /\ pc \in {"main", "spawn", "start", "boundary", "obey", "ignore", "round"} =>
       begun = LastOf(history) /\ recorded = begun
  /\ pc = "collect" => begun = LastOf(history) + 1 /\ recorded = LastOf(history)
  /\ pc = "aggregate" => begun = LastOf(history) + 1 /\ recorded = begun
  /\ pc \in {"obey", "ignore", "round"} => begun < Rounds

\* When the main thread writes, the sampler runs and the run is active.
Control ==
  /\ ~Over /\ write["main"] # "idle" => pc \in {"spawn", "boundary", "aggregate", "finally", "done"}
  /\ ~Over => (sampler = "none" <=> pc \in {"main", "spawn"})
  /\ sampler = "none" => write["sampler"] = "idle"
  /\ pc \in {"spawn", "start", "boundary", "obey", "ignore", "round", "collect", "aggregate"} =>
       active
  /\ pc \in {"main", "join", "done", "exited"} => ~active

\* What becomes of a stop command: it stays in place until the next boundary, so that
\* no round begins there while it waits.
Stopping ==
  /\ late <= 1 /\ (~asked => late = 0)
  /\ pc = "round" => late = 0
  /\ pc \in {"spawn", "start", "boundary", "obey", "ignore", "round", "collect", "aggregate"} =>
       (asked <=> command = "stop")
  /\ pc = "main" => ~asked
  /\ pc = "obey" => asked
  /\ pc = "finally" /\ ~active => asked

\* The file is never ahead of the state, nor torn.
Shown ==
  /\ LastOf(published.history) <= LastOf(history)
  /\ published.recorded <= recorded /\ published.samples <= samples
  /\ LastOf(published.history) <= published.recorded
  /\ published.recorded <= LastOf(published.history) + 1

\* What thread t is about to publish is between the file and the state.
Taken(t) ==
  /\ write[t] \in {"workers", "replace"} =>
       /\ LastOf(published.history) <= LastOf(doc[t].history)
       /\ LastOf(doc[t].history) <= LastOf(history)
       /\ published.samples <= doc[t].samples /\ doc[t].samples <= samples
  /\ write[t] = "replace" =>
       /\ published.recorded <= doc[t].recorded /\ doc[t].recorded <= recorded
       /\ LastOf(doc[t].history) <= doc[t].recorded
       /\ doc[t].recorded <= LastOf(doc[t].history) + 1

\* The main thread publishes exactly the state.  While the sampler is between the
\* two critical sections of _state(), at most one round is completed: the main
\* thread then waits for the lock.
Whole ==
  /\ write["main"] \in {"workers", "replace"} =>
       doc["main"].active = active /\ doc["main"].history = history
  /\ write["main"] = "replace" => doc["main"].recorded = recorded
  /\ write["sampler"] = "workers" =>
       \/ LastOf(history) = LastOf(doc["sampler"].history)
       \/ /\ LastOf(history) = LastOf(doc["sampler"].history) + 1
          /\ recorded = LastOf(history) /\ write["main"] = "acquire"

\* An active run is shown as active, and an ended one is not shown as active again.
Announced ==
  /\ pc = "spawn" /\ write["main"] = "idle" => published.active
  /\ ~Over /\ pc \notin {"main", "spawn"} /\ active => published.active
  /\ \A t \in Threads : ~Over /\ pc \notin {"main", "spawn"} /\ write[t] \in {"workers", "replace"} =>
       /\ active => doc[t].active
       /\ doc[t].active => published.active

\* After its write at a boundary, or at its end, nobody can undo what the main thread
\* has shown.
Final ==
  /\ pc = "boundary" /\ write["main"] = "idle" => LastOf(published.history) = LastOf(history)
  /\ pc \in {"done", "exited"} /\ write["main"] = "idle" =>
       /\ ~published.active /\ published.history = history /\ published.recorded = recorded
       /\ write["sampler"] \in {"workers", "replace"} =>
            ~doc["sampler"].active /\ doc["sampler"].history = history
       /\ write["sampler"] = "replace" => doc["sampler"].recorded = recorded
  /\ pc = "exited" => write["main"] = "idle"

StreamInv ==
  /\ Types /\ Locking /\ Counting /\ Control /\ Stopping
  /\ Shown /\ (\A t \in Threads : Taken(t)) /\ Whole /\ Announced /\ Final

-----------------------------------------------------------------------------
(* The history *)

\* The last round of a history is a round, or 0.
LEMMA LastOfType == \A h \in Seq(1 .. Rounds) : LastOf(h) \in 0 .. Rounds
<1> SUFFICES ASSUME NEW h \in Seq(1 .. Rounds) PROVE LastOf(h) \in 0 .. Rounds
  OBVIOUS
<1>1. Rounds \in Nat
  BY StreamAssumption
<1>2. CASE h = <<>>
  BY <1>1, <1>2, SMT DEF LastOf
<1>3. CASE h # <<>>
  <2>1. Len(h) \in 1 .. Len(h)
    BY <1>3, EmptySeq, SMT
  <2> QED BY <1>1, <1>3, <2>1, SMT DEF LastOf
<1> QED BY <1>2, <1>3

\* An empty history has no last round.
LEMMA LastOfNothing == LastOf(<<>>) = 0 /\ Nothing \in Doc
BY StreamAssumption, SMT DEF LastOf, Nothing, Doc

\* _emit_round() keeps the latest rounds, the completed one among them.
LEMMA EmitRound ==
  ASSUME NEW h \in Seq(1 .. Rounds), Len(h) <= Keep, NEW r \in 1 .. Rounds,
         NEW k, k = (IF Len(Append(h, r)) > Keep THEN Tail(Append(h, r)) ELSE Append(h, r))
  PROVE  k \in Seq(1 .. Rounds) /\ Len(k) <= Keep /\ LastOf(k) = r
<1> DEFINE all == Append(h, r)
<1>1. /\ all \in Seq(1 .. Rounds) /\ Len(all) = Len(h) + 1 /\ Len(h) \in Nat
      /\ all[Len(h) + 1] = r
  BY SMT
<1>2. Keep \in Nat /\ Keep >= 1
  BY StreamAssumption, SMT
<1> HIDE DEF all
<1>3. CASE Len(all) > Keep
  <2>1. k = Tail(all) /\ all # <<>>
    BY <1>1, <1>3, SMT DEF all
  <2>2. /\ k \in Seq(1 .. Rounds) /\ Len(k) = Len(all) - 1
        /\ \A i \in 1 .. Len(k) : k[i] = all[i + 1]
    <3>1. all \in Seq(1 .. Rounds) /\ all # << >>
      BY <1>1, <2>1
    <3>2. /\ Tail(all) \in Seq(1 .. Rounds) /\ Len(Tail(all)) = Len(all) - 1
          /\ \A i \in 1 .. Len(Tail(all)) : Tail(all)[i] = all[i + 1]
      BY <3>1, HeadTailProperties
    <3> QED
      BY <2>1, <3>2
  <2>3. Len(k) = Len(h) /\ Len(k) >= 1
    BY <1>1, <1>2, <1>3, <2>2, SMT
  <2>4. Len(k) \in 1 .. Len(k)
    BY <1>1, <2>3, SMT
  <2>5. k[Len(k)] = all[Len(k) + 1]
    BY <2>2, <2>4
  <2>6. k # <<>>
    BY <2>3, SMT
  <2>7. k[Len(k)] = r
    BY <1>1, <2>3, <2>5
  <2>8. Len(k) <= Keep
    BY <2>3
  <2> QED BY <2>2, <2>7, <2>8, <2>6 DEF LastOf
<1>4. CASE ~(Len(all) > Keep)
  <2>1. k = all
    BY <1>4 DEF all
  <2>2. k # <<>> /\ k[Len(k)] = r
    BY <1>1, <2>1, SMT
  <2> QED BY <1>1, <1>2, <1>4, <2>1, <2>2, SMT DEF LastOf
<1> QED BY <1>3, <1>4

-----------------------------------------------------------------------------
(* One conjunct after the other *)

\* Initially nothing is shown, taken or posted.
LEMMA StreamInit == Init => StreamInv
<1> SUFFICES ASSUME Init PROVE StreamInv
  OBVIOUS
<1> USE DEF Init
<1>1. Types
  <2>1. history \in Seq(1 .. Rounds) /\ Len(history) <= Keep
    BY StreamAssumption, SMT
  <2>2. write \in [Threads -> {"idle", "acquire", "state", "workers", "replace"}]
        /\ doc \in [Threads -> Doc] /\ published \in Doc
    BY LastOfNothing
  <2>3. 0 \in 0 .. Rounds /\ 0 \in 0 .. MaxSamples /\ 0 \in 0 .. MaxPosts
    BY StreamAssumption, SMT
  <2> QED BY <2>1, <2>2, <2>3 DEF Types, TypeOK
<1>2. Locking
  BY DEF Locking, Threads
<1>3. Counting
  BY LastOfNothing, SMT DEF Counting
<1>4. Control /\ Stopping
  BY SMT DEF Control, Stopping, Over, Threads
<1>5. Shown
  BY LastOfNothing, SMT DEF Shown, Nothing
<1>6. Whole /\ Announced /\ (\A t \in Threads : Taken(t)) /\ Final
  BY DEF Whole, Announced, Taken, Final, Threads
<1> QED BY <1>1, <1>2, <1>3, <1>4, <1>5, <1>6 DEF StreamInv

\* What the last rounds are worth in arithmetic.
LEMMA Numbers ==
  ASSUME Types
  PROVE  /\ Rounds \in Nat /\ MaxSamples \in Nat /\ Keep \in Nat /\ MaxPosts \in Nat
         /\ LastOf(history) \in 0 .. Rounds /\ LastOf(published.history) \in 0 .. Rounds
         /\ \A t \in Threads : LastOf(doc[t].history) \in 0 .. Rounds
         /\ recorded \in Nat /\ samples \in Nat
         /\ published.recorded \in Nat /\ published.samples \in Nat
         /\ \A t \in Threads : doc[t].recorded \in Nat /\ doc[t].samples \in Nat
<1>1. Rounds \in Nat /\ MaxSamples \in Nat /\ Keep \in Nat /\ MaxPosts \in Nat
  BY StreamAssumption
<1>2. /\ history \in Seq(1 .. Rounds) /\ recorded \in 0 .. Rounds /\ samples \in 0 .. MaxSamples
      /\ published \in Doc /\ \A t \in Threads : doc[t] \in Doc
  BY DEF Types, TypeOK
<1>3. \A d \in Doc : d.history \in Seq(1 .. Rounds) /\ d.recorded \in Nat /\ d.samples \in Nat
  BY <1>1, SMT DEF Doc
<1> QED BY <1>1, <1>2, <1>3, LastOfType, SMT

\* A completed round becomes the last one of the history.
LEMMA Completes ==
  ASSUME Types, Counting, Aggregate
  PROVE  \/ /\ pc' = "boundary" /\ Want("main")
            /\ history' \in Seq(1 .. Rounds) /\ Len(history') <= Keep
            /\ LastOf(history') = begun /\ begun = LastOf(history) + 1 /\ recorded = begun
         \/ pc' = "finally" /\ UNCHANGED <<history, writing, published>>
<1>1. CASE pc' = "finally" /\ UNCHANGED <<history, writing, published>>
  BY <1>1
<1>2. CASE ~(pc' = "finally" /\ UNCHANGED <<history, writing, published>>)
  <2>1. begun = LastOf(history) + 1 /\ recorded = begun
    BY DEF Aggregate, Ready, Counting
  <2>2. begun \in 1 .. Rounds /\ history \in Seq(1 .. Rounds) /\ Len(history) <= Keep
    BY <2>1, Numbers, SMT DEF Types, TypeOK
  <2>3. /\ pc' = "boundary" /\ Want("main")
        /\ history' = IF Len(Append(history, begun)) > Keep THEN Tail(Append(history, begun))
                                                            ELSE Append(history, begun)
    BY <1>2 DEF Aggregate
  <2> QED BY <2>1, <2>2, <2>3, EmitRound
<1> QED BY <1>1, <1>2

\* No round begins beyond the last, and no second one under a stop.
LEMMA BegunRound ==
  ASSUME Types, Counting, Stopping, BeginRound
  PROVE  begun' \in 0 .. Rounds /\ late' \in 0 .. Rounds
<1>1. begun < Rounds /\ late = 0 /\ begun' = begun + 1 /\ late' = IF asked THEN late + 1 ELSE late
  BY DEF BeginRound, Ready, Counting, Stopping
<1>2. begun \in 0 .. Rounds
  BY DEF Types, TypeOK
<1> QED BY <1>1, <1>2, StreamAssumption, SMT

\* The types.
LEMMA TypesStep == StreamInv /\ [Next]_vars => Types'
<1> SUFFICES ASSUME StreamInv, [Next]_vars PROVE Types'
  OBVIOUS
<1>0. Types /\ Counting /\ Stopping
  BY DEF StreamInv
<1>b. Rounds \in Nat /\ MaxSamples \in Nat /\ MaxPosts \in Nat
  BY StreamAssumption
<1> USE <1>0, <1>b DEF Types, TypeOK, Threads
<1>1. ASSUME NEW t \in Threads, Acquire(t) \/ Replace(t) \/ WriteFails(t) PROVE Types'
  BY <1>1, LastOfNothing, SMT DEF Acquire, Replace, WriteFails, main, state, posted
<1>2. ASSUME NEW t \in Threads, ReadState(t) \/ ReadWorkers(t) PROVE Types'
  <2>0. doc[t] \in Doc
    OBVIOUS
  <2>1. doc' \in [Threads -> Doc]
    <3>1. CASE ReadState(t)
      <4>1. [doc[t] EXCEPT !.active = active, !.history = history, !.samples = samples] \in Doc
        BY <2>0 DEF Doc
      <4> QED BY <3>1, <4>1 DEF ReadState
    <3>2. CASE ReadWorkers(t)
      <4>1. [doc[t] EXCEPT !.recorded = recorded] \in Doc
        BY <2>0 DEF Doc
      <4> QED BY <3>2, <4>1 DEF ReadWorkers
    <3> QED BY <1>2, <3>1, <3>2
  <2> QED BY <1>2, <2>1, SMT DEF ReadState, ReadWorkers, main, state, posted
<1>3. CASE Main \/ Spawn
  BY <1>3 DEF Main, Spawn, Want, state, writing, posted
<1>s. CASE Start
  BY <1>s DEF Start, Want, state, writing, posted
<1>4. CASE Boundary
  BY <1>4 DEF Boundary, state, writing, posted
<1>5. CASE Obey
  BY <1>5 DEF Obey, Want
<1>6. CASE Ignore
  <2>1. late' \in 0 .. Rounds
    BY <1>6, SMT DEF Ignore
  <2> QED BY <1>6, <2>1 DEF Ignore, state, writing
<1>7. CASE BeginRound
  <2>1. begun' \in 0 .. Rounds /\ late' \in 0 .. Rounds
    BY <1>7, BegunRound
  <2> QED BY <1>7, <2>1 DEF BeginRound, state, writing, posted
<1>8. CASE Collect
  BY <1>8 DEF Collect, Want, state, writing, posted
<1>9. CASE Aggregate
  <2>1. history' \in Seq(1 .. Rounds) /\ Len(history') <= Keep
    BY <1>9, Completes
  <2> QED BY <1>9, <2>1 DEF Aggregate, Want, state, writing, posted
<1>10. CASE RemovalFails
  BY <1>10 DEF RemovalFails, state, writing, posted
<1>11. CASE AllRoundsDone
  BY <1>11 DEF AllRoundsDone, state, writing, posted
<1>12. CASE Finally
  BY <1>12 DEF Finally, writing, posted
<1>13. CASE Join
  BY <1>13 DEF Join, Want, state, posted
<1>14. CASE Exit
  BY <1>14 DEF Exit, state, writing, posted
<1>15. CASE Sample \/ SamplerEnds
  BY <1>15, SMT DEF Sample, SamplerEnds, Want, main, state, writing, posted
<1>16. CASE Post
  <2>1. posts' \in 0 .. MaxPosts
    BY <1>16, SMT DEF Post
  <2> QED BY <1>16, <2>1 DEF Post, main, state, writing
<1>17. CASE Kill
  BY <1>17 DEF Kill, state, writing, posted
<1>18. CASE UNCHANGED vars
  BY <1>18, SMT DEF vars
<1> QED BY <1>1, <1>2, <1>3, <1>s, <1>4, <1>5, <1>6, <1>7, <1>8, <1>9, <1>10, <1>11, <1>12, <1>13,
           <1>14, <1>15, <1>16, <1>17, <1>18
        DEF Next, MainThread, SamplerThread, WriteState

\* One thread at a time holds the lock.
LEMMA LockingStep == StreamInv /\ [Next]_vars => Locking'
<1> SUFFICES ASSUME StreamInv, [Next]_vars PROVE Locking'
  OBVIOUS
<1>0. /\ write \in [Threads -> {"idle", "acquire", "state", "workers", "replace"}]
      /\ lock \in Threads \cup {"free"} /\ Locking
  BY DEF StreamInv, Types, TypeOK
<1> USE <1>0 DEF Locking, Threads
<1>1. ASSUME NEW t \in Threads, WriteState(t) PROVE Locking'
  BY <1>1 DEF WriteState, Acquire, ReadState, ReadWorkers, Replace, WriteFails
<1>2. CASE Main \/ Spawn \/ Start \/ Boundary \/ Obey \/ Ignore \/ RemovalFails
           \/ BeginRound \/ Collect \/ Aggregate \/ AllRoundsDone \/ Finally \/ Join \/ Exit
  BY <1>2 DEF Main, Spawn, Start, Boundary, Obey, Ignore, RemovalFails, BeginRound, Collect,
     Aggregate, AllRoundsDone, Finally, Join, Exit, Want, Ready, writing
<1>3. CASE Sample \/ SamplerEnds \/ Post \/ Kill
  BY <1>3 DEF Sample, SamplerEnds, Post, Kill, Want, writing
<1>4. CASE UNCHANGED vars
  BY <1>4 DEF vars
<1> QED BY <1>1, <1>2, <1>3, <1>4 DEF Next, MainThread, SamplerThread

\* Only Collect and Aggregate move the round in progress on.
LEMMA CountingStep == StreamInv /\ [Next]_vars => Counting'
<1> SUFFICES ASSUME StreamInv, [Next]_vars PROVE Counting'
  OBVIOUS
<1>0. Types /\ Counting /\ Control /\ begun \in 0 .. Rounds /\ recorded \in 0 .. Rounds
  BY DEF StreamInv, Types, TypeOK
<1>1. Rounds \in Nat /\ LastOf(history) \in 0 .. Rounds
  BY <1>0, Numbers
<1> USE <1>0, <1>1 DEF Counting
<1>2. ASSUME NEW t \in Threads, WriteState(t) PROVE Counting'
  BY <1>2 DEF WriteState, Acquire, ReadState, ReadWorkers, Replace, WriteFails, main, state
<1>3. CASE Main \/ Spawn \/ Start \/ Boundary \/ Obey \/ Ignore \/ RemovalFails
  BY <1>3 DEF Main, Spawn, Start, Boundary, Obey, Ignore, RemovalFails, Ready, state
<1>4. CASE BeginRound \/ Collect
  BY <1>4, SMT DEF BeginRound, Collect, Ready, state
<1>5. CASE Aggregate
  <2>1. UNCHANGED <<recorded, begun>>
    BY <1>5 DEF Aggregate
  <2> QED BY <1>5, <2>1, Completes, SMT
<1>6. CASE AllRoundsDone \/ Finally \/ Join \/ Exit
  BY <1>6 DEF AllRoundsDone, Finally, Join, Exit, Ready, state
<1>7. CASE Sample \/ SamplerEnds \/ Post \/ Kill
  BY <1>7 DEF Sample, SamplerEnds, Post, Kill, main, state
<1>8. CASE UNCHANGED vars
  BY <1>8 DEF vars
<1> QED BY <1>2, <1>3, <1>4, <1>5, <1>6, <1>7, <1>8 DEF Next, MainThread, SamplerThread, Threads

\* Control.
LEMMA ControlStep == StreamInv /\ [Next]_vars => Control'
<1> SUFFICES ASSUME StreamInv, [Next]_vars PROVE Control'
  OBVIOUS
<1>0. Control /\ write \in [Threads -> {"idle", "acquire", "state", "workers", "replace"}]
  BY DEF StreamInv, Types, TypeOK
<1> USE <1>0 DEF Control, Over, Threads
<1>1. ASSUME NEW t \in Threads, Acquire(t) \/ ReadState(t) \/ ReadWorkers(t) \/ Replace(t), ~Over
      PROVE  Control'
  BY <1>1, SMT DEF Acquire, ReadState, ReadWorkers, Replace, main, state
<1>2. ASSUME NEW t \in Threads, WriteFails(t), ~Over PROVE Control'
  BY <1>2 DEF WriteFails, state
<1>3. CASE Main \/ Spawn \/ Start
  BY <1>3 DEF Main, Spawn, Start, Ready, Want, state, writing
<1>4. CASE Boundary \/ Ignore \/ RemovalFails
  BY <1>4, SMT DEF Boundary, Ignore, RemovalFails, Ready, state, writing
<1>5. CASE Obey
  BY <1>5 DEF Obey, Ready, Want
<1>6. CASE BeginRound \/ Collect \/ Aggregate
  BY <1>6, SMT DEF BeginRound, Collect, Aggregate, Ready, Want, state, writing
<1>7. CASE AllRoundsDone \/ Finally \/ Join \/ Exit
  BY <1>7, SMT DEF AllRoundsDone, Finally, Join, Exit, Ready, Want, state, writing
<1>8. CASE ~Over /\ (Sample \/ SamplerEnds)
  BY <1>8, SMT DEF Sample, SamplerEnds, Want, main, state, writing
<1>9. CASE ~Over /\ (Post \/ Kill)
  BY <1>9, SMT DEF Post, Kill, main, state, writing
<1>10. CASE UNCHANGED vars
  BY <1>10 DEF vars
<1> QED BY <1>1, <1>2, <1>3, <1>4, <1>5, <1>6, <1>7, <1>8, <1>9, <1>10
        DEF Next, MainThread, SamplerThread, WriteState

\* The stop command.
LEMMA StoppingStep == StreamInv /\ [Next]_vars => Stopping'
<1> SUFFICES ASSUME StreamInv, [Next]_vars PROVE Stopping'
  OBVIOUS
<1> DEFINE Running == {"spawn", "start", "boundary", "obey", "ignore", "round", "collect", "aggregate"}
<1>0. Stopping /\ Control /\ late \in Nat
  BY SMT DEF StreamInv, Types, TypeOK
<1>1. CASE /\ UNCHANGED <<active, command, asked, late>>
           /\ \/ pc' = pc
              \/ pc \in Running /\ pc' \in Running \ {"obey", "round"}
              \/ pc' = "finally" /\ active
              \/ pc' \in {"failed", "killed", "exited", "join", "done"}
  BY <1>0, <1>1 DEF Stopping
<1>2. ASSUME NEW t \in Threads, WriteState(t), ~Over PROVE Stopping'
  <2>1. /\ UNCHANGED <<active, command, asked, late>>
        /\ pc' = pc \/ pc' = "failed" \/ (pc' = "finally" /\ active) \/ (pc' = "finally" /\ pc = "finally")
    BY <1>0, <1>2 DEF WriteState, Acquire, ReadState, ReadWorkers, Replace, WriteFails,
                      Control, Over, Threads, main, state, posted
  <2> QED BY <1>1, <2>1
<1>3. CASE Main
  BY <1>0, <1>3 DEF Main, Ready, Stopping
<1>4. CASE Spawn \/ Start \/ Collect \/ Aggregate \/ AllRoundsDone \/ RemovalFails
  <2>1. pc \in Running /\ active
    BY <1>0, <1>4 DEF Spawn, Start, Collect, Aggregate, AllRoundsDone, RemovalFails, Ready, Control
  <2>2. /\ UNCHANGED <<active, command, asked, late>>
        /\ pc' \in Running \ {"obey", "round"} \/ pc' = "finally"
    BY <1>4 DEF Spawn, Start, Collect, Aggregate, AllRoundsDone, RemovalFails, state, posted
  <2> QED BY <1>1, <2>1, <2>2
<1>5. CASE Boundary
  <2>1. /\ pc = "boundary" /\ UNCHANGED <<active, command, asked, late>>
        /\ \/ command = "none" /\ pc' = "round"
           \/ command = "stop" /\ pc' \in {"obey", "ignore"}
    BY <1>5 DEF Boundary, Ready, state, posted
  <2> QED BY <1>0, <2>1 DEF Stopping
<1>6. CASE Obey
  BY <1>0, <1>6 DEF Obey, Ready, Stopping
<1>7. CASE Ignore
  <2>1. pc' = "round" /\ command' = "none" /\ ~asked' /\ late' = 0
    BY <1>7 DEF Ignore
  <2> QED BY <2>1, SMT DEF Stopping
<1>8. CASE BeginRound
  <2>1. /\ pc = "round" /\ pc' = "collect" /\ UNCHANGED <<command, asked>>
        /\ late' = IF asked THEN late + 1 ELSE late
    BY <1>8 DEF BeginRound, Ready, posted
  <2>2. late = 0
    BY <1>0, <2>1 DEF Stopping
  <2>3. late' <= 1 /\ (~asked => late' = 0)
    BY <2>1, <2>2, SMT
  <2> QED BY <1>0, <2>1, <2>3 DEF Stopping
<1>9. CASE Finally \/ Join \/ Exit
  BY <1>0, <1>9 DEF Finally, Join, Exit, state, posted, Stopping
<1>10. CASE Sample \/ SamplerEnds \/ Kill \/ UNCHANGED vars
  BY <1>1, <1>10 DEF Sample, SamplerEnds, Kill, vars, main, state, posted
<1>11. CASE ~Over /\ Post
  <2>1. /\ UNCHANGED <<pc, active, late>> /\ command' = "stop"
        /\ asked' = (asked \/ pc # "main")
    BY <1>11 DEF Post, main, state
  <2> QED BY <1>0, <2>1 DEF Stopping
<1> QED BY <1>2, <1>3, <1>4, <1>5, <1>6, <1>7, <1>8, <1>9, <1>10, <1>11
        DEF Next, MainThread, SamplerThread, Threads

\* Whoever holds the lock holds it alone.
LEMMA Alone ==
  ASSUME StreamInv, NEW t \in Threads, write[t] \in {"state", "workers", "replace"}
  PROVE  \A u \in Threads : u # t => write[u] \in {"idle", "acquire"}
<1>1. write \in [Threads -> {"idle", "acquire", "state", "workers", "replace"}] /\ Locking
  BY DEF StreamInv, Types, TypeOK
<1> QED BY <1>1 DEF Locking

\* Documents are read under the lock, so they lie between the file and the state.
LEMMA ShownStep ==
  StreamInv /\ [Next]_vars => Shown' /\ (\A t \in Threads : Taken(t)') /\ Whole'
<1> SUFFICES ASSUME StreamInv, [Next]_vars
             PROVE  Shown' /\ (\A t \in Threads : Taken(t)') /\ Whole'
  OBVIOUS
<1>a. /\ Shown /\ (\A t \in Threads : Taken(t)) /\ Whole /\ Counting /\ Locking
      /\ write \in [Threads -> {"idle", "acquire", "state", "workers", "replace"}]
      /\ doc \in [Threads -> Doc] /\ "main" \in Threads /\ "sampler" \in Threads
  BY DEF StreamInv, Types, TypeOK, Threads
<1>b. /\ LastOf(history) \in Nat /\ LastOf(published.history) \in Nat
      /\ \A t \in Threads : LastOf(doc[t].history) \in Nat
      /\ recorded \in Nat /\ samples \in Nat
      /\ published.recorded \in Nat /\ published.samples \in Nat
      /\ \A t \in Threads : doc[t].recorded \in Nat /\ doc[t].samples \in Nat
  <2>1. Types
    BY DEF StreamInv
  <2> QED BY <2>1, Numbers, SMT
<1>1. ASSUME NEW t \in Threads, Acquire(t)
      PROVE  Shown' /\ (\A u \in Threads : Taken(u)') /\ Whole'
  <2>1. /\ write' = [write EXCEPT ![t] = "state"] /\ lock = "free"
        /\ UNCHANGED <<active, history, recorded, samples, doc, published>>
    BY <1>1 DEF Acquire, state
  <2>2. Shown' /\ (\A u \in Threads : Taken(u)')
    BY <1>a, <2>1 DEF Shown, Taken
  <2>3. Whole'
    BY <1>a, <2>1 DEF Whole, Locking
  <2> QED BY <2>2, <2>3
<1>2. ASSUME NEW t \in Threads, ReadState(t)
      PROVE  Shown' /\ (\A u \in Threads : Taken(u)') /\ Whole'
  <2>1. /\ write[t] = "state" /\ write' = [write EXCEPT ![t] = "workers"]
        /\ doc' = [doc EXCEPT ![t] = [doc[t] EXCEPT !.active = active, !.history = history,
                                                    !.samples = samples]]
        /\ UNCHANGED <<active, history, recorded, samples, published>>
    BY <1>2 DEF ReadState, state
  <2>2. /\ doc'[t].active = active /\ doc'[t].history = history /\ doc'[t].samples = samples
        /\ \A u \in Threads : u # t => doc'[u] = doc[u] /\ write'[u] = write[u]
        /\ write'[t] = "workers"
    BY <1>a, <2>1 DEF Doc
  <2>3. Shown'
    BY <1>a, <2>1 DEF Shown
  <2>4. ASSUME NEW u \in Threads PROVE Taken(u)'
    <3>1. CASE u = t
      BY <1>a, <1>b, <2>1, <2>2, <3>1, SMT DEF Taken, Shown
    <3>2. CASE u # t
      BY <1>a, <2>1, <2>2, <3>2 DEF Taken
    <3> QED BY <3>1, <3>2
  <2>5. Whole'
    <3>1. CASE t = "main"
      <4>1. write["sampler"] \in {"idle", "acquire"}
        BY <1>a, <2>1, <3>1, Alone
      <4> QED BY <1>a, <2>1, <2>2, <3>1, <4>1 DEF Whole
    <3>2. CASE t = "sampler"
      BY <1>a, <2>1, <2>2, <3>2 DEF Whole
    <3> QED BY <3>1, <3>2 DEF Threads
  <2> QED BY <2>3, <2>4, <2>5
<1>3. ASSUME NEW t \in Threads, ReadWorkers(t)
      PROVE  Shown' /\ (\A u \in Threads : Taken(u)') /\ Whole'
  <2>1. /\ write[t] = "workers" /\ write' = [write EXCEPT ![t] = "replace"]
        /\ doc' = [doc EXCEPT ![t] = [doc[t] EXCEPT !.recorded = recorded]]
        /\ UNCHANGED <<active, history, recorded, samples, published>>
    BY <1>3 DEF ReadWorkers, state
  <2>2. /\ doc'[t].active = doc[t].active /\ doc'[t].history = doc[t].history
        /\ doc'[t].samples = doc[t].samples /\ doc'[t].recorded = recorded
        /\ \A u \in Threads : u # t => doc'[u] = doc[u] /\ write'[u] = write[u]
        /\ write'[t] = "replace"
    BY <1>a, <2>1 DEF Doc
  <2>3. Shown'
    BY <1>a, <2>1 DEF Shown
  <2>4. recorded <= LastOf(doc[t].history) + 1
    <3>1. CASE t = "main"
      BY <1>a, <2>1, <3>1 DEF Whole, Counting
    <3>2. CASE t = "sampler"
      BY <1>a, <1>b, <2>1, <3>2 DEF Whole, Counting
    <3> QED BY <3>1, <3>2 DEF Threads
  <2>5. ASSUME NEW u \in Threads PROVE Taken(u)'
    <3>1. CASE u = t
      <4>1. LastOf(doc[t].history) <= recorded /\ published.recorded <= recorded
        BY <1>a, <1>b, <2>1, SMT DEF Taken, Counting, Shown
      <4> QED BY <1>a, <1>b, <2>1, <2>2, <2>4, <3>1, <4>1, SMT DEF Taken
    <3>2. CASE u # t
      BY <1>a, <2>1, <2>2, <3>2 DEF Taken
    <3> QED BY <3>1, <3>2
  <2>6. Whole'
    <3>1. CASE t = "main"
      <4>1. write["sampler"] \in {"idle", "acquire"}
        BY <1>a, <2>1, <3>1, Alone
      <4> QED BY <1>a, <2>1, <2>2, <3>1, <4>1 DEF Whole
    <3>2. CASE t = "sampler"
      BY <1>a, <2>1, <2>2, <3>2 DEF Whole
    <3> QED BY <3>1, <3>2 DEF Threads
  <2> QED BY <2>3, <2>5, <2>6
<1>4. ASSUME NEW t \in Threads, Replace(t) \/ WriteFails(t)
      PROVE  Shown' /\ (\A u \in Threads : Taken(u)') /\ Whole'
  <2>1. /\ write[t] = "replace" /\ write' = [write EXCEPT ![t] = "idle"]
        /\ doc' = [doc EXCEPT ![t] = Nothing] /\ published' \in {published, doc[t]}
        /\ UNCHANGED <<active, history, recorded, samples>>
    BY <1>4 DEF Replace, WriteFails, state
  <2>2. \A u \in Threads : write'[u] \in {"idle", "acquire"}
    BY <1>a, <2>1, Alone
  <2>3. Shown'
    BY <1>a, <2>1 DEF Shown, Taken
  <2> QED BY <2>2, <2>3, <1>a DEF Taken, Whole
<1>5. ASSUME UNCHANGED <<active, history, recorded, samples, doc, published>>,
             \A t \in Threads : write'[t] = write[t] \/ (write[t] = "idle" /\ write'[t] = "acquire")
      PROVE  Shown' /\ (\A u \in Threads : Taken(u)') /\ Whole'
  <2>1. Shown' /\ (\A u \in Threads : Taken(u)')
    BY <1>a, <1>5 DEF Shown, Taken
  <2>2. Whole'
    BY <1>a, <1>5 DEF Whole
  <2> QED BY <2>1, <2>2
<1>6. CASE \/ Spawn \/ Start \/ Boundary \/ Ignore \/ RemovalFails
           \/ BeginRound \/ AllRoundsDone \/ Join \/ Exit \/ SamplerEnds \/ Post
           \/ Kill \/ UNCHANGED vars
  BY <1>a, <1>5, <1>6 DEF Spawn, Start, Boundary, Ignore, RemovalFails, BeginRound, AllRoundsDone,
     Join, Exit, SamplerEnds, Post, Kill, vars, state, writing, Want, Ready
<1>7. CASE Main \/ Obey \/ Finally
  <2>1. /\ UNCHANGED <<history, recorded, samples, doc, published>> /\ write["main"] = "idle"
        /\ write'["sampler"] = write["sampler"] /\ write'["main"] \in {"idle", "acquire"}
    BY <1>a, <1>7 DEF Main, Obey, Finally, Ready, Want, writing
  <2>2. Shown' /\ Whole'
    BY <1>a, <2>1 DEF Shown, Whole
  <2>3. ASSUME NEW t \in Threads PROVE Taken(t)'
    BY <1>a, <2>1, <2>3 DEF Taken, Threads
  <2> QED BY <2>2, <2>3
<1>8. CASE Collect
  <2>1. /\ UNCHANGED <<active, history, samples, doc, published>> /\ write["main"] = "idle"
        /\ write'["sampler"] = write["sampler"] /\ write'["main"] \in {"idle", "acquire"}
    BY <1>a, <1>8 DEF Collect, Ready, Want, writing
  <2>2. recorded' \in Nat /\ recorded' >= recorded
    <3>1. pc = "collect" /\ begun \in Nat
      BY <1>8, SMT DEF Collect, Ready, StreamInv, Types, TypeOK
    <3> QED BY <1>a, <1>b, <1>8, <3>1 DEF Collect, Counting
  <2>3. Shown'
    BY <1>a, <1>b, <2>1, <2>2, SMT DEF Shown
  <2>4. ASSUME NEW t \in Threads PROVE Taken(t)'
    BY <1>a, <1>b, <2>1, <2>2, <2>4, SMT DEF Taken, Threads
  <2>5. Whole'
    BY <1>a, <2>1 DEF Whole
  <2> QED BY <2>3, <2>4, <2>5
<1>9. CASE Aggregate
  <2>1. /\ UNCHANGED <<active, recorded, samples, doc, published>> /\ write["main"] = "idle"
        /\ write'["sampler"] = write["sampler"] /\ write'["main"] \in {"idle", "acquire"}
    BY <1>a, <1>9 DEF Aggregate, Ready, Want, writing
  <2>2. \/ UNCHANGED history
        \/ /\ LastOf(history') = LastOf(history) + 1 /\ recorded = LastOf(history')
           /\ write'["main"] = "acquire"
    <3>1. Types /\ Counting
      BY DEF StreamInv
    <3> QED BY <1>a, <1>9, <3>1, Completes DEF Want
  <2>3. LastOf(history) <= LastOf(history') /\ LastOf(history') \in Nat
    BY <1>b, <2>2, SMT
  <2>4. Shown'
    BY <1>a, <1>b, <2>1, <2>3, SMT DEF Shown
  <2>5. ASSUME NEW t \in Threads PROVE Taken(t)'
    BY <1>a, <1>b, <2>1, <2>3, <2>5, SMT DEF Taken, Threads
  <2>6. Whole'
    BY <1>a, <2>1, <2>2 DEF Whole
  <2> QED BY <2>4, <2>5, <2>6
<1>10. CASE Sample
  <2>1. /\ UNCHANGED <<active, history, recorded, doc, published>> /\ samples' = samples + 1
        /\ write["sampler"] = "idle" /\ write'["main"] = write["main"]
        /\ write'["sampler"] = "acquire"
    BY <1>a, <1>10 DEF Sample, Want
  <2>2. Shown'
    BY <1>a, <1>b, <2>1, SMT DEF Shown
  <2>3. ASSUME NEW t \in Threads PROVE Taken(t)'
    BY <1>a, <1>b, <2>1, <2>3, SMT DEF Taken, Threads
  <2>4. Whole'
    BY <1>a, <2>1 DEF Whole
  <2> QED BY <2>2, <2>3, <2>4
<1> QED BY <1>a, <1>1, <1>2, <1>3, <1>4, <1>6, <1>7, <1>8, <1>9, <1>10
        DEF Next, MainThread, SamplerThread, WriteState

\* An active run was announced before the sampler started, and a document read while
\* the run was active is published before any later one.
LEMMA AnnouncedStep == StreamInv /\ [Next]_vars => Announced'
<1> SUFFICES ASSUME StreamInv, [Next]_vars PROVE Announced'
  OBVIOUS
<1>a. /\ Announced /\ Control /\ Whole /\ Locking
      /\ write \in [Threads -> {"idle", "acquire", "state", "workers", "replace"}]
      /\ doc \in [Threads -> Doc] /\ "main" \in Threads /\ "sampler" \in Threads
  BY DEF StreamInv, Types, TypeOK, Threads
<1>1. ASSUME NEW t \in Threads, Acquire(t) PROVE Announced'
  <2>1. /\ write' = [write EXCEPT ![t] = "state"] /\ write[t] = "acquire"
        /\ UNCHANGED <<pc, active, doc, published>>
    BY <1>1 DEF Acquire, state, main
  <2> QED BY <1>a, <2>1 DEF Announced, Over
<1>2. ASSUME NEW t \in Threads, ReadState(t) PROVE Announced'
  <2>1. /\ write[t] = "state" /\ write' = [write EXCEPT ![t] = "workers"]
        /\ doc' = [doc EXCEPT ![t] = [doc[t] EXCEPT !.active = active, !.history = history,
                                                    !.samples = samples]]
        /\ UNCHANGED <<pc, active, published>>
    BY <1>2 DEF ReadState, state, main
  <2>2. /\ doc'[t].active = active /\ write'[t] = "workers"
        /\ \A u \in Threads : u # t => doc'[u] = doc[u] /\ write'[u] = write[u]
    BY <1>a, <2>1 DEF Doc
  <2> QED BY <1>a, <2>1, <2>2 DEF Announced, Over
<1>3. ASSUME NEW t \in Threads, ReadWorkers(t) PROVE Announced'
  <2>1. /\ write[t] = "workers" /\ write' = [write EXCEPT ![t] = "replace"]
        /\ doc' = [doc EXCEPT ![t] = [doc[t] EXCEPT !.recorded = recorded]]
        /\ UNCHANGED <<pc, active, published>>
    BY <1>3 DEF ReadWorkers, state, main
  <2>2. /\ doc'[t].active = doc[t].active /\ write'[t] = "replace"
        /\ \A u \in Threads : u # t => doc'[u] = doc[u] /\ write'[u] = write[u]
    BY <1>a, <2>1 DEF Doc
  <2> QED BY <1>a, <2>1, <2>2 DEF Announced, Over
<1>4. ASSUME NEW t \in Threads, Replace(t), ~Over PROVE Announced'
  <2>1. /\ write[t] = "replace" /\ write' = [write EXCEPT ![t] = "idle"]
        /\ published' = doc[t] /\ UNCHANGED <<pc, active>>
    BY <1>4 DEF Replace, state, main
  <2>2. \A u \in Threads : write'[u] \in {"idle", "acquire"}
    BY <1>a, <2>1, Alone
  <2>3. pc = "spawn" => doc[t].active
    <3>1. pc = "spawn" => t = "main" /\ active
      BY <1>4, <1>a, <2>1 DEF Control, Threads
    <3> QED BY <1>a, <2>1, <3>1 DEF Whole
  <2>4. pc \notin {"main", "spawn"} /\ active => doc[t].active
    BY <1>4, <1>a, <2>1 DEF Announced
  <2> QED BY <2>1, <2>2, <2>3, <2>4 DEF Announced
<1>5. ASSUME NEW t \in Threads, WriteFails(t), ~Over PROVE Announced'
  <2>1. /\ write[t] = "replace" /\ write' = [write EXCEPT ![t] = "idle"]
        /\ UNCHANGED <<active, published>>
    BY <1>5 DEF WriteFails, state
  <2>2. \A u \in Threads : write'[u] \in {"idle", "acquire"}
    BY <1>a, <2>1, Alone
  <2>3. CASE t = "sampler"
    <3>1. pc' = pc /\ pc \notin {"main", "spawn"}
      BY <1>5, <1>a, <2>1, <2>3 DEF WriteFails, Control
    <3> QED BY <1>5, <1>a, <2>1, <2>2, <3>1 DEF Announced
  <2>4. CASE t = "main"
    <3>1. \/ pc' = "failed"
          \/ pc' = "finally" /\ pc \notin {"main", "spawn"}
      BY <1>5, <1>a, <2>1, <2>4 DEF WriteFails, Control
    <3> QED BY <1>5, <1>a, <2>1, <2>2, <3>1 DEF Announced, Over
  <2> QED BY <2>3, <2>4 DEF Threads
<1>6. CASE Main
  BY <1>a, <1>6 DEF Main, Want, Announced
<1>7. CASE Spawn
  <2>1. /\ published.active /\ pc' = "start" /\ UNCHANGED <<active, write, doc, published>>
        /\ \A t \in Threads : write[t] = "idle"
    BY <1>a, <1>7 DEF Spawn, Ready, Announced, Control, Over, state, writing, Threads
  <2> QED BY <2>1 DEF Announced
<1>8. ASSUME ~Over, pc \notin {"main", "spawn"}, pc' \notin {"main", "spawn"},
             active' => active, UNCHANGED <<doc, published>>,
             \A t \in Threads : write'[t] = write[t] \/ write'[t] = "acquire"
      PROVE  Announced'
  BY <1>a, <1>8 DEF Announced
<1>9. CASE \/ Start \/ Boundary \/ Obey \/ Ignore \/ RemovalFails
           \/ BeginRound \/ Collect \/ Aggregate
  <2>1. /\ ~Over /\ pc \notin {"main", "spawn"} /\ pc' \notin {"main", "spawn"}
        /\ active' => active
    BY <1>9, SMT DEF Start, Boundary, Obey, Ignore, RemovalFails, BeginRound, Collect, Aggregate,
                     Ready, Over, state
  <2>2. /\ UNCHANGED <<doc, published>>
        /\ \A t \in Threads : write'[t] = write[t] \/ write'[t] = "acquire"
    BY <1>a, <1>9 DEF Start, Boundary, Obey, Ignore, RemovalFails, BeginRound, Collect, Aggregate,
                      Want, writing
  <2> QED BY <1>8, <2>1, <2>2
<1>10. CASE AllRoundsDone \/ Finally \/ Join \/ Exit
  <2>1. /\ ~Over /\ pc \notin {"main", "spawn"} /\ pc' \notin {"main", "spawn"}
        /\ active' => active
    BY <1>10, SMT DEF AllRoundsDone, Finally, Join, Exit, Ready, Over, state
  <2>2. /\ UNCHANGED <<doc, published>>
        /\ \A t \in Threads : write'[t] = write[t] \/ write'[t] = "acquire"
    BY <1>a, <1>10 DEF AllRoundsDone, Finally, Join, Exit, Want, writing
  <2> QED BY <1>8, <2>1, <2>2
<1>11. CASE ~Over /\ (Sample \/ SamplerEnds)
  <2>1. pc \notin {"main", "spawn"}
    BY <1>a, <1>11 DEF Sample, SamplerEnds, Control
  <2>2. /\ UNCHANGED <<pc, active, doc, published>>
        /\ \A t \in Threads : write'[t] = write[t] \/ write'[t] = "acquire"
    BY <1>a, <1>11 DEF Sample, SamplerEnds, Want, writing, main, state
  <2> QED BY <1>8, <1>11, <2>1, <2>2
<1>12. CASE Post \/ UNCHANGED vars
  BY <1>a, <1>12, SMT DEF Post, vars, main, state, writing, Announced, Over
<1>13. CASE Kill
  BY <1>13 DEF Kill, Announced, Over
<1> QED BY <1>a, <1>1, <1>2, <1>3, <1>4, <1>5, <1>6, <1>7, <1>9, <1>10, <1>11, <1>12, <1>13
        DEF Next, MainThread, SamplerThread, WriteState

\* What the main thread has shown at a boundary or at its end stays.
LEMMA FinalStep == StreamInv /\ [Next]_vars => Final'
<1> SUFFICES ASSUME StreamInv, [Next]_vars PROVE Final'
  OBVIOUS
<1>a. /\ Final /\ Control /\ Whole /\ Locking /\ Shown /\ (\A t \in Threads : Taken(t))
      /\ write \in [Threads -> {"idle", "acquire", "state", "workers", "replace"}]
      /\ doc \in [Threads -> Doc] /\ "main" \in Threads /\ "sampler" \in Threads
  BY DEF StreamInv, Types, TypeOK, Threads
<1>b. /\ LastOf(history) \in Nat /\ LastOf(published.history) \in Nat
      /\ \A t \in Threads : LastOf(doc[t].history) \in Nat
  <2>1. Types
    BY DEF StreamInv
  <2> QED BY <2>1, Numbers, SMT
<1>1. ASSUME NEW t \in Threads, Acquire(t) PROVE Final'
  <2>1. /\ write' = [write EXCEPT ![t] = "state"] /\ write[t] = "acquire"
        /\ UNCHANGED <<pc, active, history, recorded, doc, published>>
    BY <1>1 DEF Acquire, state, main
  <2> QED BY <1>a, <2>1 DEF Final, Threads
<1>2. ASSUME NEW t \in Threads, ReadState(t) PROVE Final'
  <2>1. /\ write[t] = "state" /\ write' = [write EXCEPT ![t] = "workers"]
        /\ doc' = [doc EXCEPT ![t] = [doc[t] EXCEPT !.active = active, !.history = history,
                                                    !.samples = samples]]
        /\ UNCHANGED <<pc, active, history, recorded, published>>
    BY <1>2 DEF ReadState, state, main
  <2>2. CASE t = "main"
    <3>1. write'["main"] = "workers" /\ (pc = "exited" => write["main"] = "idle")
      BY <1>a, <2>1, <2>2 DEF Final
    <3> QED BY <2>1, <2>2, <3>1 DEF Final
  <2>3. CASE t = "sampler"
    <3>1. /\ doc'["sampler"].active = active /\ doc'["sampler"].history = history
          /\ write'["sampler"] = "workers" /\ write'["main"] = write["main"]
      BY <1>a, <2>1, <2>3 DEF Doc
    <3>2. pc \in {"done", "exited"} => ~active
      BY <1>a DEF Control
    <3> QED BY <1>a, <2>1, <3>1, <3>2 DEF Final
  <2> QED BY <2>2, <2>3 DEF Threads
<1>3. ASSUME NEW t \in Threads, ReadWorkers(t) PROVE Final'
  <2>1. /\ write[t] = "workers" /\ write' = [write EXCEPT ![t] = "replace"]
        /\ doc' = [doc EXCEPT ![t] = [doc[t] EXCEPT !.recorded = recorded]]
        /\ UNCHANGED <<pc, active, history, recorded, published>>
    BY <1>3 DEF ReadWorkers, state, main
  <2>2. CASE t = "main"
    <3>1. write'["main"] = "replace" /\ (pc = "exited" => write["main"] = "idle")
      BY <1>a, <2>1, <2>2 DEF Final
    <3> QED BY <2>1, <2>2, <3>1 DEF Final
  <2>3. CASE t = "sampler"
    <3>1. /\ doc'["sampler"].active = doc["sampler"].active
          /\ doc'["sampler"].history = doc["sampler"].history
          /\ doc'["sampler"].recorded = recorded
          /\ write'["sampler"] = "replace" /\ write'["main"] = write["main"]
      BY <1>a, <2>1, <2>3 DEF Doc
    <3> QED BY <1>a, <2>1, <2>3, <3>1 DEF Final
  <2> QED BY <2>2, <2>3 DEF Threads
<1>4. ASSUME NEW t \in Threads, Replace(t), ~Over PROVE Final'
  <2>1. /\ write[t] = "replace" /\ write' = [write EXCEPT ![t] = "idle"]
        /\ published' = doc[t] /\ UNCHANGED <<pc, active, history, recorded>>
    BY <1>4 DEF Replace, state, main
  <2>2. \A u \in Threads : write'[u] \in {"idle", "acquire"}
    BY <1>a, <2>1, Alone
  <2>3. CASE t = "main"
    <3>1. doc["main"].active = active /\ doc["main"].history = history /\ doc["main"].recorded = recorded
      BY <1>a, <2>1, <2>3 DEF Whole
    <3>2. pc \in {"done", "exited"} => ~active
      BY <1>a DEF Control
    <3> QED BY <1>4, <1>a, <2>1, <2>2, <2>3, <3>1, <3>2 DEF Final, Over
  <2>4. CASE t = "sampler"
    <3>1. write'["main"] = write["main"]
      BY <1>a, <2>1, <2>4
    <3>2. LastOf(published.history) = LastOf(history) => LastOf(doc["sampler"].history) = LastOf(history)
      BY <1>a, <1>b, <2>1, <2>4, SMT DEF Taken
    <3> QED BY <1>4, <1>a, <2>1, <2>2, <2>4, <3>1, <3>2 DEF Final, Over
  <2> QED BY <2>3, <2>4 DEF Threads
<1>5. ASSUME NEW t \in Threads, WriteFails(t), ~Over PROVE Final'
  <2>1. /\ write[t] = "replace" /\ write' = [write EXCEPT ![t] = "idle"]
        /\ UNCHANGED <<active, history, recorded, published>>
    BY <1>5 DEF WriteFails, state
  <2>2. \A u \in Threads : write'[u] \in {"idle", "acquire"}
    BY <1>a, <2>1, Alone
  <2>3. CASE t = "sampler"
    <3>1. pc' = pc /\ write'["main"] = write["main"]
      BY <1>5, <1>a, <2>1, <2>3 DEF WriteFails
    <3> QED BY <1>a, <2>1, <2>2, <3>1 DEF Final
  <2>4. CASE t = "main"
    <3>1. pc' \in {"failed", "finally"}
      BY <1>5, <2>4 DEF WriteFails
    <3> QED BY <3>1 DEF Final
  <2> QED BY <2>3, <2>4 DEF Threads
<1>6. CASE \/ Main \/ Start \/ Boundary \/ Obey \/ Ignore \/ RemovalFails
           \/ BeginRound \/ Collect \/ Spawn
  <2>1. pc' \in {"spawn", "start", "obey", "ignore", "round", "finally", "collect", "aggregate"}
          \/ (pc' = "boundary" /\ write'["main"] = "acquire")
    BY <1>a, <1>6 DEF Main, Start, Boundary, Obey, Ignore, RemovalFails, BeginRound, Collect,
                      Spawn, Want
  <2> QED BY <2>1 DEF Final
<1>7. CASE Aggregate \/ AllRoundsDone \/ Finally \/ Join
  <2>1. pc' \in {"finally", "join"} \/ (pc' \in {"boundary", "done"} /\ write'["main"] = "acquire")
    BY <1>a, <1>7 DEF Aggregate, AllRoundsDone, Finally, Join, Want
  <2> QED BY <2>1 DEF Final
<1>8. CASE Exit
  BY <1>a, <1>8 DEF Exit, Ready, Final, state, writing
<1>9. CASE Sample
  <2>1. /\ UNCHANGED <<pc, active, history, recorded, doc, published>>
        /\ write["sampler"] = "idle" /\ write'["main"] = write["main"]
        /\ write'["sampler"] = "acquire"
    BY <1>a, <1>9 DEF Sample, Want, main
  <2> QED BY <1>a, <2>1 DEF Final
<1>10. CASE SamplerEnds \/ Post \/ UNCHANGED vars
  BY <1>a, <1>10 DEF SamplerEnds, Post, vars, main, state, writing, Final
<1>11. CASE Kill
  BY <1>11 DEF Kill, Final
<1> QED BY <1>a, <1>1, <1>2, <1>3, <1>4, <1>5, <1>6, <1>7, <1>8, <1>9, <1>10, <1>11
        DEF Next, MainThread, SamplerThread, WriteState

-----------------------------------------------------------------------------

\* The invariant behind the three results.
LEMMA StreamInvariant == Spec => []StreamInv
<1>1. StreamInv /\ [Next]_vars => StreamInv'
  <2> SUFFICES ASSUME StreamInv, [Next]_vars PROVE StreamInv'
    OBVIOUS
  <2>1. Types' /\ Locking' /\ Counting' /\ Control' /\ Stopping'
    BY TypesStep, LockingStep, CountingStep, ControlStep, StoppingStep
  <2>2. Shown' /\ (\A t \in Threads : Taken(t)') /\ Whole' /\ Announced' /\ Final'
    BY ShownStep, AnnouncedStep, FinalStep
  <2> QED BY <2>1, <2>2 DEF StreamInv
<1> QED BY <1>1, StreamInit, PTL DEF Spec

\* For any number of rounds and samples the state file is whole and current: at a
\* boundary it shows the round just completed, and after the end of the trainer the
\* inactive run with its last results.
THEOREM PublishedIsCurrentHolds == Spec => []PublishedIsCurrent
<1>1. StreamInv => PublishedIsCurrent
  <2> SUFFICES ASSUME StreamInv PROVE PublishedIsCurrent
    OBVIOUS
  <2>1. TypeOK /\ Shown /\ Final /\ Counting
    BY DEF StreamInv, Types
  <2>2. Ready("boundary") => LastOf(published.history) = begun
    BY <2>1 DEF Ready, Final, Counting
  <2>3. pc = "exited" => /\ ~published.active
                         /\ published.history = history /\ published.recorded = recorded
    BY <2>1 DEF Final
  <2>4. published.recorded >= LastOf(published.history)
    <3>1. published.recorded \in Nat /\ LastOf(published.history) \in Nat
      <4>1. Types
        BY DEF StreamInv
      <4> QED BY <4>1, Numbers, SMT
    <3> QED BY <2>1, <3>1 DEF Shown
  <2> QED BY <2>1, <2>2, <2>3, <2>4 DEF PublishedIsCurrent, Shown
<1> QED BY <1>1, StreamInvariant, PTL

\* From a stop on at most one more round begins, unless the command could not be
\* read, and only a command posted to this run stops it.
THEOREM StopWithinOneRoundHolds == Spec => []StopWithinOneRound
<1>1. StreamInv => StopWithinOneRound
  BY DEF StreamInv, Stopping, StopWithinOneRound
<1> QED BY <1>1, StreamInvariant, PTL

\* No write of either thread takes back what the state file has shown.
THEOREM PublishedNeverRegressesHolds == Spec => PublishedNeverRegresses
<1> DEFINE Forward ==
      /\ LastOf(published'.history) >= LastOf(published.history)
      /\ published'.recorded >= published.recorded
      /\ published'.samples >= published.samples
      /\ (published'.active /\ ~published.active) => pc = "spawn"
<1>1. ASSUME StreamInv, [Next]_vars PROVE Forward
  <2>1. /\ LastOf(published.history) \in Nat /\ published.recorded \in Nat /\ published.samples \in Nat
        /\ \A t \in Threads : /\ LastOf(doc[t].history) \in Nat /\ doc[t].recorded \in Nat
                              /\ doc[t].samples \in Nat
    <3>1. Types
      BY <1>1 DEF StreamInv
    <3> QED BY <3>1, Numbers, SMT
  <2>2. CASE published' = published
    BY <2>1, <2>2, SMT
  <2>3. CASE published' # published
    <3>1. PICK t \in Threads : Replace(t) /\ ~Over
      <4>1. ASSUME NEW t \in Threads, WriteState(t) PROVE Replace(t)
        BY <2>3, <4>1 DEF WriteState, Acquire, ReadState, ReadWorkers, WriteFails
      <4>2. /\ ~Main /\ ~Spawn /\ ~Start /\ ~Boundary /\ ~Obey /\ ~Ignore /\ ~RemovalFails
            /\ ~BeginRound /\ ~Collect /\ ~Aggregate
        BY <2>3 DEF Main, Spawn, Start, Boundary, Obey, Ignore, RemovalFails, BeginRound, Collect,
                    Aggregate, Want
      <4>3. ~AllRoundsDone /\ ~Finally /\ ~Join /\ ~Exit /\ ~Sample /\ ~SamplerEnds /\ ~Post /\ ~Kill
        BY <2>3 DEF AllRoundsDone, Finally, Join, Exit, Sample, SamplerEnds, Post, Kill, Want
      <4> QED BY <1>1, <2>3, <4>1, <4>2, <4>3 DEF Next, MainThread, SamplerThread, vars, Threads
    <3>2. write[t] = "replace" /\ published' = doc[t]
      BY <3>1 DEF Replace
    <3>3. Taken(t) /\ Announced /\ Control
      BY <1>1 DEF StreamInv
    <3>4. /\ LastOf(published.history) <= LastOf(doc[t].history)
          /\ published.recorded <= doc[t].recorded /\ published.samples <= doc[t].samples
      BY <3>2, <3>3 DEF Taken
    <3>5. doc[t].active /\ ~published.active => pc = "spawn"
      <4>1. pc # "main"
        BY <3>1, <3>2, <3>3 DEF Control, Threads
      <4> QED BY <3>1, <3>2, <3>3, <4>1 DEF Announced
    <3> QED BY <2>1, <3>2, <3>4, <3>5
  <2> QED BY <2>2, <2>3
<1>2. StreamInv /\ [Next]_vars => [Forward]_vars
  BY <1>1
<1> QED BY <1>2, StreamInvariant, PTL DEF Spec, PublishedNeverRegresses

=============================================================================
