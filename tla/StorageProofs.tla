----------------------------- MODULE StorageProofs -----------------------------
(***************************************************************************)
(* Both stores keep the contract of StateStore, for any number of commits  *)
(* and transitions, any models, and any crashes, power losses, failed      *)
(* transactions and lost answers.                                          *)
(***************************************************************************)
EXTENDS Storage, SequenceTheorems, TLAPS

\* Most leaves are first-order; the others cite SMT.
USE Zenon

----------------------------------------------------------------------------
(***************************************************************************)
(* FileStore.  The state file is whole, and in a directory that existed    *)
(* the store keeps the contract of StateStore, so a snapshot that was      *)
(* acknowledged is never replaced by an older one.                         *)
(*                                                                         *)
(* None is inductive by itself.  What reaches the state file is what the   *)
(* temporary file holds at the rename, so IInv says what it holds at each  *)
(* step of Commit, and that nothing on disk is newer than the last call.   *)
(***************************************************************************)


Written(n) == [data |-> n, synced |-> TRUE]

\* The temporary file at each step.
Progress ==
  /\ pc = "sync" => temp.data = snap
  /\ pc = "rename" => temp = Written(snap)
  /\ pc = "syncdir" => entry = Written(snap)
  /\ pc \in {"create", "write", "sync", "rename", "syncdir"} => acked < snap

\* What may come back after a death.
Stored ==
  /\ entry \in kept
  /\ \A f \in kept : \E n \in 0 .. snap : f = Written(n)

\* In a directory that was there, nothing older than the last success.
Fresh == dir = "kept" => \A f \in kept : f.data >= acked

IInv == TypeOK /\ Progress /\ Stored /\ Fresh

\* The state before the first start.
LEMMA InitIInv == Init => IInv
<1> SUFFICES ASSUME Init PROVE IInv
  OBVIOUS
<1>1. TypeOK
  BY FileStoreAssumption, SMT DEF Init, TypeOK, File, NoFile, Answer
<1>2. Progress /\ Stored /\ Fresh
  BY FileStoreAssumption, SMT DEF Init, Progress, Stored, Fresh, NoFile, Written
<1> QED BY <1>1, <1>2 DEF IInv

\* Every step keeps the invariant; a power loss finds only whole files to choose
\* from.
LEMMA StepIInv == IInv /\ [Next]_vars => IInv'
<1> SUFFICES ASSUME IInv, [Next]_vars PROVE IInv'
  OBVIOUS
<1> USE FileStoreAssumption DEF IInv, TypeOK, Progress, Stored, Fresh, File, NoFile, Written, Torn, Answer
<1>1. CASE Load
  BY <1>1, SMT DEF Load
<1>2. CASE Commit
  BY <1>2, SMT DEF Commit
<1>3. CASE Create
  BY <1>3, SMT DEF Create, MkdirAll
<1>4. CASE Refuse
  BY <1>4, SMT DEF Refuse, MkdirAll
<1>5. CASE Write
  BY <1>5, SMT DEF Write
<1>6. CASE Sync
  BY <1>6 DEF Sync
<1>7. CASE Abort
  BY <1>7, SMT DEF Abort
<1>8. CASE Rename
  BY <1>8, SMT DEF Rename
<1>9. CASE SyncDirectory
  BY <1>9, SMT DEF SyncDirectory
<1>10. CASE SyncDirectoryFails
  BY <1>10, SMT DEF SyncDirectoryFails
<1>11. CASE Crash
  BY <1>11, SMT DEF Crash, Dies
<1>12. CASE PowerLoss
  <2>1. PICK n \in 0 .. snap : entry' = Written(n) /\ (dir = "kept" => n >= acked)
    <3>1. ASSUME NEW f \in kept, NEW d \in Survivors(f), entry' = [data |-> d, synced |-> TRUE]
          PROVE  \E n \in 0 .. snap : entry' = Written(n) /\ (dir = "kept" => n >= acked)
      <4>1. PICK n \in 0 .. snap : f = Written(n)
        OBVIOUS
      <4>2. d = n
        BY <3>1, <4>1 DEF Survivors
      <4> QED BY <3>1, <4>1, <4>2
    <3>2. CASE dir = "created" /\ entry' = NoFile
      <4>1. entry' = Written(0) /\ 0 \in 0 .. snap
        BY <3>2, SMT
      <4> QED BY <3>2, <4>1
    <3> QED BY <1>12, <3>1, <3>2 DEF PowerLoss
  <2>2. kept' = {entry'}
    BY <1>12 DEF PowerLoss
  <2>3. dir' \in {"missing", "made"} \cup {dir} /\ (dir' = "kept" => dir = "kept")
    BY <1>12 DEF PowerLoss
  <2>4. pc' = "down" /\ temp' = NoFile /\ snap' = snap /\ acked' = acked
    BY <1>12 DEF PowerLoss, Dies
  <2>5. deaths' \in 0 .. MaxDeaths /\ reply' = Answer("none", 0)
    BY <1>12, SMT DEF PowerLoss, Dies
  <2>6. TypeOK'
    BY <2>1, <2>2, <2>3, <2>4, <2>5, SMT
  <2>7. Progress' /\ Stored'
    BY <2>1, <2>2, <2>4
  <2>8. Fresh'
    BY <2>1, <2>2, <2>3, <2>4, SMT
  <2> QED BY <2>6, <2>7, <2>8
<1>13. CASE UNCHANGED vars
  BY <1>13, SMT DEF vars
<1> QED BY <1>1, <1>2, <1>3, <1>4, <1>5, <1>6, <1>7, <1>8, <1>9, <1>10, <1>11, <1>12, <1>13 DEF Next

\* The inductive invariant holds in every reachable state.
THEOREM FileStoreInvariant == Spec => []IInv
<1> QED BY InitIInv, StepIInv, PTL DEF Spec

\* After any crash or power loss, Load finds no file or a whole snapshot.
THEOREM LoadsWholeHolds == Spec => []LoadsWhole
<1>1. IInv => LoadsWhole
  BY FileStoreAssumption, SMT DEF IInv, TypeOK, Stored, LoadsWhole, Written, Torn
<1> QED BY <1>1, FileStoreInvariant, PTL

\* An acknowledged Commit is not undone by a crash or a power loss when the
\* directory of the state file existed.
THEOREM AckedSurvivesHolds == Spec => []AckedSurvives
<1>1. IInv => AckedSurvives
  BY DEF IInv, Stored, Fresh, AckedSurvives
<1> QED BY <1>1, FileStoreInvariant, PTL

\* What the entry stands for, after a step that changes no file.
LEMMA SamePossible ==
  ASSUME entry' = entry, kept' = kept
  PROVE  {f.data : f \in kept \cup {entry}}' = {f.data : f \in kept \cup {entry}}
OBVIOUS

\* Every step of the file store is a step of StateStore or changes nothing that
\* StateStore knows of.
LEMMA StepRefines ==
  ASSUME IInv, IInv', [Next]_vars, dir = "kept"
  PROVE  [Abstract!Next]_(Abstract!store)
<1> DEFINE Possible == {f.data : f \in kept \cup {entry}}
           Request == IF pc \in {"down", "idle"} THEN 0 ELSE snap
<1> USE DEF IInv, TypeOK, Progress, Stored, Fresh, Written, Answer
<1>1. CASE Load
  BY <1>1, SamePossible DEF Load, Abstract!Next, Abstract!Load, Abstract!Answer, Torn
<1>2. CASE Commit
  BY <1>2, SamePossible, FileStoreAssumption, SMT DEF Commit, Abstract!Next, Abstract!Commit, Abstract!Answer, Abstract!NoAnswer
<1>3. CASE Create \/ Write \/ Sync
  BY <1>3, SamePossible DEF Create, Write, Sync, Abstract!store
<1>4. CASE Refuse \/ Abort \/ SyncDirectoryFails
  BY <1>4, SamePossible, SMT DEF Refuse, Abort, SyncDirectoryFails, Abstract!Next, Abstract!Fail, Abstract!Answer
<1>5. CASE Rename
  <2>1. Possible' = Possible \cup {snap}
    BY <1>5, SMT DEF Rename
  <2>2. Request' = Request /\ Request = snap /\ snap # 0 /\ reply' = reply
    BY <1>5, SMT DEF Rename
  <2> QED BY <2>1, <2>2 DEF Abstract!Next, Abstract!Land
<1>6. CASE SyncDirectory
  <2>1. Possible' = {snap} /\ snap \in Possible
    BY <1>6, SMT DEF SyncDirectory
  <2>2. Request = snap /\ Request' = 0 /\ reply' = Answer("ok", 0)
    BY <1>6 DEF SyncDirectory
  <2> QED BY <2>1, <2>2 DEF Abstract!Next, Abstract!Succeed, Abstract!Answer
<1>7. CASE Crash
  <2>1. Possible' = Possible /\ Possible # {}
    BY <1>7, SamePossible, SMT DEF Crash
  <2>2. Request' = 0 /\ reply' = Answer("none", 0)
    BY <1>7 DEF Crash, Dies
  <2> QED BY <2>1, <2>2 DEF Abstract!Next, Abstract!Die, Abstract!Answer, Abstract!NoAnswer
<1>8. CASE PowerLoss
  <2>1. PICK f \in kept : \E d \in Survivors(f) :
          entry' = [data |-> d, synced |-> TRUE] /\ kept' = {entry'}
    BY <1>8 DEF PowerLoss
  <2>2. f.synced = TRUE
    BY SMT
  <2>3. entry' = [data |-> f.data, synced |-> TRUE]
    BY <2>1, <2>2 DEF Survivors
  <2>5. Possible' = {f.data} /\ f.data \in Possible
    BY <2>1, <2>3, SMT
  <2>4. Request' = 0 /\ reply' = Answer("none", 0)
    BY <1>8 DEF PowerLoss, Dies
  <2> QED BY <2>4, <2>5 DEF Abstract!Next, Abstract!Die, Abstract!Answer, Abstract!NoAnswer
<1>9. CASE UNCHANGED vars
  BY <1>9, SamePossible DEF vars, Abstract!store
<1> QED BY <1>1, <1>2, <1>3, <1>4, <1>5, <1>6, <1>7, <1>8, <1>9 DEF Next

\* FileStateStore implements the contract the durable coordinator relies on, when
\* the directory of the state file existed.
THEOREM ContractHolds == Spec => KeepsContract
<1>1. Init => Abstract!Init
  BY SMT DEF Init, Abstract!Init, NoFile, Answer, Abstract!Answer, Abstract!NoAnswer
<1>2. IInv /\ IInv' /\ [Next]_vars => [dir = "kept" => Abstract!Next]_(Abstract!store)
  BY StepRefines
<1> QED BY <1>1, <1>2, FileStoreInvariant, PTL DEF Spec, KeepsContract

----------------------------------------------------------------------------
(***************************************************************************)
(* PostgresStore.  The model of the state row can be read, what was        *)
(* answered with success stays in the row, the audit chain verifies and    *)
(* has the events of every stored transition once, and the store keeps the *)
(* contract of StateStore.                                                 *)
(*                                                                         *)
(* None is inductive by itself.  The row is what the last transaction      *)
(* wrote, so Uploaded says that a transaction is begun only once its model *)
(* is in the object store, for which the cache of the store must be true;  *)
(* Followed says that every state the coordinator may still commit holds   *)
(* all answered transitions, the one it returns to after a failed call     *)
(* included.                                                               *)
(***************************************************************************)


\* The steps of CommitWithAudit.
Committing == {"put", "transact", "commit", "landed"}

\* Models that are known to be there, are.
Uploaded ==
  /\ verified \subseteq objects
  /\ at \in {"transact", "commit", "landed"} => P!ModelOf(job.value) \in objects \cup {0}
  /\ P!PublishedModelExists

\* The first state has no model.
LEMMA InitUploaded == P!Init => Uploaded
<1> SUFFICES ASSUME P!Init PROVE Uploaded
  OBVIOUS
<1>1. row \cap P!Rounds = {}
  BY DEF P!Init
<1>2. P!ModelOf(row) = 0
  BY <1>1 DEF P!ModelOf
<1> QED BY <1>2 DEF P!Init, Uploaded, P!PublishedModelExists

\* A transaction is begun after Put, and nothing removes an object.
LEMMA StepUploaded == Uploaded /\ [P!Next]_P!vars => Uploaded'
<1> SUFFICES ASSUME Uploaded, [P!Next]_P!vars PROVE Uploaded'
  OBVIOUS
<1> USE DEF Uploaded, P!PublishedModelExists, P!database, P!service
<1>1. CASE P!Load
  BY <1>1 DEF P!Load
<1>2. CASE P!Normalize
  BY <1>2 DEF P!Normalize
<1>3. CASE P!Transition
  BY <1>3 DEF P!Transition
<1>4. CASE P!Restore
  BY <1>4 DEF P!Restore
<1>5. CASE P!Put
  BY <1>5 DEF P!Put, P!Payload
<1>6. CASE P!PutFails
  BY <1>6 DEF P!PutFails, P!Failed
<1>7. CASE P!Execute
  BY <1>7 DEF P!Execute
<1>8. CASE P!TransactionFails
  BY <1>8 DEF P!TransactionFails, P!Failed
<1>9. CASE P!CommitTx
  BY <1>9 DEF P!CommitTx
<1>10. CASE P!AnswerLost
  BY <1>10 DEF P!AnswerLost, P!Failed
<1>11. CASE P!Answered
  BY <1>11 DEF P!Answered
<1>12. CASE P!Crash
  BY <1>12 DEF P!Crash
<1>13. CASE UNCHANGED P!vars
  BY <1>13 DEF P!vars
<1> QED BY <1>1, <1>2, <1>3, <1>4, <1>5, <1>6, <1>7, <1>8, <1>9, <1>10, <1>11, <1>12, <1>13 DEF P!Next

\* The state row of PostgresStateStore never refers to a model that is missing
\* from the object store, so Load succeeds after any crash.
THEOREM PublishedModelHolds == P!Spec => []P!PublishedModelExists
<1>1. Uploaded => P!PublishedModelExists
  BY DEF Uploaded
<1> QED BY <1>1, InitUploaded, StepUploaded, PTL DEF P!Spec

----------------------------------------------------------------------------

\* A state once there is one: the bootstrap and some transitions.
Started == {s \in P!States : 0 \in s}

\* What may still be committed holds what was answered.
Followed ==
  /\ answered \subseteq row /\ row \in Started \cup {{}}
  /\ last \in 0 .. MaxTransitions
  /\ at = "starting" => mem = row
  /\ at \in {"idle"} \cup Committing => mem \in Started /\ answered \subseteq mem
  /\ at = "restoring" => before \in Started /\ answered \subseteq before
  /\ at \in Committing =>
       /\ mem = job.value /\ job.for \in {"start", "call", "rollback"}
       /\ job.for = "call" => before \in Started /\ answered \subseteq before /\ last \in mem
  /\ at = "landed" => row = job.value

\* Before the first start nothing was answered.
LEMMA InitFollowed == P!Init => Followed
BY DatabaseAssumption, SMT DEF P!PostgresAssumption, P!Init, Followed, Committing

\* A failed call returns to the state before it, which holds every transition
\* answered earlier.
LEMMA StepFollowed == Followed /\ [P!Next]_P!vars => Followed'
<1> SUFFICES ASSUME Followed, [P!Next]_P!vars PROVE Followed'
  OBVIOUS
<1> USE DatabaseAssumption DEF P!PostgresAssumption, Followed, Committing, P!database, P!service, P!Job
<1>1. CASE P!Load
  BY <1>1 DEF P!Load
<1>2. CASE P!Normalize
  <2>1. {0} \in Started
    BY SMT DEF Started, P!States
  <2>2. mem' = (IF mem = {} THEN {0} ELSE mem) /\ mem = row
    BY <1>2 DEF P!Normalize
  <2>3. mem' \in Started /\ answered \subseteq mem'
    BY <2>1, <2>2
  <2>4. job'.value = mem' /\ job'.for = "start" /\ at' = "put"
    BY <1>2 DEF P!Normalize
  <2>5. row' = row /\ answered' = answered /\ last' = last
    BY <1>2 DEF P!Normalize
  <2> QED BY <2>3, <2>4, <2>5
<1>3. CASE P!Transition
  BY <1>3, SMT DEF P!Transition, Started, P!States
<1>4. CASE P!Restore
  BY <1>4 DEF P!Restore
<1>5. CASE P!Put
  BY <1>5 DEF P!Put
<1>6. CASE P!PutFails
  BY <1>6 DEF P!PutFails, P!Failed
<1>7. CASE P!Execute
  BY <1>7 DEF P!Execute
<1>8. CASE P!TransactionFails
  BY <1>8 DEF P!TransactionFails, P!Failed
<1>9. CASE P!CommitTx
  BY <1>9 DEF P!CommitTx
<1>10. CASE P!AnswerLost
  BY <1>10 DEF P!AnswerLost, P!Failed
<1>11. CASE P!Answered
  BY <1>11 DEF P!Answered
<1>12. CASE P!Crash
  BY <1>12 DEF P!Crash
<1>13. CASE UNCHANGED P!vars
  BY <1>13 DEF P!vars
<1> QED BY <1>1, <1>2, <1>3, <1>4, <1>5, <1>6, <1>7, <1>8, <1>9, <1>10, <1>11, <1>12, <1>13 DEF P!Next

\* A transition that was answered with success is in the stored state for good,
\* through failed commits, rollbacks, lost answers and restarts.
THEOREM AnsweredIsStoredHolds == P!Spec => []P!AnsweredIsStored
<1>1. P!Init => Followed
  BY InitFollowed
<1>2. Followed /\ [P!Next]_P!vars => Followed'
  BY StepFollowed
<1>3. Followed => P!AnsweredIsStored
  BY DEF Followed, P!AnsweredIsStored
<1> QED BY <1>1, <1>2, <1>3, PTL DEF P!Spec

----------------------------------------------------------------------------

\* Every step of the store and its caller is a step of StateStore or changes
\* nothing that StateStore knows of.
LEMMA DatabaseStepRefines ==
  ASSUME Followed, Followed', [P!Next]_P!vars
  PROVE  [P!Abstract!Next]_(P!Abstract!store)
<1> DEFINE Request == IF at \in {"put", "transact", "commit", "landed"} THEN job.value ELSE {}
<1> USE DEF Followed, Committing, P!database, P!service, P!Answer, P!Abstract!Answer, P!Abstract!NoAnswer
<1>1. CASE P!Load
  BY <1>1 DEF P!Load, P!Abstract!Next, P!Abstract!Load
<1>2. CASE P!Normalize \/ P!Transition
  <2>1. Request = {} /\ Request' \in P!States /\ answer' = P!Answer("none", {}) /\ row' = row
    BY <1>2 DEF P!Normalize, P!Transition, Started
  <2> QED BY <2>1 DEF P!Abstract!Next, P!Abstract!Commit
<1>3. CASE P!Restore
  <2>1. Request = {} /\ Request' \in P!States /\ answer' = P!Answer("none", {}) /\ row' = row
    BY <1>3 DEF P!Restore, Started
  <2> QED BY <2>1 DEF P!Abstract!Next, P!Abstract!Commit
<1>4. CASE P!Put \/ P!Execute
  BY <1>4 DEF P!Put, P!Execute, P!Abstract!store
<1>5. CASE P!PutFails \/ P!TransactionFails \/ P!AnswerLost
  <2>1. Request # {} /\ Request' = {} /\ answer' = P!Answer("error", {}) /\ row' = row
    BY <1>5 DEF P!PutFails, P!TransactionFails, P!AnswerLost, P!Failed, Started
  <2> QED BY <2>1 DEF P!Abstract!Next, P!Abstract!Fail
<1>6. CASE P!CommitTx
  <2>1. Request # {} /\ Request' = Request /\ answer' = answer /\ row' = Request
    BY <1>6 DEF P!CommitTx, Started
  <2> QED BY <2>1 DEF P!Abstract!Next, P!Abstract!Land
<1>7. CASE P!Answered
  <2>1. Request = row /\ Request' = {} /\ answer' = P!Answer("ok", {}) /\ row' = row
    BY <1>7 DEF P!Answered
  <2> QED BY <2>1 DEF P!Abstract!Next, P!Abstract!Succeed
<1>8. CASE P!Crash
  <2>1. Request' = {} /\ answer' = P!Answer("none", {}) /\ row' = row
    BY <1>8 DEF P!Crash
  <2> QED BY <2>1 DEF P!Abstract!Next, P!Abstract!Die
<1>9. CASE UNCHANGED P!vars
  BY <1>9 DEF P!vars, P!Abstract!store
<1> QED BY <1>1, <1>2, <1>3, <1>4, <1>5, <1>6, <1>7, <1>8, <1>9 DEF P!Next

\* PostgresStateStore implements the contract the durable coordinator relies on:
\* success is final, a failure leaves the old or the new state, Load returns a
\* whole one.
THEOREM DatabaseContractHolds == P!Spec => DatabaseKeepsContract
<1>1. P!Init => Followed
  BY InitFollowed
<1>2. Followed /\ [P!Next]_P!vars => Followed'
  BY StepFollowed
<1>3. P!Init => P!Abstract!Init
  BY DEF P!Init, P!Abstract!Init, P!Answer, P!Abstract!Answer, P!Abstract!NoAnswer
<1>4. Followed /\ Followed' /\ [P!Next]_P!vars => [P!Abstract!Next]_(P!Abstract!store)
  BY DatabaseStepRefines
<1> QED BY <1>1, <1>2, <1>3, <1>4, PTL DEF P!Spec, DatabaseKeepsContract, P!KeepsContract, P!Abstract!Spec

----------------------------------------------------------------------------
(* The audit chain *)

\* An event is in a chain exactly once, or not at all.
Once(records, event) ==
  \E i \in 1 .. Len(records) :
    \A j \in 1 .. Len(records) : records[j].event = event <=> j = i
Never(records, event) == \A i \in 1 .. Len(records) : records[i].event # event

\* The events of a transition are all in a chain, or none is.
Entered(records, t) ==
  /\ Once(records, P!Event("accepted", t))
  /\ IF t \in P!Rounds
     THEN Once(records, P!Event("aggregated", t))
     ELSE Never(records, P!Event("aggregated", t))
Unheard(records, t) ==
  Never(records, P!Event("accepted", t)) /\ Never(records, P!Event("aggregated", t))

Events == [type : {"initialized", "recovered", "accepted", "aggregated"}, of : Nat]
Record == [sequence : Nat, event : Events, previous : Seq(Events), hash : Seq(Events)]

\* The events of a start or of a rollback, which are of no transition.
Housekeeping == {<<>>, <<P!Event("initialized", 0)>>, <<P!Event("recovered", 0)>>}

\* A transition that may still be in the row some day has its events in the chain,
\* or is the one whose first commit is in progress.
Recorded ==
  /\ last \in 0 .. MaxTransitions
  /\ \A t \in row \ {0} : Entered(chain, t)
  /\ \A t \in (last + 1) .. MaxTransitions : Unheard(chain, t)
  /\ at = "starting" => mem = row
  /\ at = "idle" => \A t \in mem \ {0} : Entered(chain, t)
  /\ at = "restoring" => \A t \in before \ {0} : Entered(chain, t)
  /\ at \in Committing => mem = job.value
  /\ at \in Committing /\ job.for = "call" =>
       last \in 1 .. MaxTransitions /\ \A t \in before \ {0} : Entered(chain, t)
  /\ at \in Committing \ {"landed"} /\ job.for = "call" =>
       /\ job.value = before \cup {last}
       /\ job.events = P!EventsOf(last) /\ Unheard(chain, last)
  /\ at \in Committing /\ job.for # "call" =>
       job.events \in Housekeeping /\ \A t \in job.value \ {0} : Entered(chain, t)
  /\ at = "landed" => row = job.value

\* The chain is what verifyAuditRecords() accepts.
Linked == chain \in Seq(Record) /\ P!ChainVerifies

\* A longer prefix is the prefix and one more event.
LEMMA PrefixGrows ==
  ASSUME NEW events \in Seq(Events), NEW head \in Seq(Events), NEW k \in 1 .. Len(events)
  PROVE  /\ SubSeq(events, 1, k - 1) \in Seq(Events)
         /\ head \o SubSeq(events, 1, k) = Append(head \o SubSeq(events, 1, k - 1), events[k])
<1>1. SubSeq(events, 1, k - 1) \in Seq(Events) /\ SubSeq(events, 1, k) \in Seq(Events)
  BY SubSeqProperties, SMT
<1>2. Len(SubSeq(events, 1, k - 1)) = k - 1 /\ Len(SubSeq(events, 1, k)) = k
  BY SubSeqProperties, SMT
<1>3. SubSeq(events, 1, k) = Append(SubSeq(events, 1, k - 1), events[k])
  BY <1>1, <1>2, SubSeqProperties, AppendProperties, SeqEqual, SMT
<1> DEFINE p == SubSeq(events, 1, k - 1)
<1>4. head \o Append(p, events[k]) = Append(head \o p, events[k])
  BY <1>1, ConcatProperties, AppendProperties, SeqEqual, SMT
<1> QED BY <1>1, <1>3, <1>4

\* What appendAuditEventsTx() makes of a chain.
LEMMA AppendedIs ==
  ASSUME NEW records \in Seq(Record), NEW events \in Seq(Events)
  PROVE  LET new == P!Appended(records, events)
             head == P!ChainHead(records)
         IN  /\ new \in Seq(Record) /\ head \in Seq(Events)
             /\ Len(new) = Len(records) + Len(events)
             /\ \A i \in 1 .. Len(records) : new[i] = records[i]
             /\ \A i \in 1 .. Len(events) :
                  /\ new[Len(records) + i].sequence = Len(records) + i
                  /\ new[Len(records) + i].event = events[i]
                  /\ new[Len(records) + i].previous = head \o SubSeq(events, 1, i - 1)
                  /\ new[Len(records) + i].hash = head \o SubSeq(events, 1, i)
<1> DEFINE head == P!ChainHead(records)
           n == Len(records)
           Rec(i) == [sequence |-> n + i, event |-> events[i],
                      previous |-> head \o SubSeq(events, 1, i - 1),
                      hash |-> head \o SubSeq(events, 1, i)]
           more == [i \in 1 .. Len(events) |-> Rec(i)]
<1>1. head \in Seq(Events)
  <2>1. CASE records = <<>>
    BY <2>1, SMT DEF P!ChainHead
  <2>2. CASE records # <<>>
    <3>1. records[n] \in Record
      BY <2>2, LenProperties, SMT
    <3> QED BY <2>2, <3>1 DEF P!ChainHead, Record
  <2> QED BY <2>1, <2>2
<1>2. n \in Nat /\ Len(events) \in Nat
  BY LenProperties
<1>3. ASSUME NEW i \in 1 .. Len(events) PROVE Rec(i) \in Record
  <2>1. SubSeq(events, 1, i - 1) \in Seq(Events) /\ SubSeq(events, 1, i) \in Seq(Events)
    BY SubSeqProperties, SMT
  <2>2. events[i] \in Events
    BY LenProperties
  <2>3. head \o SubSeq(events, 1, i - 1) \in Seq(Events) /\ head \o SubSeq(events, 1, i) \in Seq(Events)
    BY <1>1, <2>1, ConcatProperties
  <2> HIDE DEF head
  <2> QED BY <1>2, <2>2, <2>3, SMT DEF Record
<1>4. more \in Seq(Record) /\ Len(more) = Len(events) /\ \A i \in 1 .. Len(events) : more[i] = Rec(i)
  <2> HIDE DEF Rec
  <2>1. more \in [1 .. Len(events) -> Record] /\ \A i \in 1 .. Len(events) : more[i] = Rec(i)
    BY <1>3
  <2> HIDE DEF more
  <2> QED BY <1>2, <2>1, SMT
<1>5. P!Appended(records, events) = records \o more
  BY DEF P!Appended
<1> DEFINE new == records \o more
<1> HIDE DEF more, head, Rec
<1>6. more \in Seq(Record) /\ Len(more) = Len(events)
  BY <1>4
<1>7. /\ new \in Seq(Record) /\ Len(new) = n + Len(more)
      /\ \A i \in 1 .. n + Len(more) : new[i] = IF i <= n THEN records[i] ELSE more[i - n]
  BY <1>6, ConcatProperties
<1> HIDE DEF new
<1>8. \A i \in 1 .. n : new[i] = records[i]
  BY <1>2, <1>6, <1>7, SMT
<1>9. ASSUME NEW i \in 1 .. Len(events)
      PROVE  /\ new[n + i].sequence = n + i /\ new[n + i].event = events[i]
             /\ new[n + i].previous = head \o SubSeq(events, 1, i - 1)
             /\ new[n + i].hash = head \o SubSeq(events, 1, i)
  <2>1. n + i \in 1 .. n + Len(more) /\ ~(n + i <= n) /\ (n + i) - n = i
    BY <1>2, <1>6, SMT
  <2>2. new[n + i] = Rec(i)
    BY <1>4, <1>7, <2>1
  <2>3. /\ Rec(i).sequence = n + i /\ Rec(i).event = events[i]
        /\ Rec(i).previous = head \o SubSeq(events, 1, i - 1)
        /\ Rec(i).hash = head \o SubSeq(events, 1, i)
    BY DEF Rec
  <2> QED BY <2>2, <2>3
<1>10. P!Appended(records, events) = new
  BY <1>5 DEF new
<1> QED BY <1>1, <1>6, <1>7, <1>8, <1>9, <1>10 DEF head

\* The records that are appended link to the chain and to one another.
LEMMA AppendedVerifies ==
  ASSUME Linked, NEW events \in Seq(Events), chain' = P!Appended(chain, events)
  PROVE  Linked'
<1> DEFINE n == Len(chain)
           head == P!ChainHead(chain)
           Good(i) == /\ chain'[i].sequence = i
                      /\ chain'[i].previous = IF i = 1 THEN <<>> ELSE chain'[i - 1].hash
                      /\ chain'[i].hash = Append(chain'[i].previous, chain'[i].event)
<1>1. chain \in Seq(Record) /\ n \in Nat /\ Len(events) \in Nat
  BY LenProperties DEF Linked
<1>2. /\ chain' \in Seq(Record) /\ head \in Seq(Events)
      /\ Len(chain') = n + Len(events)
      /\ \A i \in 1 .. n : chain'[i] = chain[i]
      /\ \A i \in 1 .. Len(events) :
           /\ chain'[n + i].sequence = n + i
           /\ chain'[n + i].event = events[i]
           /\ chain'[n + i].previous = head \o SubSeq(events, 1, i - 1)
           /\ chain'[n + i].hash = head \o SubSeq(events, 1, i)
  BY <1>1, AppendedIs
<1>3. ASSUME NEW i \in 1 .. n PROVE Good(i)
  <2>1. chain'[i] = chain[i] /\ (i # 1 => chain'[i - 1] = chain[i - 1])
    BY <1>1, <1>2, SMT
  <2> QED BY <2>1 DEF Linked, P!ChainVerifies
<1>4. ASSUME NEW k \in 1 .. Len(events) PROVE Good(n + k)
  <2>1. chain'[n + k].hash = Append(chain'[n + k].previous, chain'[n + k].event)
    <3> HIDE DEF head
    <3>1. head \o SubSeq(events, 1, k) = Append(head \o SubSeq(events, 1, k - 1), events[k])
      BY <1>2, PrefixGrows
    <3> QED BY <1>2, <3>1
  <2>2. CASE k = 1
    <3>1. SubSeq(events, 1, k - 1) = <<>>
      BY <2>2, SMT
    <3>2. head \o <<>> = head
      BY <1>2, ConcatEmptySeq
    <3>3. chain'[n + k].previous = head
      BY <1>2, <3>1, <3>2
    <3>4. n = 0 => head = <<>>
      BY <1>1, EmptySeq DEF P!ChainHead
    <3>5. n # 0 => head = chain'[n].hash
      BY <1>1, <1>2, SMT DEF P!ChainHead
    <3>6. n # 0 => n + k # 1 /\ (n + k) - 1 = n
      BY <1>1, <2>2, SMT
    <3>7. n = 0 => n + k = 1
      BY <2>2, SMT
    <3> HIDE DEF head
    <3> QED BY <1>2, <2>1, <3>3, <3>4, <3>5, <3>6, <3>7
  <2>3. CASE k # 1
    <3>1. k - 1 \in 1 .. Len(events) /\ n + (k - 1) = (n + k) - 1 /\ n + k # 1
      BY <1>1, <2>3, SMT
    <3>2. chain'[n + (k - 1)].hash = head \o SubSeq(events, 1, k - 1)
      BY <1>2, <3>1
    <3> HIDE DEF head
    <3> QED BY <1>2, <2>1, <3>1, <3>2
  <2> QED BY <2>2, <2>3
<1>5. ASSUME NEW i \in 1 .. Len(chain') PROVE Good(i)
  <2>1. CASE i <= n
    <3>1. i \in 1 .. n
      BY <1>1, <1>2, <2>1, SMT
    <3> QED BY <1>3, <3>1
  <2>2. CASE ~(i <= n)
    <3>1. i - n \in 1 .. Len(events) /\ n + (i - n) = i
      BY <1>1, <1>2, <2>2, SMT
    <3>2. Good(n + (i - n))
      BY <1>4, <3>1
    <3> HIDE DEF Good
    <3> QED BY <3>1, <3>2
  <2> QED BY <2>1, <2>2
<1> QED BY <1>2, <1>5 DEF Linked, P!ChainVerifies

\* An event that is not among the new ones is in the chain as often as before.
LEMMA OthersStay ==
  ASSUME NEW records \in Seq(Record), NEW events \in Seq(Events), NEW e,
         \A k \in 1 .. Len(events) : events[k] # e
  PROVE  /\ Once(records, e) => Once(P!Appended(records, events), e)
         /\ Never(records, e) => Never(P!Appended(records, events), e)
<1> DEFINE n == Len(records)
           new == P!Appended(records, events)
<1>1. n \in Nat /\ Len(events) \in Nat
  BY LenProperties
<1>2. /\ Len(new) = n + Len(events)
      /\ \A i \in 1 .. n : new[i].event = records[i].event
      /\ \A i \in 1 .. Len(events) : new[n + i].event = events[i]
  BY AppendedIs
<1> HIDE DEF new
<1>3. ASSUME NEW j \in 1 .. Len(new), new[j].event = e PROVE j \in 1 .. n
  <2>1. ASSUME ~(j <= n) PROVE FALSE
    <3>1. j - n \in 1 .. Len(events) /\ n + (j - n) = j
      BY <1>1, <1>2, <2>1, SMT
    <3> QED BY <1>2, <1>3, <3>1
  <2> QED BY <1>1, <1>2, <2>1, SMT
<1>4. Never(records, e) => Never(new, e)
  BY <1>2, <1>3 DEF Never
<1>5. ASSUME Once(records, e) PROVE Once(new, e)
  <2>1. PICK i \in 1 .. n : \A j \in 1 .. n : records[j].event = e <=> j = i
    BY <1>5 DEF Once
  <2>2. i \in 1 .. Len(new) /\ new[i].event = e
    BY <1>1, <1>2, <2>1, SMT
  <2>3. ASSUME NEW j \in 1 .. Len(new) PROVE new[j].event = e <=> j = i
    BY <1>2, <1>3, <2>1, <2>2
  <2> QED BY <2>2, <2>3 DEF Once
<1> QED BY <1>4, <1>5 DEF new

\* A new event that was not in the chain, and is given once, is then there once.
LEMMA NewIsOnce ==
  ASSUME NEW records \in Seq(Record), NEW events \in Seq(Events), NEW m \in 1 .. Len(events),
         \A k \in 1 .. Len(events) : events[k] = events[m] => k = m,
         Never(records, events[m])
  PROVE  Once(P!Appended(records, events), events[m])
<1> DEFINE n == Len(records)
           new == P!Appended(records, events)
<1>1. n \in Nat /\ Len(events) \in Nat
  BY LenProperties
<1>2. /\ Len(new) = n + Len(events)
      /\ \A i \in 1 .. n : new[i].event = records[i].event
      /\ \A i \in 1 .. Len(events) : new[n + i].event = events[i]
  BY AppendedIs
<1> HIDE DEF new
<1>3. n + m \in 1 .. Len(new) /\ new[n + m].event = events[m]
  BY <1>1, <1>2, SMT
<1>4. ASSUME NEW j \in 1 .. Len(new), new[j].event = events[m] PROVE j = n + m
  <2>1. ~(j <= n)
    BY <1>1, <1>2, <1>4, SMT DEF Never
  <2>2. j - n \in 1 .. Len(events) /\ n + (j - n) = j
    BY <1>1, <1>2, <2>1, SMT
  <2>3. events[j - n] = events[m]
    BY <1>2, <1>4, <2>2
  <2>4. j - n = m
    BY <2>2, <2>3
  <2> QED BY <2>2, <2>4
<1> QED BY <1>3, <1>4 DEF Once, new

\* updateAuditEvents(), one by one.
LEMMA CallEvents ==
  ASSUME NEW t \in Nat
  PROVE  /\ P!EventsOf(t) \in Seq(Events)
         /\ P!EventsOf(t)[1] = P!Event("accepted", t)
         /\ t \in P!Rounds => Len(P!EventsOf(t)) = 2 /\ P!EventsOf(t)[2] = P!Event("aggregated", t)
         /\ t \notin P!Rounds => Len(P!EventsOf(t)) = 1
<1>1. P!Event("accepted", t) \in Events /\ P!Event("aggregated", t) \in Events
  BY DEF P!Event, Events
<1>2. CASE t \in P!Rounds
  <2> DEFINE a == P!Event("accepted", t)
             b == P!Event("aggregated", t)
  <2>1. P!EventsOf(t) = <<a>> \o <<b>>
    BY <1>2 DEF P!EventsOf
  <2> HIDE DEF a, b
  <2>2. <<a>> \in Seq(Events) /\ <<b>> \in Seq(Events)
    BY <1>1, SMT DEF a, b
  <2>3. (<<a>> \o <<b>>)[1] = a /\ (<<a>> \o <<b>>)[2] = b /\ Len(<<a>> \o <<b>>) = 2
    BY SMT
  <2>4. <<a>> \o <<b>> \in Seq(Events)
    BY <2>2, ConcatProperties
  <2> QED BY <1>2, <2>1, <2>3, <2>4 DEF a, b
<1>3. CASE t \notin P!Rounds
  <2>1. P!EventsOf(t) = <<P!Event("accepted", t)>>
    BY <1>3, SMT DEF P!EventsOf
  <2> QED BY <1>1, <1>3, <2>1, SMT
<1> QED BY <1>2, <1>3

\* The first commit of a transition enters it and touches no other.
LEMMA CallIsEntered ==
  ASSUME NEW records \in Seq(Record), NEW t \in Nat, Unheard(records, t)
  PROVE  LET new == P!Appended(records, P!EventsOf(t))
         IN  /\ Entered(new, t)
             /\ \A u \in Nat \ {t} : Entered(records, u) => Entered(new, u)
             /\ \A u \in Nat \ {t} : Unheard(records, u) => Unheard(new, u)
<1> DEFINE events == P!EventsOf(t)
           new == P!Appended(records, events)
<1>1. /\ events \in Seq(Events) /\ events[1] = P!Event("accepted", t)
      /\ t \in P!Rounds => Len(events) = 2 /\ events[2] = P!Event("aggregated", t)
      /\ t \notin P!Rounds => Len(events) = 1
  BY CallEvents
<1>2. P!Event("accepted", t) # P!Event("aggregated", t)
  BY DEF P!Event
<1>3. /\ Never(records, P!Event("accepted", t))
      /\ Never(records, P!Event("aggregated", t))
  BY DEF Unheard
<1> HIDE DEF events
<1>4. Once(new, P!Event("accepted", t))
  <2>1. 1 \in 1 .. Len(events) /\ \A k \in 1 .. Len(events) : events[k] = events[1] => k = 1
    BY <1>1, <1>2, SMT
  <2> QED BY <1>1, <1>3, <2>1, NewIsOnce
<1>5. t \in P!Rounds => Once(new, P!Event("aggregated", t))
  <2> SUFFICES ASSUME t \in P!Rounds PROVE Once(new, P!Event("aggregated", t))
    OBVIOUS
  <2>1. Len(events) = 2 /\ events[1] # events[2] /\ events[2] = P!Event("aggregated", t)
    BY <1>1, <1>2
  <2>2. 2 \in 1 .. Len(events) /\ \A k \in 1 .. Len(events) : events[k] = events[2] => k = 2
    BY <2>1, SMT
  <2> QED BY <1>1, <1>3, <2>1, <2>2, NewIsOnce
<1>6. t \notin P!Rounds => Never(new, P!Event("aggregated", t))
  <2> SUFFICES ASSUME t \notin P!Rounds PROVE Never(new, P!Event("aggregated", t))
    OBVIOUS
  <2>1. Len(events) = 1 /\ events[1] # P!Event("aggregated", t)
    BY <1>1, <1>2
  <2>2. \A k \in 1 .. Len(events) : events[k] # P!Event("aggregated", t)
    BY <2>1, SMT
  <2> QED BY <1>1, <1>3, <2>2, OthersStay
<1>7. Entered(new, t)
  BY <1>4, <1>5, <1>6 DEF Entered
<1>8. ASSUME NEW u \in Nat \ {t}
      PROVE  (Entered(records, u) => Entered(new, u)) /\ (Unheard(records, u) => Unheard(new, u))
  <2>1. \A k \in 1 .. Len(events) : events[k].of = t
    BY <1>1, SMT DEF P!Event
  <2>2. P!Event("accepted", u).of = u /\ P!Event("aggregated", u).of = u
    BY DEF P!Event
  <2>3. \A k \in 1 .. Len(events) :
          events[k] # P!Event("accepted", u) /\ events[k] # P!Event("aggregated", u)
    BY <2>1, <2>2
  <2> HIDE DEF new
  <2>4. /\ Once(records, P!Event("accepted", u)) => Once(new, P!Event("accepted", u))
        /\ Never(records, P!Event("accepted", u)) => Never(new, P!Event("accepted", u))
    BY <1>1, <2>3, OthersStay DEF new
  <2>5. /\ Once(records, P!Event("aggregated", u)) => Once(new, P!Event("aggregated", u))
        /\ Never(records, P!Event("aggregated", u)) => Never(new, P!Event("aggregated", u))
    BY <1>1, <2>3, OthersStay DEF new
  <2> QED BY <2>4, <2>5 DEF Entered, Unheard
<1> QED BY <1>7, <1>8 DEF events

\* A start or a rollback touches no transition.
LEMMA HousekeepingStays ==
  ASSUME NEW records \in Seq(Record), NEW events \in Housekeeping
  PROVE  LET new == P!Appended(records, events)
         IN  /\ events \in Seq(Events)
             /\ \A u \in Nat : Entered(records, u) => Entered(new, u)
             /\ \A u \in Nat : Unheard(records, u) => Unheard(new, u)
<1> DEFINE new == P!Appended(records, events)
<1>1. /\ events \in Seq(Events)
      /\ \A k \in 1 .. Len(events) : events[k].type \in {"initialized", "recovered"}
  <2>1. P!Event("initialized", 0) \in Events /\ P!Event("recovered", 0) \in Events
    BY DEF P!Event, Events
  <2>2. CASE events = <<>>
    BY <2>2, SMT
  <2>3. CASE events = <<P!Event("initialized", 0)>>
    BY <2>1, <2>3, SMT DEF P!Event
  <2>4. CASE events = <<P!Event("recovered", 0)>>
    BY <2>1, <2>4, SMT DEF P!Event
  <2> QED BY <2>2, <2>3, <2>4 DEF Housekeeping
<1>2. ASSUME NEW u \in Nat
      PROVE  (Entered(records, u) => Entered(new, u)) /\ (Unheard(records, u) => Unheard(new, u))
  <2>1. P!Event("accepted", u).type = "accepted" /\ P!Event("aggregated", u).type = "aggregated"
    BY DEF P!Event
  <2>2. \A k \in 1 .. Len(events) :
          events[k] # P!Event("accepted", u) /\ events[k] # P!Event("aggregated", u)
    BY <1>1, <2>1
  <2> HIDE DEF new
  <2>3. /\ Once(records, P!Event("accepted", u)) => Once(new, P!Event("accepted", u))
        /\ Never(records, P!Event("accepted", u)) => Never(new, P!Event("accepted", u))
    BY <1>1, <2>2, OthersStay DEF new
  <2>4. /\ Once(records, P!Event("aggregated", u)) => Once(new, P!Event("aggregated", u))
        /\ Never(records, P!Event("aggregated", u)) => Never(new, P!Event("aggregated", u))
    BY <1>1, <2>2, OthersStay DEF new
  <2> QED BY <2>3, <2>4 DEF Entered, Unheard
<1> QED BY <1>1, <1>2

\* Nothing is recorded before the first start.
LEMMA InitRecorded == P!Init => Linked /\ Recorded
<1> SUFFICES ASSUME P!Init PROVE Linked /\ Recorded
  OBVIOUS
<1>1. chain = <<>> /\ Len(chain) = 0 /\ chain \in Seq(Record)
  BY SMT DEF P!Init
<1>2. Linked
  BY <1>1, SMT DEF Linked, P!ChainVerifies
<1>3. \A t \in (last + 1) .. MaxTransitions : Unheard(chain, t)
  BY <1>1, SMT DEF Unheard, Never
<1> QED BY <1>2, <1>3, DatabaseAssumption, SMT DEF P!Init, P!PostgresAssumption, Recorded, Committing

\* The transaction that makes a transition durable is the one that records it.
LEMMA CommitRecorded ==
  ASSUME Followed, Linked, Recorded, P!CommitTx
  PROVE  Linked' /\ Recorded'
<1>1. /\ at = "commit" /\ at' = "landed" /\ row' = job.value
      /\ chain' = P!Appended(chain, job.events)
      /\ UNCHANGED <<mem, last, before, answered, job>>
  BY DEF P!CommitTx, P!service
<1>2. /\ mem = job.value /\ mem \in SUBSET Nat /\ last \in 0 .. MaxTransitions
      /\ chain \in Seq(Record) /\ (job.for = "call" => before \in SUBSET Nat)
  BY <1>1, DatabaseAssumption, SMT
  DEF Recorded, Linked, Followed, Committing, Started, P!States, P!PostgresAssumption
<1>3. CASE job.for = "call"
  <2>1. /\ last \in 1 .. MaxTransitions /\ job.value = before \cup {last}
        /\ job.events = P!EventsOf(last) /\ Unheard(chain, last)
        /\ \A t \in before \ {0} : Entered(chain, t)
    BY <1>1, <1>3 DEF Recorded, Committing
  <2>2. last \in Nat /\ P!EventsOf(last) \in Seq(Events)
    BY <2>1, CallEvents, SMT
  <2>3. /\ Entered(chain', last)
        /\ \A u \in Nat \ {last} : Entered(chain, u) => Entered(chain', u)
        /\ \A u \in Nat \ {last} : Unheard(chain, u) => Unheard(chain', u)
    BY <1>1, <1>2, <2>1, <2>2, CallIsEntered
  <2>4. Linked'
    BY <1>1, <2>1, <2>2, AppendedVerifies
  <2>5. \A t \in before \ {0} : Entered(chain', t)
    BY <1>2, <1>3, <2>1, <2>3
  <2>6. \A t \in job.value \ {0} : Entered(chain', t)
    BY <2>1, <2>3, <2>5
  <2>7. \A t \in (last + 1) .. MaxTransitions : Unheard(chain', t)
    BY <1>2, <2>3, SMT DEF Recorded
  <2> QED BY <1>1, <1>2, <1>3, <2>1, <2>4, <2>5, <2>6, <2>7 DEF Recorded, Committing
<1>4. CASE job.for # "call"
  <2>1. job.events \in Housekeeping /\ \A t \in job.value \ {0} : Entered(chain, t)
    BY <1>1, <1>4 DEF Recorded, Committing
  <2>2. /\ job.events \in Seq(Events)
        /\ \A u \in Nat : Entered(chain, u) => Entered(chain', u)
        /\ \A u \in Nat : Unheard(chain, u) => Unheard(chain', u)
    BY <1>1, <1>2, <2>1, HousekeepingStays
  <2>3. Linked'
    BY <1>1, <2>2, AppendedVerifies
  <2>4. \A t \in job.value \ {0} : Entered(chain', t)
    BY <1>2, <2>1, <2>2
  <2>5. \A t \in (last + 1) .. MaxTransitions : Unheard(chain', t)
    BY <1>2, <2>2, SMT DEF Recorded
  <2> QED BY <1>1, <1>2, <1>4, <2>1, <2>3, <2>4, <2>5 DEF Recorded, Committing
<1> QED BY <1>3, <1>4

\* No other step touches the chain, and none commits a transition it does not know.
LEMMA StepRecorded ==
  ASSUME Followed, Linked, Recorded, [P!Next]_P!vars
  PROVE  Linked' /\ Recorded'
<1>1. chain' = chain => Linked'
  BY DEF Linked, P!ChainVerifies
<1> USE DEF Recorded, Committing, P!database, P!service, P!Job
<1>2. CASE P!Load
  BY <1>1, <1>2 DEF P!Load
<1>3. CASE P!Normalize
  <2>1. /\ at = "starting" /\ mem = row /\ at' = "put" /\ job'.for = "start"
        /\ mem' = (IF mem = {} THEN {0} ELSE mem) /\ job'.value = mem'
        /\ job'.events = <<P!Event(IF mem = {} THEN "initialized" ELSE "recovered", 0)>>
        /\ UNCHANGED <<last, before, row, chain>>
    BY <1>3 DEF P!Normalize
  <2>2. job'.events \in Housekeeping
    BY <2>1 DEF Housekeeping
  <2> QED BY <1>1, <2>1, <2>2
<1>4. CASE P!Transition
  <2>1. /\ at = "idle" /\ at' = "put" /\ last < MaxTransitions /\ last' = last + 1
        /\ before' = mem /\ mem' = mem \cup {last'} /\ job'.value = mem'
        /\ job'.events = P!EventsOf(last') /\ job'.for = "call"
        /\ UNCHANGED <<row, chain>>
    BY <1>4 DEF P!Transition
  <2>2. last' \in 1 .. MaxTransitions /\ last' \in (last + 1) .. MaxTransitions
    BY <2>1, DatabaseAssumption, SMT DEF P!PostgresAssumption
  <2>3. \A t \in (last' + 1) .. MaxTransitions : Unheard(chain, t)
    BY <2>1, SMT
  <2> QED BY <1>1, <2>1, <2>2, <2>3, SMT
<1>5. CASE P!Restore
  <2>1. /\ at = "restoring" /\ at' = "put" /\ mem' = before /\ job'.value = before
        /\ job'.events = <<>> /\ job'.for = "rollback" /\ UNCHANGED <<last, before, row, chain>>
    BY <1>5 DEF P!Restore
  <2>2. <<>> \in Housekeeping
    BY DEF Housekeeping
  <2> QED BY <1>1, <2>1, <2>2
<1>6. CASE P!Put
  BY <1>1, <1>6 DEF P!Put
<1>7. CASE P!PutFails \/ P!TransactionFails \/ P!AnswerLost
  <2>1. P!Failed /\ at \in Committing /\ UNCHANGED <<row, chain>>
    BY <1>7 DEF P!PutFails, P!TransactionFails, P!AnswerLost
  <2> QED BY <1>1, <2>1 DEF P!Failed
<1>8. CASE P!Execute
  BY <1>1, <1>8 DEF P!Execute
<1>9. CASE P!CommitTx
  BY <1>9, CommitRecorded
<1>10. CASE P!Answered
  BY <1>1, <1>10 DEF P!Answered
<1>11. CASE P!Crash
  BY <1>1, <1>11 DEF P!Crash
<1>12. CASE UNCHANGED P!vars
  BY <1>1, <1>12 DEF P!vars
<1> QED BY <1>2, <1>3, <1>4, <1>5, <1>6, <1>7, <1>8, <1>9, <1>10, <1>11, <1>12 DEF P!Next

----------------------------------------------------------------------------
(* What the PostgreSQL store promises, together *)

\* Types are kept: a coordinator that serves has a state because what it commits
\* holds the bootstrap, and what is uploaded is the model of a round because the
\* model of a state is one.
LEMMA StepTyped ==
  ASSUME P!TypeOK, Followed, Recorded, Followed', [P!Next]_P!vars,
         \A state \in {row, job.value} :
           P!ModelOf(state) \in {0} \cup {Digest[t] : t \in P!Rounds}
  PROVE  P!TypeOK'
<1> DEFINE Models == {Digest[t] : t \in P!Rounds}
<1>1. P!ModelOf(row) \in {0} \cup Models /\ P!Payload \subseteq Models
  BY DEF P!Payload
<1>2. (at \in {"idle"} \cup Committing => 0 \in mem)' /\ (last \in 0 .. MaxTransitions)'
  BY DEF Followed, Started
<1>3. row' \in P!States /\ (at \in {"idle"} \cup Committing => mem \in P!States)'
  BY DEF Followed, Started, P!States
<1> HIDE DEF Models
<1>4. verified \cup objects \subseteq Models /\ faults \in 0 .. MaxFaults /\ MaxFaults \in Nat
  BY DatabaseAssumption DEF P!TypeOK, Models, P!PostgresAssumption
<1>5. (verified \cup objects \subseteq Models)' /\ (faults \in 0 .. MaxFaults)'
  <2> USE DEF P!database, P!service, P!Fault
  <2>1. CASE P!Load
    BY <1>1, <1>4, <2>1 DEF P!Load
  <2>2. CASE P!Normalize \/ P!Transition \/ P!Restore
    BY <1>4, <2>2 DEF P!Normalize, P!Transition, P!Restore
  <2>3. CASE P!Put
    BY <1>1, <1>4, <2>3 DEF P!Put
  <2>4. CASE P!PutFails
    BY <1>1, <1>4, <2>4, SMT DEF P!PutFails
  <2>5. CASE P!Execute \/ P!CommitTx \/ P!Answered
    BY <1>4, <2>5 DEF P!Execute, P!CommitTx, P!Answered
  <2>6. CASE P!TransactionFails \/ P!AnswerLost
    BY <1>4, <2>6, SMT DEF P!TransactionFails, P!AnswerLost
  <2>7. CASE P!Crash
    BY <1>1, <1>4, <2>7, SMT DEF P!Crash
  <2>8. CASE UNCHANGED P!vars
    BY <1>4, <2>8 DEF P!vars
  <2> QED BY <2>1, <2>2, <2>3, <2>4, <2>5, <2>6, <2>7, <2>8 DEF P!Next
<1>6. /\ mem \in P!States /\ before \in P!States /\ row \in P!States /\ job.value \in P!States
      /\ last \in 0 .. MaxTransitions /\ answered \subseteq 1 .. last
  BY DEF P!TypeOK
<1>7. {} \in P!States
  BY DEF P!States
<1>8. /\ at' \in {"down", "starting", "idle", "restoring", "put", "transact", "commit", "landed"}
      /\ mem' \in P!States /\ before' \in P!States /\ job'.value \in P!States
      /\ answered' \subseteq 1 .. last'
  <2> HIDE DEF P!States
  <2> USE DEF P!database, P!service, P!Job, Committing
  <2>1. CASE P!Load
    BY <1>6, <2>1 DEF P!Load
  <2>2. CASE P!Normalize
    BY <1>3, <1>6, <2>2 DEF P!Normalize
  <2>3. CASE P!Transition
    BY <1>3, <1>6, <2>3, SMT DEF P!Transition
  <2>4. CASE P!Restore
    BY <1>6, <2>4 DEF P!Restore
  <2>5. CASE P!Put \/ P!Execute \/ P!CommitTx
    BY <1>6, <2>5 DEF P!Put, P!Execute, P!CommitTx
  <2>6. CASE P!PutFails \/ P!TransactionFails \/ P!AnswerLost
    <3>1. P!Failed
      BY <2>6 DEF P!PutFails, P!TransactionFails, P!AnswerLost
    <3> QED BY <1>6, <1>7, <3>1 DEF P!Failed
  <2>7. CASE P!Answered
    <3>1. at = "landed" /\ at' = "idle" /\ UNCHANGED <<mem, before, job, last>>
      BY <2>7 DEF P!Answered
    <3>2. answered' = IF job.for = "call" THEN answered \cup {last} ELSE answered
      BY <2>7 DEF P!Answered
    <3>3. job.for = "call" => last \in 1 .. MaxTransitions
      BY <3>1 DEF Recorded
    <3> QED BY <1>6, <3>1, <3>2, <3>3, SMT
  <2>8. CASE P!Crash
    BY <1>6, <1>7, <2>8 DEF P!Crash
  <2>9. CASE UNCHANGED P!vars
    BY <1>6, <2>9 DEF P!vars, P!TypeOK
  <2> QED BY <2>1, <2>2, <2>3, <2>4, <2>5, <2>6, <2>7, <2>8, <2>9 DEF P!Next
<1> QED BY <1>2, <1>3, <1>5, <1>8 DEF P!TypeOK, Models

F == INSTANCE FiniteSetTheorems

\* A set of numbers below a bound has a largest one: the distances from the bound
\* have a least one, since < is well founded.
LEMMA MaxIsMember ==
  ASSUME NEW N \in Nat, NEW S \in SUBSET (0 .. N), S # {}
  PROVE  P!Max(S) \in S
<1> DEFINE T == {N - x : x \in S}
           R == F!OpToRel(<, Nat)
<1>1. T \subseteq Nat /\ T # {}
  <2>1. PICK s \in S : TRUE
    OBVIOUS
  <2>2. N - s \in T
    OBVIOUS
  <2>3. \A x \in S : N - x \in Nat
    BY SMT
  <2> QED BY <2>2, <2>3
<1>2. F!IsWellFoundedOn(R, Nat)
  BY F!NatLessThanWellFounded
<1>3. PICK d \in T : \A e \in T : ~(<<e, d>> \in R)
  BY <1>1, <1>2, F!WFMin
<1>4. \A e \in T : ~(e < d)
  BY <1>1, <1>3 DEF F!OpToRel
<1>5. PICK x \in S : d = N - x
  OBVIOUS
<1>6. ASSUME NEW y \in S PROVE x >= y
  <2>1. N - y \in T
    OBVIOUS
  <2>2. ~(N - y < N - x)
    BY <1>4, <1>5, <2>1
  <2> QED BY <2>2, SMT
<1> QED BY <1>6 DEF P!Max

\* The model of a state is that of a round.
LEMMA ModelIsOfRound ==
  ASSUME NEW state
  PROVE  P!ModelOf(state) \in {0} \cup {Digest[t] : t \in P!Rounds}
<1>1. CASE state \cap P!Rounds = {}
  BY <1>1 DEF P!ModelOf
<1>2. CASE state \cap P!Rounds # {}
  <2>1. P!Rounds \subseteq 0 .. MaxTransitions /\ MaxTransitions \in Nat
    BY DatabaseAssumption, SMT DEF P!PostgresAssumption, P!Rounds
  <2>2. P!Max(state \cap P!Rounds) \in state \cap P!Rounds
    BY <1>2, <2>1, MaxIsMember
  <2> QED BY <1>2, <2>2 DEF P!ModelOf
<1> QED BY <1>1, <1>2

\* The library's cardinality is the one PostgresStore counts with.
LEMMA SameCount == ASSUME NEW S PROVE P!Cardinality(S) = F!Cardinality(S)
BY DEF P!Cardinality, F!Cardinality

\* To be in the chain once, or never, is to be counted once, or not at all.
LEMMA Counts ==
  ASSUME NEW e
  PROVE  /\ Once(chain, e) => P!Audited(e) = 1
         /\ Never(chain, e) => P!Audited(e) = 0
<1> DEFINE Spots(s) == {i \in 1 .. Len(s) : s[i].event = e}
<1>1. P!Audited(e) = F!Cardinality(Spots(chain))
  BY SameCount DEF P!Audited
<1>2. ASSUME Once(chain, e) PROVE F!Cardinality(Spots(chain)) = 1
  <2>1. PICK i \in 1 .. Len(chain) : \A j \in 1 .. Len(chain) : chain[j].event = e <=> j = i
    BY <1>2 DEF Once
  <2>2. Spots(chain) = {i}
    BY <2>1
  <2> HIDE DEF Spots
  <2> QED BY <2>2, F!FS_Singleton
<1>3. ASSUME Never(chain, e) PROVE F!Cardinality(Spots(chain)) = 0
  <2>1. Spots(chain) = {}
    BY <1>3 DEF Never
  <2> HIDE DEF Spots
  <2> QED BY <2>1, F!FS_EmptySet
<1> QED BY <1>1, <1>2, <1>3

\* PostgresStateStore keeps its promises whatever fails, is lost, crashes or is
\* repeated: the model of the state row can be read, verifyAuditRecords() accepts
\* the audit chain, every stored transition has its events in the chain exactly
\* once, and a transition answered with success stays stored.
THEOREM DatabaseIsConsistentHolds == P!Spec => []DatabaseIsConsistent
<1> DEFINE Inv == P!TypeOK /\ Uploaded /\ Followed /\ Linked /\ Recorded
<1>1. P!Init => Inv
  <2> SUFFICES ASSUME P!Init PROVE P!TypeOK
    BY InitUploaded, InitFollowed, InitRecorded
  <2> QED BY DatabaseAssumption, SMT
          DEF P!Init, P!TypeOK, P!States, P!Job, P!PostgresAssumption
<1>2. Inv /\ [P!Next]_P!vars => Inv'
  BY StepUploaded, StepFollowed, StepRecorded, StepTyped, ModelIsOfRound
<1>3. Recorded => P!StoredIsAudited
  BY Counts DEF Recorded, Entered, P!StoredIsAudited
<1>4. Inv => /\ P!TypeOK /\ P!PublishedModelExists /\ P!ChainVerifies
             /\ P!StoredIsAudited /\ P!AnsweredIsStored
  BY <1>3 DEF Uploaded, Followed, Linked, P!AnsweredIsStored
<1> HIDE DEF Inv
<1> QED BY <1>1, <1>2, <1>4, PTL DEF P!Spec, DatabaseIsConsistent

=============================================================================
