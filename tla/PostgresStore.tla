------------------------------ MODULE PostgresStore ------------------------------
(***************************************************************************)
(* PostgresStateStore with model artifacts and the audit chain             *)
(* (pkg/coordinator/postgres_state_store.go, postgres_audit.go,            *)
(* artifact_store.go), used as commitOrRollbackTransition and              *)
(* recoverOrInitialize use it (durable_audit.go, durable_service.go).      *)
(*                                                                         *)
(* A state is the set of the transitions that lead to it, 0 the bootstrap; *)
(* the empty set is no state row.  Its model is the one of the last        *)
(* transition that completed a round, and a bootstrap model has no         *)
(* payload.  A repeated round may compute the same payload.  A hash stands *)
(* for what it commits to: the events up to and including its record.      *)
(* The database runs a transaction whole or not at all, and its client may *)
(* lose the connection after the commit.                                   *)
(***************************************************************************)
EXTENDS Integers, Sequences, FiniteSets, FiniteSetsExt

CONSTANTS
  Digest,          \* the model of each transition that completes a round
  MaxTransitions,  \* bound: calls that change the state
  MaxFaults        \* bound: crashes, errors and lost answers

\* What the constants stand for; assumed where they get their values.
PostgresAssumption ==
  /\ MaxTransitions \in Nat /\ MaxFaults \in Nat
  /\ DOMAIN Digest \subseteq 1 .. MaxTransitions
  /\ \A t \in DOMAIN Digest : Digest[t] \in Nat \ {0}

VARIABLES
  pc,       \* where the holder of persistenceMu is
  mem,      \* the state in memory
  last,     \* the last transition tried
  before,   \* the state before it
  job,      \* the commit in progress: value, events and what it is for
  row,      \* the singleton state row
  chain,    \* the audit table
  objects,  \* models in the object store
  verified, \* S3ModelArtifactStore.verified: models known to be there
  reply,    \* the last answer of the store
  acked,    \* history: transitions whose calls were answered with success
  faults    \* crashes, errors and lost answers so far

vars == <<pc, mem, last, before, job, row, chain, objects, verified, reply, acked, faults>>
database == <<row, chain>>
service == <<mem, last, before, acked>>

States == SUBSET (0 .. MaxTransitions)
Rounds == DOMAIN Digest

\* The digest of a state's payload, which is the name of its object.
ModelOf(state) ==
  IF state \cap Rounds = {} THEN 0 ELSE Digest[Max(state \cap Rounds)]

Event(type, of) == [type |-> type, of |-> of]

\* updateAuditEvents(): the accepted call, and the round it completed.
EventsOf(t) ==
  <<Event("accepted", t)>> \o (IF t \in Rounds THEN <<Event("aggregated", t)>> ELSE <<>>)

Answer(kind, value) == [kind |-> kind, value |-> value]
Job(value, events, for) == [value |-> value, events |-> events, for |-> for]

Init ==
  /\ pc = "down" /\ mem = {} /\ last = 0 /\ before = {} /\ job = Job({}, <<>>, "start")
  /\ row = {} /\ chain = <<>> /\ objects = {} /\ verified = {}
  /\ reply = Answer("none", {}) /\ acked = {} /\ faults = 0

Fault == faults < MaxFaults /\ faults' = faults + 1

----------------------------------------------------------------------------
(* The coordinator *)

\* Load: the row, and its model from the object store, which Get verifies.
Load ==
  /\ pc = "down"
  /\ ModelOf(row) \in objects \cup {0}
  /\ verified' = verified \cup ({ModelOf(row)} \ {0})
  /\ pc' = "starting" /\ mem' = row /\ reply' = Answer("loaded", row)
  /\ UNCHANGED <<last, before, job, database, objects, acked, faults>>

\* recoverOrInitialize(): the loaded or a fresh state is committed.
Normalize ==
  /\ pc = "starting" /\ pc' = "put" /\ reply' = Answer("none", {})
  /\ LET fresh == mem = {}
     IN  /\ mem' = IF fresh THEN {0} ELSE mem
         /\ job' = Job(mem', <<Event(IF fresh THEN "initialized" ELSE "recovered", 0)>>,
                       "start")
  /\ UNCHANGED <<last, before, database, objects, verified, acked, faults>>

\* A handler has changed the memory and commits.
Transition ==
  /\ pc = "idle" /\ last < MaxTransitions
  /\ last' = last + 1 /\ before' = mem /\ mem' = mem \cup {last'}
  /\ job' = Job(mem', EventsOf(last'), "call")
  /\ pc' = "put" /\ reply' = Answer("none", {})
  /\ UNCHANGED <<database, objects, verified, acked, faults>>

\* The commit of a call has failed: the state before it, in memory and, without an
\* audit event, in the store.
Restore ==
  /\ pc = "restoring" /\ pc' = "put" /\ reply' = Answer("none", {})
  /\ mem' = before /\ job' = Job(before, <<>>, "rollback")
  /\ UNCHANGED <<last, before, database, objects, verified, acked, faults>>

\* CommitWithAudit returns an error.
Failed ==
  /\ pc' = IF job.for = "start" THEN "down"
           ELSE IF job.for = "call" THEN "restoring" ELSE "idle"
  /\ mem' = IF job.for = "start" THEN {} ELSE mem
  /\ reply' = Answer("error", {})
  /\ UNCHANGED <<last, before, job, acked>>

----------------------------------------------------------------------------
(* CommitWithAudit *)

Payload == {ModelOf(job.value)} \ {0}

\* S3ModelArtifactStore.Put: a model not known to be there is looked for, uploaded
\* when missing, and read back.
Put ==
  /\ pc = "put" /\ pc' = "transact"
  /\ objects' = objects \cup (Payload \ verified)
  /\ verified' = verified \cup Payload
  /\ UNCHANGED <<service, job, reply, database, faults>>

\* Mutant: the model counts as present before it is read back.
PutFails_Caches ==
  /\ pc = "put" /\ ~(Payload \subseteq verified) /\ Fault /\ Failed
  /\ objects' \in {objects, objects \cup Payload}
  /\ verified' = verified \cup Payload /\ UNCHANGED database

\* It fails, before or after the upload.
PutFails ==
  /\ pc = "put" /\ ~(Payload \subseteq verified) /\ Fault /\ Failed
  /\ objects' \in {objects, objects \cup Payload}
  /\ UNCHANGED <<database, verified>>

\* BeginTx, the state row and the audit events; nothing is visible yet.
Execute ==
  /\ pc = "transact" /\ pc' = "commit"
  /\ UNCHANGED <<service, job, reply, database, objects, verified, faults>>

TransactionFails ==
  /\ pc \in {"put", "transact", "commit"} /\ Fault /\ Failed
  /\ UNCHANGED <<database, objects, verified>>

\* The hash of the last record.
ChainHead(records) == IF records = <<>> THEN <<>> ELSE records[Len(records)].hash

\* appendAuditEventsTx(): each event links to the one before it.
Appended(records, events) ==
  records \o [i \in 1 .. Len(events) |->
    [sequence |-> Len(records) + i, event |-> events[i],
     previous |-> ChainHead(records) \o SubSeq(events, 1, i - 1),
     hash |-> ChainHead(records) \o SubSeq(events, 1, i)]]

\* The database commits the row and the events together.
CommitTx ==
  /\ pc = "commit" /\ pc' = "landed"
  /\ row' = job.value /\ chain' = Appended(chain, job.events)
  /\ UNCHANGED <<service, job, reply, objects, verified, faults>>

\* The connection is lost before the answer.
AnswerLost ==
  /\ pc = "landed" /\ Fault /\ Failed
  /\ UNCHANGED <<database, objects, verified>>

\* Mutant: success is reported when the transaction is sent.
Answered_Early ==
  /\ pc = "commit" /\ pc' = "idle" /\ reply' = Answer("ok", {})
  /\ acked' = IF job.for = "call" THEN acked \cup {last} ELSE acked
  /\ UNCHANGED <<mem, last, before, job, database, objects, verified, faults>>

Answered ==
  /\ pc = "landed" /\ pc' = "idle" /\ reply' = Answer("ok", {})
  /\ acked' = IF job.for = "call" THEN acked \cup {last} ELSE acked
  /\ UNCHANGED <<mem, last, before, job, database, objects, verified, faults>>

Crash ==
  /\ pc # "down" /\ Fault
  /\ pc' = "down" /\ mem' = {} /\ verified' = {} /\ reply' = Answer("none", {})
  /\ objects' \in {objects, IF pc = "put" THEN objects \cup Payload ELSE objects}
  /\ UNCHANGED <<last, before, job, database, acked>>

Next ==
  \/ Load \/ Normalize \/ Transition \/ Restore
  \/ Put \/ PutFails \/ Execute \/ TransactionFails \/ CommitTx \/ AnswerLost \/ Answered
  \/ Crash

Spec == Init /\ [][Next]_vars

----------------------------------------------------------------------------
(* Properties *)

\* A coordinator that serves has a state, and only models of rounds are stored.
TypeOK ==
  /\ pc \in {"down", "starting", "idle", "restoring", "put", "transact", "commit", "landed"}
  /\ mem \in States /\ before \in States /\ row \in States /\ job.value \in States
  /\ last \in 0 .. MaxTransitions /\ acked \subseteq 1 .. last
  /\ verified \cup objects \subseteq {Digest[t] : t \in Rounds}
  /\ pc = "idle" => 0 \in mem
  /\ faults \in 0 .. MaxFaults

\* "The content-addressed model object is ensured before the PostgreSQL transaction
\* publishes its reference" (docs/architecture/durable-state-v0.6.md): whatever
\* fails and whatever the process has cached, the model of the state row can be
\* read, so the coordinator can start.
PublishedModelExists == ModelOf(row) \in objects \cup {0}

\* verifyAuditRecords() accepts the whole chain at any time: no gap and no broken
\* link, whatever was rolled back, repeated or answered with an error.
ChainVerifies ==
  \A i \in 1 .. Len(chain) :
    /\ chain[i].sequence = i
    /\ chain[i].previous = IF i = 1 THEN <<>> ELSE chain[i - 1].hash
    /\ chain[i].hash = Append(chain[i].previous, chain[i].event)

Audited(event) == Cardinality({i \in 1 .. Len(chain) : chain[i].event = event})

\* There is no unaudited durable transition: each transition in the stored state
\* has its events in the chain exactly once, even when its call failed, was
\* rolled back in memory only, or never got an answer.
StoredIsAudited ==
  \A t \in row \ {0} :
    /\ Audited(Event("accepted", t)) = 1
    /\ Audited(Event("aggregated", t)) = IF t \in Rounds THEN 1 ELSE 0

\* A transition whose call was answered with success stays in the stored state.
AnsweredIsStored == acked \subseteq row

\* The store keeps the contract of StateStore.
Abstract == INSTANCE StateStore WITH
  Value <- States, Nothing <- {}, possible <- {row},
  request <- IF pc \in {"put", "transact", "commit", "landed"} THEN job.value ELSE {}

KeepsContract == Abstract!Spec

=============================================================================
