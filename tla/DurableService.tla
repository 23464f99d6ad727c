--------------------------- MODULE DurableService ---------------------------
(***************************************************************************)
(* The coordinator with durable state: DurableService around Service       *)
(* (pkg/coordinator/durable_service.go, durable_audit.go, service.go,      *)
(* credential_lifecycle.go).                                               *)
(*                                                                         *)
(* persistenceMu serialises the RPCs, so at most one transition is between *)
(* its change of memory and the end of its commit.  `phase` says where it  *)
(* is, `call` what it saved.  The steps of one RPC are: the inner handler  *)
(* (one step, under persistenceMu), the commit of the state after it, and, *)
(* if that fails, the restoration of memory and the commit of the state    *)
(* before it.  Time may pass and the process may die between any two.      *)
(*                                                                         *)
(* `disk` is what the store's Load would return: no snapshot, or one.  A   *)
(* Commit that returns an error may still have replaced it: the file store *)
(* reports a failed directory sync after its rename, and the PostgreSQL    *)
(* store a connection lost while its transaction commits.                  *)
(***************************************************************************)
EXTENDS CoordinatorState

CONSTANTS
    Peer,     \* the identities the certificate authority has issued
    MaxTime,  \* bound: the last time the clock shows
    MaxId     \* bound: the last registration ID handed out

ASSUME ServiceAssumption ==
    /\ Peer \subseteq Identity
    /\ MaxTime \in Nat
    /\ MaxId \in Nat

VARIABLES
    phase,     \* where the holder of persistenceMu is
    mem,       \* the state in the process's memory
    disk,      \* the set of at most one snapshot that Load returns
    call,      \* the transition in flight: before, after and its promise
    now,       \* the coordinator's clock
    lastId,    \* the last registration ID drawn
    acked,     \* history: what successful responses have promised
    served,    \* history: the models GetGlobalModel has returned
    withdrawn, \* history: updates some revocation took from the pending set
    diverged   \* history: "persistent rollback failed" since the last commit

vars == <<phase, mem, disk, call, now, lastId, acked, served, withdrawn, diverged>>
history == <<acked, served, withdrawn, diverged>>

Phase == {"down", "starting", "idle", "committing", "restoring", "rolling back"}

\* What a success response tells its client: the update it accepted, the
\* credentials it replaced or revoked, the node it blocked and until when.
Promise ==
    [updates : SUBSET Request, retired : SUBSET Nat,
     blocked : SUBSET [node : Node, until : Nat]]

NoPromise == [updates |-> {}, retired |-> {}, blocked |-> {}]

NoCall == [before |-> InitialState, after |-> InitialState, promise |-> NoPromise]

\* Types of the coordinator's memory, store and call in progress.
TypeOK ==
    /\ phase \in Phase
    /\ mem \in State
    /\ disk \in SUBSET State
    /\ call \in [before : State, after : State, promise : Promise]
    /\ now \in Nat
    /\ lastId \in Nat
    /\ acked \in Promise
    /\ served \in SUBSET Model
    /\ withdrawn \in SUBSET Request
    /\ diverged \in BOOLEAN

Init ==
    /\ phase = "down"
    /\ mem = InitialState
    /\ disk = {}
    /\ call = NoCall
    /\ now = 1
    /\ lastId = 0
    /\ acked = NoPromise
    /\ served = {}
    /\ withdrawn = {}
    /\ diverged = FALSE

-----------------------------------------------------------------------------
(***************************************************************************)
(* Process life cycle.                                                     *)
(***************************************************************************)
Crash ==
    /\ phase # "down"
    /\ phase' = "down"
    /\ mem' = InitialState
    /\ call' = NoCall
    /\ diverged' = FALSE
    /\ UNCHANGED <<disk, now, lastId, acked, served, withdrawn>>

\* recoverOrInitialize up to its commit: a fresh state, or the stored one.
Start ==
    /\ phase = "down"
    /\ \/ disk = {} /\ mem' = InitialState
       \/ \E d \in disk : Restorable(d) /\ mem' = restoreSnapshot(d, now)
    /\ phase' = "starting"
    /\ UNCHANGED <<disk, call, now, lastId, history>>

\* commitCurrentStateWithAudit succeeds: the service is up.
StartCommitted ==
    /\ phase = "starting"
    /\ validateStateSnapshot(captureSnapshot(mem, now))
    /\ disk' = {captureSnapshot(mem, now)}
    /\ phase' = "idle"
    /\ UNCHANGED <<mem, call, now, lastId, history>>

\* It fails, with or without an effect: the process exits.
StartFailed ==
    /\ phase = "starting"
    /\ \/ UNCHANGED disk
       \/ /\ validateStateSnapshot(captureSnapshot(mem, now))
          /\ disk' = {captureSnapshot(mem, now)}
    /\ phase' = "down"
    /\ mem' = InitialState
    /\ UNCHANGED <<call, now, lastId, history>>

Tick ==
    /\ now < MaxTime
    /\ now' = now + 1
    /\ UNCHANGED <<phase, mem, disk, call, lastId, history>>

-----------------------------------------------------------------------------
(***************************************************************************)
(* The first step of an RPC.  Begin is a handler that succeeds and goes on *)
(* to commit; Refuse is one that returns an error, keeping what it already *)
(* changed in memory.                                                      *)
(***************************************************************************)
Begin(S, promise) ==
    /\ mem' = S
    /\ call' = [before  |-> captureSnapshot(mem, now),
                after   |-> captureSnapshot(S, now),
                promise |-> promise]
    /\ phase' = "committing"
    /\ UNCHANGED <<disk, now, acked, served, diverged>>

Refuse(S) ==
    /\ mem' = S
    /\ UNCHANGED <<phase, disk, call, now, lastId, history>>

\* The credentials of a node: the ones a new registration replaces.
Credentials(entries, n) == {e.id : e \in {x \in entries : x.node = n}}

\* The Authorizer's admission test, then requireIdentityAndRegistration (and
\* in the signed calls Validate once more, under roundMu).
Authorized(i, id) ==
    /\ IsRegistered(mem.registrations, i, now)
    /\ Validate(mem.registrations, i, id, now)

\* A signed call: valid credential, and metadata in the replay window.
Signed(i, id, r) ==
    /\ Authorized(i, id)
    /\ r.node = i.node
    /\ FreshMetadata(r, now)

NonceUsed(r) == NonceSeen(mem.nonces, r, now)

RegisterNode(i) ==
    /\ phase = "idle"
    /\ lastId < MaxId
    /\ CanRegister(mem.registrations, i, now)
    /\ lastId' = lastId + 1
    /\ Begin(Registered(mem, i, lastId + 1, now),
             [NoPromise EXCEPT !.retired = Credentials(mem.registrations, i.node)])
    /\ UNCHANGED withdrawn

Heartbeat(i, id) ==
    /\ phase = "idle"
    /\ Authorized(i, id)
    /\ Begin(Refreshed(mem, i, now), NoPromise)
    /\ UNCHANGED <<lastId, withdrawn>>

\* Mutation of GetGlobalModel: it does not take persistenceMu.
GetGlobalModel_Unlocked(i, id) ==
    /\ phase \notin {"down", "starting"}
    /\ Authorized(i, id)
    /\ served' = served \cup {mem.model}
    /\ UNCHANGED <<phase, mem, disk, call, now, lastId, acked, withdrawn, diverged>>

GetGlobalModel(i, id) ==
    /\ phase = "idle"
    /\ Authorized(i, id)
    /\ served' = served \cup {mem.model}
    /\ UNCHANGED <<phase, mem, disk, call, now, lastId, acked, withdrawn, diverged>>

RotateRegistration(i, id, r) ==
    /\ phase = "idle"
    /\ lastId < MaxId
    /\ Signed(i, id, r)
    /\ ~NonceUsed(r)
    /\ CanRotate(mem.registrations, i, id, now)
    /\ lastId' = lastId + 1
    /\ Begin(Rotated(mem, i, lastId + 1, r, now),
             [NoPromise EXCEPT !.retired = {id}])
    /\ UNCHANGED withdrawn

\* Rotate refuses an exhausted generation after the nonce is spent.
RotateExhausted(i, id, r) ==
    /\ phase = "idle"
    /\ Signed(i, id, r)
    /\ ~NonceUsed(r)
    /\ ~CanRotate(mem.registrations, i, id, now)
    /\ Refuse(NonceSpent(mem, r, now))

\* The entry, and with it the pending update and the rate window, of a node.
RevokeRegistration(i, id, r, target) ==
    /\ phase = "idle"
    /\ i.role = "admin"
    /\ Signed(i, id, r)
    /\ ~NonceUsed(r)
    /\ CanRevoke(mem.registrations, target, now)
    /\ LET revoked == {e \in AfterRevoke(mem.registrations, target, now) : e.node = target}
       IN  Begin(RevocationDone(mem, target, r, now),
                 [NoPromise EXCEPT
                     !.retired = {e.id : e \in revoked},
                     !.blocked = {[node |-> target, until |-> e.expiresAt] : e \in revoked}])
    /\ withdrawn' = withdrawn \cup {u \in mem.pending : u.node = target}
    /\ UNCHANGED lastId

\* Revoke refuses a missing or overlong reason before it looks at the target.
RevokeUnreasoned(i, id, r) ==
    /\ phase = "idle"
    /\ i.role = "admin"
    /\ Signed(i, id, r)
    /\ ~NonceUsed(r)
    /\ Refuse(NonceSpent(mem, r, now))

\* The target has no live registration; an expired entry is deleted.
RevokeInactive(i, id, r, target) ==
    /\ phase = "idle"
    /\ i.role = "admin"
    /\ Signed(i, id, r)
    /\ ~NonceUsed(r)
    /\ ~CanRevoke(mem.registrations, target, now)
    /\ Refuse(RevocationRefused(mem, target, r, now))

-----------------------------------------------------------------------------
(***************************************************************************)
(* SubmitLocalUpdate, one action per way it ends.                          *)
(***************************************************************************)
Submitted(i, id, r) ==
    /\ phase = "idle"
    /\ i.role \in {"edge-worker", "admin"}
    /\ Signed(i, id, r)

\* Mutation of Completes: one update short of the quorum is enough.
Completes_Early(r) == Cardinality(Put(mem.pending, r)) + 1 >= MinUpdates

\* The update would be the one that makes the quorum.
Completes(r) == Cardinality(Put(mem.pending, r)) >= MinUpdates

\* A used nonce; the sweep of the replay cache stays.  The handlers of
\* RotateRegistration and RevokeRegistration end the same way.
ReplayRejected(i, id, r) ==
    /\ phase = "idle"
    /\ Signed(i, id, r)
    /\ NonceUsed(r)
    /\ Refuse(NoncesSwept(mem, now))

SubmitRateLimited(i, id, r) ==
    /\ Submitted(i, id, r)
    /\ ~NonceUsed(r)
    /\ ~UpdateAllowed(mem.rates, r.node, now)
    /\ Refuse(NonceSpent(mem, r, now))

\* Stale base model or round, second update of the round, or another vector
\* length.
SubmitUnusable(i, id, r, base) ==
    /\ Submitted(i, id, r)
    /\ ~NonceUsed(r)
    /\ UpdateAllowed(mem.rates, r.node, now)
    /\ ~Usable(mem, r, base)
    /\ Refuse(Admitted(mem, r, now))

SubmitWaiting(i, id, r, base) ==
    /\ Submitted(i, id, r)
    /\ ~NonceUsed(r)
    /\ UpdateAllowed(mem.rates, r.node, now)
    /\ Usable(mem, r, base)
    /\ ~Completes(r)
    /\ Begin(Waiting(mem, r, now), [NoPromise EXCEPT !.updates = {r}])
    /\ UNCHANGED <<lastId, withdrawn>>

SubmitAggregated(i, id, r, base) ==
    /\ Submitted(i, id, r)
    /\ ~NonceUsed(r)
    /\ UpdateAllowed(mem.rates, r.node, now)
    /\ Usable(mem, r, base)
    /\ Completes(r)
    /\ SameLength(Put(mem.pending, r), r.length)
    /\ Begin(Aggregated(mem, r, now), [NoPromise EXCEPT !.updates = {r}])
    /\ UNCHANGED <<lastId, withdrawn>>

\* Vectors of different lengths, or a sum that overflows to a non-finite
\* value: the update is taken out of the pending set again.
AggregationFailed(i, id, r, base) ==
    /\ Submitted(i, id, r)
    /\ ~NonceUsed(r)
    /\ UpdateAllowed(mem.rates, r.node, now)
    /\ Usable(mem, r, base)
    /\ Completes(r)
    /\ Refuse(AggregationUndone(mem, r, now))

-----------------------------------------------------------------------------
(***************************************************************************)
(* commitOrRollbackTransition.                                             *)
(***************************************************************************)
\* Mutation of Committed: the call is answered before the state is written.
Committed_Unwritten ==
    /\ phase = "committing"
    /\ acked' = [updates |-> acked.updates \cup call.promise.updates,
                 retired |-> acked.retired \cup call.promise.retired,
                 blocked |-> acked.blocked \cup call.promise.blocked]
    /\ phase' = "idle"
    /\ call' = NoCall
    /\ diverged' = FALSE
    /\ UNCHANGED <<mem, disk, now, lastId, served, withdrawn>>

Committed ==
    /\ phase = "committing"
    /\ validateStateSnapshot(call.after)
    /\ disk' = {call.after}
    /\ acked' = [updates |-> acked.updates \cup call.promise.updates,
                 retired |-> acked.retired \cup call.promise.retired,
                 blocked |-> acked.blocked \cup call.promise.blocked]
    /\ phase' = "idle"
    /\ call' = NoCall
    /\ diverged' = FALSE
    /\ UNCHANGED <<mem, now, lastId, served, withdrawn>>

CommitFailed ==
    /\ phase = "committing"
    /\ \/ UNCHANGED disk
       \/ validateStateSnapshot(call.after) /\ disk' = {call.after}
    /\ phase' = "restoring"
    /\ UNCHANGED <<mem, call, now, lastId, history>>

\* Mutation of RestoreMemory: only the store is rolled back.
RestoreMemory_Skipped ==
    /\ phase = "restoring"
    /\ phase' = "rolling back"
    /\ UNCHANGED <<mem, call, disk, now, lastId, history>>

\* restoreSnapshot(before); if it refuses, the call ends there and memory
\* keeps the state after the transition.
RestoreMemory ==
    /\ phase = "restoring"
    /\ IF Restorable(call.before)
       THEN /\ mem' = restoreSnapshot(call.before, now)
            /\ phase' = "rolling back"
            /\ UNCHANGED call
       ELSE /\ phase' = "idle"
            /\ call' = NoCall
            /\ UNCHANGED mem
    /\ UNCHANGED <<disk, now, lastId, history>>

\* "previous state restored"
RolledBack ==
    /\ phase = "rolling back"
    /\ validateStateSnapshot(call.before)
    /\ disk' = {call.before}
    /\ phase' = "idle"
    /\ call' = NoCall
    /\ diverged' = FALSE
    /\ UNCHANGED <<mem, now, lastId, acked, served, withdrawn>>

\* "persistent rollback failed", with or without an effect on the store: the
\* service goes on from the restored memory.
RollbackFailed ==
    /\ phase = "rolling back"
    /\ \/ UNCHANGED disk
       \/ validateStateSnapshot(call.before) /\ disk' = {call.before}
    /\ phase' = "idle"
    /\ call' = NoCall
    /\ diverged' = TRUE
    /\ UNCHANGED <<mem, now, lastId, acked, served, withdrawn>>

-----------------------------------------------------------------------------
Ids == 1 .. lastId

Next ==
    \/ Crash
    \/ Start
    \/ StartCommitted
    \/ StartFailed
    \/ Tick
    \/ Committed
    \/ CommitFailed
    \/ RestoreMemory
    \/ RolledBack
    \/ RollbackFailed
    \/ \E i \in Peer :
        \/ RegisterNode(i)
        \/ \E id \in Ids :
            \/ Heartbeat(i, id)
            \/ GetGlobalModel(i, id)
            \/ \E r \in Request :
                \/ RotateRegistration(i, id, r)
                \/ RotateExhausted(i, id, r)
                \/ ReplayRejected(i, id, r)
                \/ RevokeUnreasoned(i, id, r)
                \/ SubmitRateLimited(i, id, r)
                \/ \E target \in Node :
                    \/ RevokeRegistration(i, id, r, target)
                    \/ RevokeInactive(i, id, r, target)
                \/ \E base \in served :
                    \/ SubmitUnusable(i, id, r, base)
                    \/ SubmitWaiting(i, id, r, base)
                    \/ SubmitAggregated(i, id, r, base)
                    \/ AggregationFailed(i, id, r, base)

Spec == Init /\ [][Next]_vars

-----------------------------------------------------------------------------
(***************************************************************************)
(* Properties.                                                             *)
(***************************************************************************)
ContributedTo(m) == {x.update : x \in m.inputs}

\* Recovery and rollback never refuse: whatever a commit, complete or not,
\* leaves in the store passes both validations of restoreSnapshot, and so does
\* every `before` that commitOrRollbackTransition may have to restore.  (Commit
\* runs only the first of the two validations.)
Recoverable ==
    /\ \A d \in disk : Restorable(d)
    /\ Restorable(call.before)

\* An update whose submission was answered "accepted" is in the stored state,
\* waiting or aggregated, whatever commits failed and crashes happened since,
\* unless a revocation of its node took it from the pending set.
AcceptedIsDurable ==
    \A r \in acked.updates \ withdrawn :
        \E d \in disk : r \in d.pending \cup ContributedTo(d.model)

\* Between calls memory and store hold the same model, the same waiting
\* updates and the same live registrations, unless the last transition ended
\* with the error "persistent rollback failed".  Replay nonces and rate windows
\* are left out: a refused call changes them in memory only.
AtRestMemoryIsStored ==
    phase = "idle" /\ ~diverged =>
        \E d \in disk :
            /\ d.model = mem.model
            /\ d.pending = mem.pending
            /\ LiveEntries(d.registrations, now) = LiveEntries(mem.registrations, now)

\* The model m is m2 or one of the models m2 was built from.
AncestorOf(m, m2) ==
    /\ m.round <= m2.round
    /\ m.inputs = {x \in m2.inputs : x.round <= m.round}
    /\ m.round = m2.round => m = m2

\* No client sees history change: every model that GetGlobalModel ever
\* returned is an ancestor of the stored model, so failed commits, rollbacks
\* and restarts never replace or take back a round somebody has seen.
ServedHistoryIsStable ==
    \A m \in served : \E d \in disk : AncestorOf(m, d.model)

\* A credential that an acknowledged registration, rotation or revocation
\* replaced is accepted by no later call, in this process or after a restart.
RetiredStaysRetired ==
    \A S \in {mem} \cup disk : \A e \in S.registrations :
        e.id \in acked.retired => Revoked(e)

\* An acknowledged revocation keeps its promise blocked_until: until then the
\* node can neither use its credential nor register again, restarts included.
RevocationHolds ==
    \A b \in acked.blocked : now < b.until =>
        \A S \in disk \cup (IF phase = "down" THEN {} ELSE {mem}) :
            \E e \in S.registrations :
                e.node = b.node /\ Revoked(e) /\ b.until <= e.expiresAt

\* No update of a node under an unexpired revocation waits to be aggregated.
RevokedNotPending ==
    \A S \in {mem} \cup disk : \A e \in S.registrations : \A u \in S.pending :
        Revoked(e) /\ Live(e, now) => u.node # e.node

\* Every round of every model is made of exactly MinUpdates updates, each of
\* another node and all of the length of the model.
RoundsAreQuorums ==
    \A m \in {mem.model} \cup {d.model : d \in disk} :
        /\ \A x \in m.inputs : x.round \in 1 .. m.round
        /\ \A k \in 1 .. m.round :
            LET updates == {x.update : x \in {y \in m.inputs : y.round = k}}
            IN  /\ Cardinality(updates) = MinUpdates
                /\ \A u, v \in updates : u.node = v.node => u = v
                /\ SameLength(updates, m.length)

\* An update enters the global model at most once, and does not wait again once
\* it was aggregated, though its call may be delivered any number of times,
\* before and after restarts and rollbacks, and also when its nonce is already
\* forgotten (by the time it was seen) while its metadata is still fresh (by
\* the time it was issued).
AggregatedAtMostOnce ==
    \A S \in {mem} \cup disk :
        /\ \A x, y \in S.model.inputs : x.update = y.update => x = y
        /\ S.pending \cap ContributedTo(S.model) = {}

\* README.md:107 says that the Go coordinator "does not perform native model
\* aggregation or advance the global FL model".  SubmitLocalUpdate does: the
\* update that completes a quorum replaces the stored model by the next round.
CoordinatorKeepsModel == \A d \in disk : d.model.round = 0
=============================================================================
