-------------------------- MODULE CoordinatorState --------------------------
(***************************************************************************)
(* The state of the coordinator's Service (pkg/coordinator/service.go) as  *)
(* one value, and the operations of its RPC handlers on that value.  It is *)
(* also the value a StateSnapshot holds, so that the durable layer can     *)
(* keep a copy of it in memory and one in its store.                       *)
(*                                                                         *)
(* A client call is a member of Request: the node that signs it, its       *)
(* nonce, the time it was issued and, for an update, the round it is for   *)
(* and the length of its vector.  An update is identified with the call    *)
(* that submits it, so a call delivered again is the same update.  The     *)
(* values of vectors are left out: a global model is its round, the length *)
(* of its payload (0 for the payload-free bootstrap model) and the set of  *)
(* updates that were aggregated into it, each with its round.  Equal       *)
(* models are equal versions, because a version is the round and a digest  *)
(* of the payload those inputs determine.                                  *)
(***************************************************************************)
EXTENDS Registry, FiniteSets

CONSTANTS
    Request,              \* the calls clients may make
    MinUpdates,           \* Config.MinUpdates, the quorum
    MaxUpdatesPerMinute,  \* Config.MaxUpdatesPerMinute
    ReplayWindow,         \* requestReplayWindow
    Minute,               \* the length of a rate window
    InitialLength         \* vector length of Config.InitialModel, 0 if none

ASSUME CoordinatorAssumption ==
    /\ IsFiniteSet(Request)
    /\ Request \subseteq
           [node : Node, nonce : Nat, issuedAt : Nat, round : Nat, length : Nat \ {0}]
    /\ MinUpdates \in Nat \ {0}
    /\ MaxUpdatesPerMinute \in Nat \ {0}
    /\ ReplayWindow \in Nat
    /\ Minute \in Nat \ {0}
    /\ InitialLength \in Nat

Model == [round : Nat, length : Nat, inputs : SUBSET [round : Nat, update : Request]]

SeenNonce == [node : Node, nonce : Nat, seenAt : Nat]

RateWindow == [node : Node, startedAt : Nat, count : Nat]

State ==
    [model : Model, pending : SUBSET Request,
     registrations : SUBSET Registration,
     nonces : SUBSET SeenNonce, rates : SUBSET RateWindow]

\* NewService: the state of a coordinator that has nothing to recover.
InitialState ==
    [model |-> [round |-> 0, length |-> InitialLength, inputs |-> {}],
     pending |-> {}, registrations |-> {}, nonces |-> {}, rates |-> {}]

-----------------------------------------------------------------------------
\* validateSecurityMetadata: a call may be old, or stamped ahead of the
\* coordinator's clock, by the window.
FreshMetadata(r, t) ==
    /\ t <= r.issuedAt + ReplayWindow
    /\ r.issuedAt <= t + ReplayWindow

\* The replay cache without the entries acceptNonceLocked sweeps out, by the
\* time they were seen.  A call stamped ahead may still be fresh then.
RetainedNonces(nonces, t) == {x \in nonces : t <= x.seenAt + ReplayWindow}

NonceSeen(nonces, r, t) ==
    \E x \in RetainedNonces(nonces, t) : x.node = r.node /\ x.nonce = r.nonce

NonceRecorded(nonces, r, t) ==
    RetainedNonces(nonces, t)
        \cup {[node |-> r.node, nonce |-> r.nonce, seenAt |-> t]}

\* A window allowUpdateLocked still counts in.
Current(w, t) == t < w.startedAt + Minute

UpdateAllowed(rates, n, t) ==
    \A w \in rates :
        w.node = n /\ Current(w, t) => w.count < MaxUpdatesPerMinute

UpdateCounted(rates, n, t) ==
    LET others  == {w \in rates : w.node # n}
        current == {w \in rates : w.node = n /\ Current(w, t)}
    IN  others \cup
        (IF current = {} THEN {[node |-> n, startedAt |-> t, count |-> 1]}
         ELSE {[w EXCEPT !.count = @ + 1] : w \in current})

-----------------------------------------------------------------------------
(***************************************************************************)
(* The states that RegisterNode, Heartbeat, RotateRegistration and         *)
(* RevokeRegistration leave, on success or on failure.                     *)
(***************************************************************************)
Registered(S, i, id, t) ==
    [S EXCEPT !.registrations = AfterRegister(@, i, id, t)]

Refreshed(S, i, t) == [S EXCEPT !.registrations = AfterRefresh(@, i, t)]

NonceSpent(S, r, t) == [S EXCEPT !.nonces = NonceRecorded(@, r, t)]

NoncesSwept(S, t) == [S EXCEPT !.nonces = RetainedNonces(@, t)]

Rotated(S, i, next, r, t) ==
    [NonceSpent(S, r, t) EXCEPT !.registrations = AfterRotate(@, i, next, t)]

\* Mutation of Withdrawn: the waiting update stays.
Withdrawn_RateOnly(S, n) == [S EXCEPT !.rates = Without(@, n)]

\* What a revocation takes from its target besides the registration.
Withdrawn(S, n) ==
    [S EXCEPT !.pending = Without(@, n), !.rates = Without(@, n)]

RevocationDone(S, n, r, t) ==
    [NonceSpent(Withdrawn(S, n), r, t) EXCEPT !.registrations = AfterRevoke(@, n, t)]

RevocationRefused(S, n, r, t) ==
    [NonceSpent(S, r, t) EXCEPT !.registrations = AfterRevoke(@, n, t)]

-----------------------------------------------------------------------------
\* Mutation of Usable: the round an update was made for is not looked at.
Usable_AnyRound(S, r, base) ==
    /\ base = S.model
    /\ \A u \in S.pending : u.node # r.node
    /\ S.model.length \in {0, r.length}

\* What SubmitLocalUpdate asks of an update once it is admitted: it builds on
\* the current model, is for the current round, is the node's first in it, and
\* fits the model.
Usable(S, r, base) ==
    /\ base = S.model
    /\ r.round = S.model.round
    /\ \A u \in S.pending : u.node # r.node
    /\ S.model.length \in {0, r.length}

\* The length checks of aggregatePendingUpdates.
SameLength(updates, length) == \A u \in updates : u.length = length

NextModel(m, updates, length) ==
    [round  |-> m.round + 1,
     length |-> length,
     inputs |-> m.inputs \cup
                {[round |-> m.round + 1, update |-> u] : u \in updates}]

\* The nonce and the rate window an admitted update has used up.
Admitted(S, r, t) ==
    [S EXCEPT !.nonces = NonceRecorded(@, r, t),
              !.rates  = UpdateCounted(@, r.node, t)]

\* Below the quorum the update waits with the others.
Waiting(S, r, t) ==
    [Admitted(S, r, t) EXCEPT !.pending = Put(@, r)]

\* Mutation of Aggregated: the update that completes the quorum is left out.
Aggregated_DropsLast(S, r, t) ==
    [Admitted(S, r, t) EXCEPT
        !.model   = NextModel(@, S.pending, r.length),
        !.pending = {}]

\* The update that completes the quorum advances the round.
Aggregated(S, r, t) ==
    [Admitted(S, r, t) EXCEPT
        !.model   = NextModel(@, Put(S.pending, r), r.length),
        !.pending = {}]

\* Mutation of AggregationUndone: the update is not taken out again.
AggregationUndone_Kept(S, r, t) == [Admitted(S, r, t) EXCEPT !.pending = Put(@, r)]

\* A round that cannot be aggregated: the update is taken out again.
AggregationUndone(S, r, t) ==
    [Admitted(S, r, t) EXCEPT !.pending = Without(Put(@, r), r.node)]

-----------------------------------------------------------------------------
(***************************************************************************)
(* captureSnapshot drops what has expired: lease, nonce or rate window;    *)
(* restoreSnapshot drops it again by its own clock.                        *)
(***************************************************************************)
Unexpired(S, t) ==
    [S EXCEPT !.registrations = LiveEntries(@, t),
              !.nonces        = RetainedNonces(@, t),
              !.rates         = {w \in @ : Current(w, t)}]

\* Mutation of captureSnapshot: only usable registrations are persisted.
captureSnapshot_ActiveOnly(S, t) ==
    [Unexpired(S, t) EXCEPT !.registrations = {e \in @ : ~Revoked(e)}]

captureSnapshot(S, t) == Unexpired(S, t)

\* Mutation of restoreSnapshot: the waiting updates are not recovered.
restoreSnapshot_NoPending(S, t) == [Unexpired(S, t) EXCEPT !.pending = {}]

restoreSnapshot(S, t) == Unexpired(S, t)

(***************************************************************************)
(* validateStateSnapshot, which every Commit and every restore runs.       *)
(* Policy, experiment and digests are constant here and left out.          *)
(***************************************************************************)
validateStateSnapshot(S) ==
    /\ Cardinality(S.pending) < MinUpdates
    /\ OneEach(S.pending)
    /\ \A u, v \in S.pending : u.length = v.length
    /\ S.model.length # 0 => SameLength(S.pending, S.model.length)
    /\ OneEach(S.registrations)
    /\ \A x, y \in S.nonces : x.node = y.node /\ x.nonce = y.nonce => x = y
    /\ OneEach(S.rates)
    /\ \A w \in S.rates : w.count \in 1 .. MaxUpdatesPerMinute

\* restoreSnapshot refuses what either of its two validations refuses.
Restorable(S) == validateStateSnapshot(S) /\ RestorableEntries(S.registrations)
=============================================================================
