------------------------------ MODULE Registry ------------------------------
(***************************************************************************)
(* The operations of RegistrationStore (pkg/security/middleware.go) as     *)
(* operators on the value of its `entries` map.  The map is a set of       *)
(* registrations with at most one per node, and map assignment is Put.     *)
(* A registration ID is a number drawn fresh from 1, 2, ...: the code      *)
(* draws 24 random bytes, which are taken never to repeat.  Time is the    *)
(* coordinator's clock in whole units starting at 1; the zero time.Time    *)
(* of an entry that was never revoked is 0.                                *)
(***************************************************************************)
EXTENDS Naturals

CONSTANTS
    Node,           \* node IDs, the common names of the certificates
    Cert,           \* certificate fingerprints
    LeaseTTL,       \* Config.LeaseTTL
    MaxGeneration   \* ^uint64(0), the largest credential generation

ASSUME RegistryAssumption ==
    /\ LeaseTTL \in Nat \ {0}
    /\ MaxGeneration \in Nat \ {0}

Role == {"edge-worker", "observer", "admin"}

\* PeerIdentity: what the mTLS handshake and the bearer token establish.
Identity == [node : Node, role : Role, cert : Cert]

Registration ==
    [node : Node, role : Role, cert : Cert, id : Nat,
     expiresAt : Nat, generation : Nat, revokedAt : Nat]

\* delete(m, n), for a map from node IDs held as the set of its values
Without(m, n) == {x \in m : x.node # n}

\* m is a map: it has one value for a node
OneEach(m) == \A x, y \in m : x.node = y.node => x = y

\* m[e.NodeID] = e
Put(m, e) == Without(m, e.node) \cup {e}

Live(e, t) == t < e.expiresAt

Revoked(e) == e.revokedAt # 0

BoundTo(e, i) == e.role = i.role /\ e.cert = i.cert

(***************************************************************************)
(* Register.  A live entry blocks the call when it is revoked or bound to  *)
(* another certificate or role; any entry still in the map, live or not,   *)
(* hands its generation on, and blocks the call when that is exhausted.    *)
(***************************************************************************)
CanRegister(entries, i, t) ==
    \A e \in entries :
        e.node = i.node =>
            /\ Live(e, t) => ~Revoked(e) /\ BoundTo(e, i)
            /\ e.generation < MaxGeneration

NextGeneration(entries, n) ==
    IF \E e \in entries : e.node = n
    THEN (CHOOSE e \in entries : e.node = n).generation + 1
    ELSE 1

\* Mutation of Issued: the lease ends before it starts.
Issued_PastLease(i, id, generation, t) ==
    [node |-> i.node, role |-> i.role, cert |-> i.cert, id |-> id,
     expiresAt |-> t - LeaseTTL, generation |-> generation, revokedAt |-> 0]

\* The entry Register and Rotate write for the holder i of a credential.
Issued(i, id, generation, t) ==
    [node |-> i.node, role |-> i.role, cert |-> i.cert, id |-> id,
     expiresAt |-> t + LeaseTTL, generation |-> generation, revokedAt |-> 0]

AfterRegister(entries, i, id, t) ==
    Put(entries, Issued(i, id, NextGeneration(entries, i.node), t))

\* validateRegistrationEntry on the caller's entry.
Validate(entries, i, id, t) ==
    \E e \in entries :
        /\ e.node = i.node
        /\ Live(e, t)
        /\ ~Revoked(e)
        /\ e.id = id
        /\ BoundTo(e, i)

\* IsRegistered: the Authorizer's admission test, which knows no credential.
IsRegistered(entries, i, t) ==
    \E e \in entries :
        e.node = i.node /\ Live(e, t) /\ ~Revoked(e) /\ BoundTo(e, i)

\* Refresh, once Validate holds: a new lease on the same credential.
AfterRefresh(entries, i, t) ==
    {IF e.node = i.node THEN [e EXCEPT !.expiresAt = t + LeaseTTL] ELSE e :
        e \in entries}

\* Rotate needs a valid credential whose generation is not exhausted.
CanRotate(entries, i, id, t) ==
    /\ Validate(entries, i, id, t)
    /\ \A e \in entries : e.node = i.node => e.generation < MaxGeneration

AfterRotate(entries, i, next, t) ==
    {IF e.node = i.node THEN Issued(e, next, e.generation + 1, t) ELSE e :
        e \in entries}

(***************************************************************************)
(* Revoke.  It succeeds on a live entry, the first time by stamping it and *)
(* afterwards by returning it as it is.  On an expired entry it deletes    *)
(* the entry and fails.                                                    *)
(***************************************************************************)
CanRevoke(entries, target, t) ==
    \E e \in entries : e.node = target /\ Live(e, t)

AfterRevoke(entries, target, t) ==
    {IF e.node = target /\ ~Revoked(e) THEN [e EXCEPT !.revokedAt = t] ELSE e :
        e \in {x \in entries : x.node = target => Live(x, t)}}

\* Snapshot, and what RestoreSnapshot keeps of one.
LiveEntries(entries, t) == {e \in entries : Live(e, t)}

\* The checks RestoreSnapshot makes before it replaces the map.  (Its check of
\* the generation comes after normalizeLegacyRegistration and never refuses.)
RestorableEntries(entries) ==
    /\ \A e \in entries : e.revokedAt <= e.expiresAt
    /\ OneEach(entries)
=============================================================================
