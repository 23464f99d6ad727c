-------------------------- MODULE DurabilityProofs --------------------------
(***************************************************************************)
(* What a client of the durable coordinator can rely on, proved for all    *)
(* values of the constants: recovery cannot be refused, an accepted update *)
(* stays stored, a model that was served stays part of the history, memory *)
(* and store agree between calls, every round is a quorum, an update is    *)
(* aggregated at most once, and retired and revoked credentials stay so.   *)
(*                                                                         *)
(* Before that come the operators and handlers: what an operator preserves *)
(* of a state's type and of the conditions on which restoreSnapshot        *)
(* accepts it, that every variable keeps its type, and what the handlers   *)
(* do to memory.                                                           *)
(***************************************************************************)
EXTENDS DurableService, TLAPS

\* Most leaves are first-order; the others cite SMT.
USE Zenon

-----------------------------------------------------------------------------
(***************************************************************************)
(* The registry.                                                           *)
(***************************************************************************)
\* NextGeneration is a generation, never the zero that marks a legacy entry.
LEMMA NextGenerationType ==
    ASSUME NEW E \in SUBSET Registration, NEW n
    PROVE  NextGeneration(E, n) \in Nat \ {0}
<1>1. CASE \E e \in E : e.node = n
  <2>1. (CHOOSE e \in E : e.node = n) \in E
    BY <1>1
  <2>2. (CHOOSE e \in E : e.node = n).generation \in Nat
    BY <2>1 DEF Registration
  <2> QED
    BY <1>1, <2>2, SMT DEF NextGeneration
<1>2. CASE ~\E e \in E : e.node = n
  BY <1>2, SMT DEF NextGeneration
<1> QED
  BY <1>1, <1>2

\* Register, Refresh, Rotate, Revoke and Snapshot keep the map well typed.
LEMMA RegistryTypes ==
    ASSUME NEW E \in SUBSET Registration, NEW i \in Identity,
           NEW id \in Nat, NEW n, NEW t \in Nat
    PROVE  /\ AfterRegister(E, i, id, t) \in SUBSET Registration
           /\ AfterRefresh(E, i, t) \in SUBSET Registration
           /\ AfterRotate(E, i, id, t) \in SUBSET Registration
           /\ AfterRevoke(E, n, t) \in SUBSET Registration
           /\ LiveEntries(E, t) \in SUBSET Registration
<1> USE RegistryAssumption
<1>i. ASSUME NEW x, x.node \in Node, x.role \in Role, x.cert \in Cert, NEW g \in Nat
      PROVE  Issued(x, id, g, t) \in Registration
  BY <1>i, SMT DEF Issued, Registration
<1>1. AfterRegister(E, i, id, t) \in SUBSET Registration
  BY NextGenerationType, <1>i DEF AfterRegister, Put, Without, Identity
<1>2. AfterRefresh(E, i, t) \in SUBSET Registration
  BY SMT DEF AfterRefresh, Registration
<1>3. AfterRotate(E, i, id, t) \in SUBSET Registration
  <2>1. ASSUME NEW e \in E
        PROVE  Issued(e, id, e.generation + 1, t) \in Registration
    <3>1. e.node \in Node /\ e.role \in Role /\ e.cert \in Cert /\ e.generation + 1 \in Nat
      BY SMT DEF Registration
    <3> QED
      BY <3>1, <1>i
  <2> QED
    BY <2>1 DEF AfterRotate
<1>4. AfterRevoke(E, n, t) \in SUBSET Registration
  BY DEF AfterRevoke, Registration
<1>5. LiveEntries(E, t) \in SUBSET Registration
  BY DEF LiveEntries
<1> QED
  BY <1>1, <1>2, <1>3, <1>4, <1>5

\* A map RestoreSnapshot accepts is still one after each operation that
\* succeeds on it, and after the deletion by which a late Revoke fails.
LEMMA RegistryStaysRestorable ==
    ASSUME NEW E \in SUBSET Registration, RestorableEntries(E),
           NEW i \in Identity, NEW id \in Nat, NEW n, NEW t \in Nat
    PROVE  /\ RestorableEntries(AfterRegister(E, i, id, t))
           /\ (\E k \in Nat : Validate(E, i, k, t)) =>
                  /\ RestorableEntries(AfterRefresh(E, i, t))
                  /\ RestorableEntries(AfterRotate(E, i, id, t))
           /\ RestorableEntries(AfterRevoke(E, n, t))
           /\ RestorableEntries(LiveEntries(E, t))
<1> USE RegistryAssumption
<1>1. RestorableEntries(AfterRegister(E, i, id, t))
  BY NextGenerationType, SMT
     DEF AfterRegister, Issued, Put, Without, Registration, Identity, RestorableEntries, OneEach
<1>2. ASSUME NEW k \in Nat, Validate(E, i, k, t)
      PROVE  /\ RestorableEntries(AfterRefresh(E, i, t))
             /\ RestorableEntries(AfterRotate(E, i, id, t))
  <2>1. \A e \in E : e.node = i.node => e.revokedAt = 0
    BY <1>2 DEF Validate, Revoked, RestorableEntries, OneEach
  <2>2. RestorableEntries(AfterRefresh(E, i, t))
    BY <2>1, SMT DEF AfterRefresh, Registration, RestorableEntries, OneEach
  <2>3. RestorableEntries(AfterRotate(E, i, id, t))
    BY <2>1, SMT DEF AfterRotate, Issued, Registration, RestorableEntries, OneEach
  <2> QED
    BY <2>2, <2>3
<1>3. RestorableEntries(AfterRevoke(E, n, t))
  BY SMT DEF AfterRevoke, Live, Registration, RestorableEntries, OneEach
<1>4. RestorableEntries(LiveEntries(E, t))
  BY DEF LiveEntries, RestorableEntries, OneEach
<1> QED
  BY <1>1, <1>2, <1>3, <1>4

\* What no operation of the registry undoes: a live revocation stays as it is,
\* and an entry is new or continues one, revoked if that was.
Continues(E, F, k, t) ==
    /\ \A e \in E : Revoked(e) /\ Live(e, t) => e \in F
    /\ \A f \in F :
        \/ k < f.id
        \/ \E e \in E : e.id = f.id /\ e.node = f.node /\ (Revoked(e) => Revoked(f))

\* IDs come from 1 .. k, and no two entries share one.
Drawn(E, k) ==
    /\ \A e \in E : e.id <= k
    /\ \A e, f \in E : e.id = f.id => e = f

\* The nodes that are under a revocation.
RevokedNodes(E) == {e.node : e \in {x \in E : Revoked(x)}}

-----------------------------------------------------------------------------
(***************************************************************************)
(* The replay cache and the rate windows.                                  *)
(***************************************************************************)
NonceMap(N) == \A x, y \in N : x.node = y.node /\ x.nonce = y.nonce => x = y

RateMap(R) == OneEach(R) /\ \A w \in R : w.count \in 1 .. MaxUpdatesPerMinute

\* acceptNonceLocked keeps the cache a map with one time per node and nonce.
LEMMA NonceLemma ==
    ASSUME NEW N \in SUBSET SeenNonce, NEW r \in Request, NEW t \in Nat
    PROVE  /\ RetainedNonces(N, t) \in SUBSET SeenNonce
           /\ NonceRecorded(N, r, t) \in SUBSET SeenNonce
           /\ NonceMap(N) => NonceMap(RetainedNonces(N, t))
           /\ NonceMap(N) /\ ~NonceSeen(N, r, t) => NonceMap(NonceRecorded(N, r, t))
<1>1. r.node \in Node /\ r.nonce \in Nat
  BY CoordinatorAssumption
<1>2. RetainedNonces(N, t) \in SUBSET SeenNonce
  BY DEF RetainedNonces
<1>3. NonceRecorded(N, r, t) \in SUBSET SeenNonce
  BY <1>1, <1>2, SMT DEF NonceRecorded, SeenNonce
<1>4. NonceMap(N) => NonceMap(RetainedNonces(N, t))
  BY DEF NonceMap, RetainedNonces
<1>5. NonceMap(N) /\ ~NonceSeen(N, r, t) => NonceMap(NonceRecorded(N, r, t))
  BY <1>4, SMT DEF NonceMap, NonceRecorded, NonceSeen
<1> QED
  BY <1>2, <1>3, <1>4, <1>5

-----------------------------------------------------------------------------
(***************************************************************************)
(* The state as a whole.                                                   *)
(***************************************************************************)
\* What Restorable asks of the number of the waiting updates, of their lengths,
\* and apart from these.
Few(S) == Cardinality(S.pending) < MinUpdates

Sound(S) ==
    /\ OneEach(S.pending)
    /\ RestorableEntries(S.registrations)
    /\ NonceMap(S.nonces)
    /\ RateMap(S.rates)

LengthsAgree(S) ==
    /\ \A u, v \in S.pending : u.length = v.length
    /\ S.model.length # 0 => SameLength(S.pending, S.model.length)

\* The split of restoreSnapshot's conditions into the three that the proofs treat apart.
LEMMA RestorableSplit ==
    ASSUME NEW S \in State
    PROVE  /\ Restorable(S) <=> Few(S) /\ Sound(S) /\ LengthsAgree(S)
           /\ Sound(S) /\ validateStateSnapshot(S) => Restorable(S)
BY DEF Restorable, validateStateSnapshot, RestorableEntries, Few, Sound, LengthsAgree,
       NonceMap, RateMap

\* A new coordinator's state is sound.
LEMMA InitialStateLemma ==
    InitialState \in State /\ Sound(InitialState) /\ LengthsAgree(InitialState)
<1>1. InitialState \in State
  BY CoordinatorAssumption DEF InitialState, State, Model
<1>3. Sound(InitialState)
  BY DEF InitialState, Sound, OneEach, RestorableEntries, NonceMap, RateMap
<1>4. LengthsAgree(InitialState)
  BY DEF InitialState, LengthsAgree, SameLength
<1> QED
  BY <1>1, <1>3, <1>4

\* captureSnapshot and restoreSnapshot drop what has expired and nothing else.
LEMMA UnexpiredLemma ==
    ASSUME NEW S \in State, NEW t \in Nat
    PROVE  /\ Unexpired(S, t) \in State
           /\ Unexpired(S, t).model = S.model
           /\ Unexpired(S, t).pending = S.pending
           /\ Unexpired(S, t).registrations = LiveEntries(S.registrations, t)
           /\ Sound(S) => Sound(Unexpired(S, t))
           /\ LengthsAgree(S) => LengthsAgree(Unexpired(S, t))
<1> DEFINE U == Unexpired(S, t)
           rates == {w \in S.rates : Current(w, t)}
<1>1. /\ U \in State
      /\ U.model = S.model
      /\ U.pending = S.pending
      /\ U.registrations = LiveEntries(S.registrations, t)
      /\ U.nonces = RetainedNonces(S.nonces, t)
      /\ U.rates = rates
  <2>1. LiveEntries(S.registrations, t) \in SUBSET Registration
    BY DEF LiveEntries, State
  <2>2. RetainedNonces(S.nonces, t) \in SUBSET SeenNonce
    BY DEF RetainedNonces, State
  <2>3. rates \in SUBSET RateWindow
    BY DEF State
  <2> QED
    BY <2>1, <2>2, <2>3 DEF Unexpired, State
<1>2. ASSUME Sound(S) PROVE Sound(U)
  <2>1. RestorableEntries(LiveEntries(S.registrations, t))
    BY <1>2 DEF Sound, RestorableEntries, LiveEntries, OneEach
  <2>2. NonceMap(RetainedNonces(S.nonces, t))
    BY <1>2 DEF Sound, NonceMap, RetainedNonces
  <2>3. RateMap(rates)
    BY <1>2 DEF Sound, RateMap, OneEach
  <2> QED
    BY <1>1, <1>2, <2>1, <2>2, <2>3 DEF Sound
<1>3. LengthsAgree(S) => LengthsAgree(U)
  BY <1>1 DEF LengthsAgree
<1> QED
  BY <1>1, <1>2, <1>3

\* An admitted update has used a nonce and a place in the rate window only.
LEMMA AdmittedLemma ==
    ASSUME NEW S \in State, NEW r \in Request, NEW t \in Nat
    PROVE  /\ Admitted(S, r, t) \in State
           /\ Admitted(S, r, t).model = S.model
           /\ Admitted(S, r, t).pending = S.pending
           /\ Admitted(S, r, t).registrations = S.registrations
           /\ (Sound(S) /\ ~NonceSeen(S.nonces, r, t) /\ UpdateAllowed(S.rates, r.node, t))
                  => Sound(Admitted(S, r, t))
<1>r. ASSUME NEW R \in SUBSET RateWindow, NEW n \in Node, NEW u \in Nat
      PROVE  /\ UpdateCounted(R, n, u) \in SUBSET RateWindow
             /\ RateMap(R) /\ UpdateAllowed(R, n, u) => RateMap(UpdateCounted(R, n, u))
  <2> DEFINE others  == {w \in R : w.node # n}
             current == {w \in R : w.node = n /\ Current(w, u)}
             first   == [node |-> n, startedAt |-> u, count |-> 1]
             next(w) == [w EXCEPT !.count = @ + 1]
  <2>1. CASE current = {}
    <3>1. UpdateCounted(R, n, u) = others \cup {first}
      BY <2>1 DEF UpdateCounted
    <3>2. first \in RateWindow
      BY DEF RateWindow
    <3>3. RateMap(R) => RateMap(others \cup {first})
      BY <3>2, CoordinatorAssumption, SMT DEF RateMap, OneEach, RateWindow
    <3> QED
      BY <3>1, <3>2, <3>3
  <2>2. CASE current # {}
    <3>1. UpdateCounted(R, n, u) = others \cup {next(w) : w \in current}
      BY <2>2 DEF UpdateCounted
    <3>2. \A w \in current :
              /\ next(w) \in RateWindow
              /\ next(w).node = n
              /\ next(w).count = w.count + 1
      BY SMT DEF RateWindow
    <3>3. ASSUME RateMap(R), UpdateAllowed(R, n, u)
          PROVE  RateMap(others \cup {next(w) : w \in current})
      <4>1. \A v, w \in current : v = w
        BY <3>3 DEF RateMap, OneEach
      <4>2. \A w \in current : w.count + 1 \in 1 .. MaxUpdatesPerMinute
        BY <3>3, CoordinatorAssumption, SMT DEF RateMap, RateWindow, UpdateAllowed
      <4>3. OneEach(others \cup {next(w) : w \in current})
        <5> DEFINE counted == {next(w) : w \in current}
        <5>1. \A x, y \in counted : x = y
          BY <4>1
        <5>2. \A x \in counted : x.node = n
          BY <3>2
        <5>3. OneEach(others) /\ \A x \in others : x.node # n
          BY <3>3 DEF RateMap, OneEach
        <5> HIDE DEF counted, others
        <5>4. OneEach(others \cup counted)
          BY <5>1, <5>2, <5>3 DEF OneEach
        <5> QED
          BY <5>4 DEF counted
      <4> QED
        BY <3>2, <3>3, <4>2, <4>3 DEF RateMap
    <3> QED
      BY <3>1, <3>2, <3>3
  <2> QED
    BY <2>1, <2>2
<1> DEFINE A == Admitted(S, r, t)
           nonces == NonceRecorded(S.nonces, r, t)
           rates == UpdateCounted(S.rates, r.node, t)
<1>1. r.node \in Node
  BY CoordinatorAssumption
<1>2. S.nonces \in SUBSET SeenNonce /\ S.rates \in SUBSET RateWindow
  BY DEF State
<1>3. nonces \in SUBSET SeenNonce /\ rates \in SUBSET RateWindow
  BY <1>1, <1>2, NonceLemma, <1>r
<1>4. /\ A \in State
      /\ A.model = S.model
      /\ A.pending = S.pending
      /\ A.registrations = S.registrations
      /\ A.nonces = nonces
      /\ A.rates = rates
  BY <1>3 DEF Admitted, State
<1>5. ASSUME Sound(S), ~NonceSeen(S.nonces, r, t), UpdateAllowed(S.rates, r.node, t)
      PROVE  Sound(A)
  <2>1. NonceMap(nonces)
    BY <1>2, <1>5, NonceLemma DEF Sound
  <2>2. RateMap(rates)
    BY <1>1, <1>2, <1>5, <1>r DEF Sound
  <2> QED
    BY <1>4, <1>5, <2>1, <2>2 DEF Sound
<1> QED
  BY <1>4, <1>5

\* An update that waits joins the pending set.
LEMMA WaitingLemma ==
    ASSUME NEW S \in State, NEW r \in Request, NEW t \in Nat
    PROVE  /\ Waiting(S, r, t) \in State
           /\ Waiting(S, r, t).model = S.model
           /\ Waiting(S, r, t).pending = Put(S.pending, r)
           /\ Waiting(S, r, t).registrations = S.registrations
           /\ (/\ Sound(S)
               /\ ~NonceSeen(S.nonces, r, t)
               /\ UpdateAllowed(S.rates, r.node, t))
                  => Sound(Waiting(S, r, t))
<1> DEFINE A == Admitted(S, r, t)
           W == Waiting(S, r, t)
<1>1. Put(S.pending, r) \in SUBSET Request
  BY DEF Put, Without, State
<1>2. /\ A \in State
      /\ A.pending = S.pending
  BY AdmittedLemma
<1>3. /\ W \in State
      /\ W.model = A.model
      /\ W.pending = Put(S.pending, r)
      /\ W.registrations = A.registrations
      /\ W.nonces = A.nonces
      /\ W.rates = A.rates
  BY <1>1, <1>2 DEF Waiting, State
<1>4. OneEach(S.pending) => OneEach(Put(S.pending, r))
  BY DEF OneEach, Put, Without
<1>5. ASSUME Sound(S), ~NonceSeen(S.nonces, r, t), UpdateAllowed(S.rates, r.node, t)
      PROVE  Sound(W)
  <2>1. Sound(A)
    BY <1>5, AdmittedLemma
  <2> QED
    BY <1>3, <1>4, <1>5, <2>1 DEF Sound
<1> QED
  BY <1>3, <1>5, AdmittedLemma

\* The round an update completes: a new model, and no update waiting.
LEMMA AggregatedLemma ==
    ASSUME NEW S \in State, NEW r \in Request, NEW t \in Nat
    PROVE  /\ Aggregated(S, r, t) \in State
           /\ Aggregated(S, r, t).model = NextModel(S.model, Put(S.pending, r), r.length)
           /\ Aggregated(S, r, t).pending = {}
           /\ Aggregated(S, r, t).registrations = S.registrations
           /\ (Sound(S) /\ ~NonceSeen(S.nonces, r, t) /\ UpdateAllowed(S.rates, r.node, t))
                  => Sound(Aggregated(S, r, t))
<1> DEFINE A == Admitted(S, r, t)
           G == Aggregated(S, r, t)
           m == NextModel(S.model, Put(S.pending, r), r.length)
<1>1. m \in Model
  <2>1. Put(S.pending, r) \in SUBSET Request
    BY DEF Put, Without, State
  <2>2. r.length \in Nat
    BY CoordinatorAssumption
  <2>3. S.model.round + 1 \in Nat /\ S.model.inputs \in SUBSET [round : Nat, update : Request]
    BY SMT DEF State, Model
  <2> QED
    BY <2>1, <2>2, <2>3, SMT DEF NextModel, Model
<1>2. A \in State /\ A.model = S.model
  BY AdmittedLemma
<1>3. /\ G \in State
      /\ G.model = m
      /\ G.pending = {}
      /\ G.registrations = A.registrations
      /\ G.nonces = A.nonces
      /\ G.rates = A.rates
  BY <1>1, <1>2 DEF Aggregated, State
<1>4. ASSUME Sound(S), ~NonceSeen(S.nonces, r, t), UpdateAllowed(S.rates, r.node, t)
      PROVE  Sound(G)
  <2>1. Sound(A)
    BY <1>4, AdmittedLemma
  <2> QED
    BY <1>3, <2>1 DEF Sound, OneEach
<1> QED
  BY <1>3, <1>4, AdmittedLemma

\* RegisterNode changes the registrations only.
LEMMA RegisteredLemma ==
    ASSUME NEW S \in State, NEW i \in Identity, NEW id \in Nat, NEW t \in Nat
    PROVE  /\ Registered(S, i, id, t) \in State
           /\ Registered(S, i, id, t).model = S.model
           /\ Registered(S, i, id, t).pending = S.pending
           /\ Registered(S, i, id, t).registrations = AfterRegister(S.registrations, i, id, t)
           /\ Sound(S) => Sound(Registered(S, i, id, t))
<1> DEFINE R == Registered(S, i, id, t)
           E == AfterRegister(S.registrations, i, id, t)
<1>1. S.registrations \in SUBSET Registration
  BY DEF State
<1>2. E \in SUBSET Registration
  BY <1>1, RegistryTypes
<1>3. /\ R \in State /\ R.model = S.model /\ R.pending = S.pending
      /\ R.registrations = E /\ R.nonces = S.nonces /\ R.rates = S.rates
  BY <1>2 DEF Registered, State
<1>4. Sound(S) => Sound(R)
  BY <1>1, <1>3, RegistryStaysRestorable DEF Sound
<1> QED
  BY <1>3, <1>4

\* Heartbeat changes the registrations only.
LEMMA RefreshedLemma ==
    ASSUME NEW S \in State, NEW i \in Identity, NEW id \in Nat, NEW t \in Nat
    PROVE  /\ Refreshed(S, i, t) \in State
           /\ Refreshed(S, i, t).model = S.model
           /\ Refreshed(S, i, t).pending = S.pending
           /\ Refreshed(S, i, t).registrations = AfterRefresh(S.registrations, i, t)
           /\ Sound(S) /\ Validate(S.registrations, i, id, t) => Sound(Refreshed(S, i, t))
<1> DEFINE R == Refreshed(S, i, t)
           E == AfterRefresh(S.registrations, i, t)
<1>1. S.registrations \in SUBSET Registration
  BY DEF State
<1>2. E \in SUBSET Registration
  BY <1>1, RegistryTypes
<1>3. /\ R \in State /\ R.model = S.model /\ R.pending = S.pending
      /\ R.registrations = E /\ R.nonces = S.nonces /\ R.rates = S.rates
  BY <1>2 DEF Refreshed, State
<1>4. Sound(S) /\ Validate(S.registrations, i, id, t) => Sound(R)
  BY <1>1, <1>3, RegistryStaysRestorable DEF Sound
<1> QED
  BY <1>3, <1>4

\* A call that got no further than its nonce.
LEMMA NonceSpentLemma ==
    ASSUME NEW S \in State, NEW r \in Request, NEW t \in Nat
    PROVE  /\ NonceSpent(S, r, t) \in State
           /\ NonceSpent(S, r, t).model = S.model
           /\ NonceSpent(S, r, t).pending = S.pending
           /\ NonceSpent(S, r, t).registrations = S.registrations
           /\ NonceSpent(S, r, t).rates = S.rates
           /\ Sound(S) /\ ~NonceSeen(S.nonces, r, t) => Sound(NonceSpent(S, r, t))
<1> DEFINE N == NonceSpent(S, r, t)
<1>1. S.nonces \in SUBSET SeenNonce
  BY DEF State
<1>2. NonceRecorded(S.nonces, r, t) \in SUBSET SeenNonce
  BY <1>1, NonceLemma
<1>3. /\ N \in State /\ N.model = S.model /\ N.pending = S.pending
      /\ N.registrations = S.registrations /\ N.rates = S.rates
      /\ N.nonces = NonceRecorded(S.nonces, r, t)
  BY <1>2 DEF NonceSpent, State
<1>4. Sound(S) /\ ~NonceSeen(S.nonces, r, t) => Sound(N)
  BY <1>1, <1>3, NonceLemma DEF Sound
<1> QED
  BY <1>3, <1>4

\* A call whose nonce was used before leaves the swept replay cache.
LEMMA NoncesSweptLemma ==
    ASSUME NEW S \in State, NEW t \in Nat
    PROVE  /\ NoncesSwept(S, t) \in State
           /\ NoncesSwept(S, t).model = S.model
           /\ NoncesSwept(S, t).pending = S.pending
           /\ NoncesSwept(S, t).registrations = S.registrations
           /\ Sound(S) => Sound(NoncesSwept(S, t))
<1> DEFINE N == NoncesSwept(S, t)
<1>1. S.nonces \in SUBSET SeenNonce
  BY DEF State
<1>2. RetainedNonces(S.nonces, t) \in SUBSET SeenNonce
  BY <1>1 DEF RetainedNonces
<1>3. /\ N \in State /\ N.model = S.model /\ N.pending = S.pending
      /\ N.registrations = S.registrations /\ N.rates = S.rates
      /\ N.nonces = RetainedNonces(S.nonces, t)
  BY <1>2 DEF NoncesSwept, State
<1>4. NonceMap(S.nonces) => NonceMap(RetainedNonces(S.nonces, t))
  BY DEF NonceMap, RetainedNonces
<1> QED
  BY <1>3, <1>4 DEF Sound

\* RotateRegistration changes the registrations and spends a nonce.
LEMMA RotatedLemma ==
    ASSUME NEW S \in State, NEW i \in Identity, NEW id \in Nat, NEW next \in Nat,
           NEW r \in Request, NEW t \in Nat
    PROVE  /\ Rotated(S, i, next, r, t) \in State
           /\ Rotated(S, i, next, r, t).model = S.model
           /\ Rotated(S, i, next, r, t).pending = S.pending
           /\ Rotated(S, i, next, r, t).registrations
                  = AfterRotate(S.registrations, i, next, t)
           /\ (/\ Sound(S)
               /\ ~NonceSeen(S.nonces, r, t)
               /\ Validate(S.registrations, i, id, t)) => Sound(Rotated(S, i, next, r, t))
<1> DEFINE N == NonceSpent(S, r, t)
           R == Rotated(S, i, next, r, t)
           E == AfterRotate(S.registrations, i, next, t)
<1>1. S.registrations \in SUBSET Registration
  BY DEF State
<1>2. E \in SUBSET Registration
  BY <1>1, RegistryTypes
<1>3. N \in State /\ N.registrations = S.registrations
  BY NonceSpentLemma
<1>4. /\ R \in State /\ R.model = N.model /\ R.pending = N.pending
      /\ R.registrations = E /\ R.nonces = N.nonces /\ R.rates = N.rates
  BY <1>2, <1>3 DEF Rotated, State
<1>5. ASSUME Sound(S), ~NonceSeen(S.nonces, r, t), Validate(S.registrations, i, id, t)
      PROVE  Sound(R)
  <2>1. Sound(N)
    BY <1>5, NonceSpentLemma
  <2>2. RestorableEntries(E)
    BY <1>1, <1>5, RegistryStaysRestorable DEF Sound
  <2> QED
    BY <1>4, <2>1, <2>2 DEF Sound
<1> QED
  BY <1>4, <1>5, NonceSpentLemma

\* RevokeRegistration stamps an entry, withdraws what its node contributed to
\* the round and spends a nonce; its failure spends the nonce and may delete.
LEMMA RevocationLemma ==
    ASSUME NEW S \in State, NEW n \in Node, NEW r \in Request, NEW t \in Nat
    PROVE  /\ RevocationDone(S, n, r, t) \in State
           /\ RevocationDone(S, n, r, t).model = S.model
           /\ RevocationDone(S, n, r, t).pending = Without(S.pending, n)
           /\ RevocationDone(S, n, r, t).registrations = AfterRevoke(S.registrations, n, t)
           /\ RevocationRefused(S, n, r, t) \in State
           /\ RevocationRefused(S, n, r, t).model = S.model
           /\ RevocationRefused(S, n, r, t).pending = S.pending
           /\ RevocationRefused(S, n, r, t).registrations = AfterRevoke(S.registrations, n, t)
           /\ Sound(S) /\ ~NonceSeen(S.nonces, r, t) =>
                  /\ Sound(RevocationDone(S, n, r, t))
                  /\ Sound(RevocationRefused(S, n, r, t))
<1> DEFINE W == Withdrawn(S, n)
           M == NonceSpent(W, r, t)
           N == NonceSpent(S, r, t)
           D == RevocationDone(S, n, r, t)
           F == RevocationRefused(S, n, r, t)
           E == AfterRevoke(S.registrations, n, t)
<1>w. /\ W \in State /\ W.model = S.model /\ W.pending = Without(S.pending, n)
      /\ W.registrations = S.registrations /\ W.nonces = S.nonces
      /\ Sound(S) => Sound(W)
  <2>1. /\ Without(S.pending, n) \in SUBSET S.pending
        /\ Without(S.pending, n) \in SUBSET Request
        /\ Without(S.rates, n) \in SUBSET S.rates
        /\ Without(S.rates, n) \in SUBSET RateWindow
    BY DEF Without, State
  <2>2. /\ W \in State
        /\ W.model = S.model
        /\ W.pending = Without(S.pending, n)
        /\ W.registrations = S.registrations
        /\ W.nonces = S.nonces
        /\ W.rates = Without(S.rates, n)
    BY <2>1 DEF Withdrawn, State
  <2>3. ASSUME Sound(S) PROVE Sound(W)
    <3>2. OneEach(W.pending)
      BY <2>1, <2>2, <2>3 DEF Sound, OneEach
    <3>3. RateMap(W.rates)
      BY <2>1, <2>2, <2>3, SMT DEF Sound, RateMap, OneEach
    <3> QED
      BY <2>2, <2>3, <3>2, <3>3 DEF Sound
  <2> QED
    BY <2>2, <2>3
<1>1. S.registrations \in SUBSET Registration
  BY DEF State
<1>2. E \in SUBSET Registration
  <2>1. \A e \in Registration : [e EXCEPT !.revokedAt = t] \in Registration
    BY DEF Registration
  <2> QED
    BY <1>1, <2>1 DEF AfterRevoke
<1>4. M \in State /\ M.model = S.model /\ M.pending = W.pending /\ M.registrations = S.registrations
  BY <1>w, NonceSpentLemma
<1>5. N \in State /\ N.model = S.model /\ N.pending = S.pending /\ N.registrations = S.registrations
  BY NonceSpentLemma
<1>6. /\ D \in State /\ D.model = M.model /\ D.pending = M.pending
      /\ D.registrations = E /\ D.nonces = M.nonces /\ D.rates = M.rates
  BY <1>2, <1>4 DEF RevocationDone, State
<1>7. /\ F \in State /\ F.model = N.model /\ F.pending = N.pending
      /\ F.registrations = E /\ F.nonces = N.nonces /\ F.rates = N.rates
  BY <1>2, <1>5 DEF RevocationRefused, State
<1>8. ASSUME Sound(S), ~NonceSeen(S.nonces, r, t)
      PROVE  Sound(D) /\ Sound(F)
  <2>1. Sound(M)
    BY <1>w, <1>8, NonceSpentLemma
  <2>2. Sound(N)
    BY <1>8, NonceSpentLemma
  <2>3. RestorableEntries(E)
    BY <1>1, <1>8, SMT DEF AfterRevoke, Live, Registration, RestorableEntries, OneEach, Sound
  <2> QED
    BY <1>6, <1>7, <2>1, <2>2, <2>3 DEF Sound
<1> QED
  BY <1>w, <1>4, <1>5, <1>6, <1>7, <1>8

\* A round that cannot be aggregated leaves the pending set as it was.
LEMMA AggregationUndoneLemma ==
    ASSUME NEW S \in State, NEW r \in Request, NEW t \in Nat,
           \A u \in S.pending : u.node # r.node
    PROVE  /\ AggregationUndone(S, r, t) \in State
           /\ AggregationUndone(S, r, t).model = S.model
           /\ AggregationUndone(S, r, t).pending = S.pending
           /\ AggregationUndone(S, r, t).registrations = S.registrations
           /\ (Sound(S) /\ ~NonceSeen(S.nonces, r, t) /\ UpdateAllowed(S.rates, r.node, t))
                  => Sound(AggregationUndone(S, r, t))
<1>1. Without(Put(S.pending, r), r.node) = S.pending
  BY DEF Without, Put
<1>2. Admitted(S, r, t) \in State /\ Admitted(S, r, t).pending = S.pending
  BY AdmittedLemma
<1>3. AggregationUndone(S, r, t) = Admitted(S, r, t)
  BY <1>1, <1>2 DEF AggregationUndone, State
<1> QED
  BY <1>3, AdmittedLemma, SMT

-----------------------------------------------------------------------------
(***************************************************************************)
(* Types.                                                                  *)
(***************************************************************************)
\* Every step keeps every variable in its type.
LEMMA TypeStep == TypeOK /\ [Next]_vars => TypeOK'
<1> SUFFICES ASSUME TypeOK, [Next]_vars PROVE TypeOK'
  OBVIOUS
<1>n. NoPromise \in Promise /\ NoCall \in [before : State, after : State, promise : Promise]
  BY InitialStateLemma DEF NoCall, NoPromise, Promise
<1> USE <1>n, InitialStateLemma
<1>b. ASSUME TypeOK, NEW S \in State, NEW p \in Promise, Begin(S, p),
             lastId' \in Nat, withdrawn' \in SUBSET Request
      PROVE  TypeOK'
  <2>1. captureSnapshot(mem, now) \in State /\ captureSnapshot(S, now) \in State
    BY UnexpiredLemma DEF TypeOK, captureSnapshot
  <2>2. call' \in [before : State, after : State, promise : Promise]
    BY <1>b, <2>1 DEF Begin
  <2> QED
    BY <1>b, <2>2 DEF Begin, TypeOK, Phase
<1>f. ASSUME TypeOK, NEW S \in State, Refuse(S)
      PROVE  TypeOK'
  BY <1>f, SMT DEF Refuse, TypeOK, history
<1>p. ASSUME NEW E \in SUBSET Registration, NEW n \in Node
      PROVE  [NoPromise EXCEPT
                 !.retired = {e.id : e \in E},
                 !.blocked = {[node |-> n, until |-> e.expiresAt] : e \in E}] \in Promise
  <2>1. {e.id : e \in E} \in SUBSET Nat
    BY DEF Registration
  <2>2. {[node |-> n, until |-> e.expiresAt] : e \in E} \in SUBSET [node : Node, until : Nat]
    BY SMT DEF Registration
  <2> QED
    BY <2>1, <2>2 DEF NoPromise, Promise
<1>1. /\ mem \in State /\ now \in Nat /\ lastId \in Nat /\ lastId + 1 \in Nat
      /\ disk \in SUBSET State /\ withdrawn \in SUBSET Request
      /\ call.before \in State /\ call.after \in State
      /\ mem.registrations \in SUBSET Registration
  BY SMT DEF TypeOK, State
<1>2. captureSnapshot(mem, now) \in State
  BY <1>1, UnexpiredLemma DEF captureSnapshot
<1>3. CASE Crash
  BY <1>3 DEF Crash, TypeOK, Phase
<1>4. CASE Start
  <2>1. mem' \in State
    <3>1. CASE disk = {} /\ mem' = InitialState
      BY <3>1
    <3>2. ASSUME NEW d \in disk, mem' = restoreSnapshot(d, now)
          PROVE  mem' \in State
      BY <1>1, <3>2, UnexpiredLemma DEF restoreSnapshot
    <3> QED
      BY <1>4, <3>1, <3>2 DEF Start
  <2> QED
    BY <1>4, <2>1 DEF Start, TypeOK, Phase, history
<1>5. CASE StartCommitted
  BY <1>2, <1>5 DEF StartCommitted, TypeOK, Phase, history
<1>6. CASE StartFailed
  BY <1>2, <1>6 DEF StartFailed, TypeOK, Phase, history
<1>7. CASE Tick
  BY <1>7, SMT DEF Tick, TypeOK, history
<1>8. CASE Committed
  <2>1. acked' \in Promise
    BY <1>8 DEF Committed, TypeOK, Promise
  <2> QED
    BY <1>1, <1>8, <2>1 DEF Committed, TypeOK, Phase
<1>9. CASE CommitFailed
  BY <1>1, <1>9 DEF CommitFailed, TypeOK, Phase, history
<1>10. CASE RestoreMemory
  <2>1. mem' \in State
    BY <1>1, <1>10, UnexpiredLemma DEF RestoreMemory, restoreSnapshot
  <2>2. phase' \in Phase /\ call' \in [before : State, after : State, promise : Promise]
    BY <1>10 DEF RestoreMemory, Phase, TypeOK
  <2> QED
    BY <1>10, <2>1, <2>2 DEF RestoreMemory, TypeOK, history
<1>11. CASE RolledBack
  BY <1>1, <1>11 DEF RolledBack, TypeOK, Phase
<1>12. CASE RollbackFailed
  BY <1>1, <1>12 DEF RollbackFailed, TypeOK, Phase
<1>13. ASSUME NEW i \in Peer, RegisterNode(i) PROVE TypeOK'
  <2>1. [NoPromise EXCEPT !.retired = Credentials(mem.registrations, i.node)] \in Promise
    BY <1>1, SMT DEF Promise, NoPromise, Credentials, Registration
  <2>2. Registered(mem, i, lastId + 1, now) \in State
    BY <1>1, RegisteredLemma, ServiceAssumption
  <2> QED
    BY <1>1, <1>13, <2>1, <2>2, <1>b DEF RegisterNode
<1>14. ASSUME NEW i \in Peer, NEW id \in Ids, Heartbeat(i, id) PROVE TypeOK'
  <2>1. Refreshed(mem, i, now) \in State
    BY <1>1, RefreshedLemma, ServiceAssumption
  <2> QED
    BY <1>1, <1>14, <2>1, <1>b DEF Heartbeat
<1>15. ASSUME NEW i \in Peer, NEW id \in Ids, GetGlobalModel(i, id) PROVE TypeOK'
  <2>1. served' \in SUBSET Model
    BY <1>1, <1>15 DEF GetGlobalModel, TypeOK, State
  <2> QED
    BY <1>15, <2>1 DEF GetGlobalModel, TypeOK
<1>16. ASSUME NEW i \in Peer, NEW id \in Ids, NEW r \in Request, RotateRegistration(i, id, r)
       PROVE  TypeOK'
  <2>1. Rotated(mem, i, lastId + 1, r, now) \in State
    BY <1>1, RotatedLemma, ServiceAssumption
  <2>2. [NoPromise EXCEPT !.retired = {id}] \in Promise
    BY <1>1, SMT DEF Promise, NoPromise, Ids
  <2> QED
    BY <1>1, <1>16, <2>1, <2>2, <1>b DEF RotateRegistration
<1>17. ASSUME NEW i \in Peer, NEW id \in Ids, NEW r \in Request,
              \/ RotateExhausted(i, id, r)
              \/ ReplayRejected(i, id, r)
              \/ RevokeUnreasoned(i, id, r)
              \/ SubmitRateLimited(i, id, r)
       PROVE  TypeOK'
  BY <1>1, <1>17, NonceSpentLemma, NoncesSweptLemma, <1>f
     DEF RotateExhausted, ReplayRejected, RevokeUnreasoned, SubmitRateLimited
<1>18. ASSUME NEW i \in Peer, NEW id \in Ids, NEW r \in Request, NEW n \in Node,
              RevokeRegistration(i, id, r, n)
       PROVE  TypeOK'
  <2> DEFINE E == {e \in AfterRevoke(mem.registrations, n, now) : e.node = n}
             p == [NoPromise EXCEPT
                      !.retired = {e.id : e \in E},
                      !.blocked = {[node |-> n, until |-> e.expiresAt] : e \in E}]
  <2>1. AfterRevoke(mem.registrations, n, now) \in SUBSET Registration
    <3>1. \A e \in Registration : [e EXCEPT !.revokedAt = now] \in Registration
      BY <1>1 DEF Registration
    <3> QED
      BY <1>1, <3>1 DEF AfterRevoke
  <2>2. p \in Promise
    BY <2>1, <1>p
  <2>3. RevocationDone(mem, n, r, now) \in State
    BY <1>1, RevocationLemma
  <2>4. Begin(RevocationDone(mem, n, r, now), p)
    BY <1>18 DEF RevokeRegistration
  <2>5. lastId' \in Nat /\ withdrawn' \in SUBSET Request
    BY <1>1, <1>18 DEF RevokeRegistration, State
  <2> QED
    BY <2>2, <2>3, <2>4, <2>5, <1>b
<1>19. ASSUME NEW i \in Peer, NEW id \in Ids, NEW r \in Request, NEW n \in Node,
              RevokeInactive(i, id, r, n)
       PROVE  TypeOK'
  BY <1>1, <1>19, RevocationLemma, <1>f DEF RevokeInactive
<1>20. ASSUME NEW i \in Peer, NEW id \in Ids, NEW r \in Request, NEW base \in served,
              SubmitUnusable(i, id, r, base)
       PROVE  TypeOK'
  BY <1>1, <1>20, AdmittedLemma, <1>f DEF SubmitUnusable
<1>21. ASSUME NEW i \in Peer, NEW id \in Ids, NEW r \in Request, NEW base \in served,
              \/ SubmitWaiting(i, id, r, base)
              \/ SubmitAggregated(i, id, r, base)
       PROVE  TypeOK'
  <2>1. [NoPromise EXCEPT !.updates = {r}] \in Promise
    BY DEF NoPromise, Promise
  <2>2. Waiting(mem, r, now) \in State /\ Aggregated(mem, r, now) \in State
    BY <1>1, WaitingLemma, AggregatedLemma
  <2> QED
    BY <1>1, <1>21, <2>1, <2>2, <1>b DEF SubmitWaiting, SubmitAggregated
<1>22. ASSUME NEW i \in Peer, NEW id \in Ids, NEW r \in Request, NEW base \in served,
              AggregationFailed(i, id, r, base)
       PROVE  TypeOK'
  <2>1. AggregationUndone(mem, r, now) \in State
    BY <1>1, <1>22, AggregationUndoneLemma DEF AggregationFailed, Usable
  <2> QED
    BY <1>22, <2>1, <1>f DEF AggregationFailed
<1>23. CASE UNCHANGED vars
  BY <1>23 DEF vars, TypeOK
<1> QED
  BY <1>3, <1>4, <1>5, <1>6, <1>7, <1>8, <1>9, <1>10, <1>11, <1>12, <1>13, <1>14,
     <1>15, <1>16, <1>17, <1>18, <1>19, <1>20, <1>21, <1>22, <1>23, SMT DEF Next

\* Type correctness: every reachable state of the durable coordinator is well
\* typed, whatever commits fail and whenever the process dies.
THEOREM TypeCorrect == Spec => []TypeOK
<1>1. Init => TypeOK
  <2> SUFFICES ASSUME Init PROVE TypeOK
    OBVIOUS
  <2>1. phase \in Phase /\ now \in Nat /\ lastId \in Nat /\ diverged \in BOOLEAN
    BY DEF Init, Phase
  <2>2. mem \in State /\ call \in [before : State, after : State, promise : Promise]
        /\ acked \in Promise
    BY InitialStateLemma DEF Init, NoCall, NoPromise, Promise
  <2>3. disk \in SUBSET State /\ served \in SUBSET Model /\ withdrawn \in SUBSET Request
    BY DEF Init
  <2> QED
    BY <2>1, <2>2, <2>3 DEF TypeOK
<1> QED
  BY <1>1, TypeStep, PTL DEF Spec

-----------------------------------------------------------------------------
(***************************************************************************)
(* The handlers.  They fall into five groups that the invariants do not    *)
(* tell apart further; one lemma per group says what its members have in   *)
(* common, and the invariants are proved from those.                       *)
(***************************************************************************)
\* Handlers that return an error and commit nothing.
Refusing ==
    \E i \in Peer : \E id \in Ids : \E r \in Request :
        \/ RotateExhausted(i, id, r)
        \/ ReplayRejected(i, id, r)
        \/ RevokeUnreasoned(i, id, r)
        \/ SubmitRateLimited(i, id, r)
        \/ \E n \in Node : RevokeInactive(i, id, r, n)
        \/ \E base \in served :
               SubmitUnusable(i, id, r, base) \/ AggregationFailed(i, id, r, base)

\* Handlers that issue or renew a credential.
Crediting ==
    \E i \in Peer :
        \/ RegisterNode(i)
        \/ \E id \in Ids :
            \/ Heartbeat(i, id)
            \/ \E r \in Request : RotateRegistration(i, id, r)

Revoking ==
    \E i \in Peer : \E id \in Ids : \E r \in Request : \E n \in Node :
        RevokeRegistration(i, id, r, n)

Submitting ==
    \E i \in Peer : \E id \in Ids : \E r \in Request : \E base \in served :
        SubmitWaiting(i, id, r, base) \/ SubmitAggregated(i, id, r, base)

Serving == \E i \in Peer : \E id \in Ids : GetGlobalModel(i, id)

\* The groups make up the next-state relation.
LEMMA NextCases ==
    ASSUME Next
    PROVE  \/ Crash \/ Start \/ StartCommitted \/ StartFailed \/ Tick
           \/ Committed \/ CommitFailed \/ RestoreMemory \/ RolledBack \/ RollbackFailed
           \/ Refusing \/ Crediting \/ Revoking \/ Submitting \/ Serving
BY SMT DEF Next, Refusing, Crediting, Revoking, Submitting, Serving


\* A refused call changes nonces, rate windows and expired entries only.
LEMMA RefusingFacts ==
    ASSUME TypeOK, Refusing
    PROVE  /\ phase = "idle"
           /\ UNCHANGED <<phase, disk, call, now, lastId, acked, served, withdrawn, diverged>>
           /\ mem' \in State
           /\ mem'.model = mem.model
           /\ mem'.pending = mem.pending
           /\ mem'.registrations \subseteq mem.registrations
           /\ LiveEntries(mem'.registrations, now) = LiveEntries(mem.registrations, now)
           /\ Sound(mem) => Sound(mem')
<1>1. mem \in State /\ now \in Nat /\ mem.registrations \in SUBSET Registration
  BY DEF TypeOK, State
<1>2. PICK i \in Peer, id \in Ids, r \in Request :
        \/ RotateExhausted(i, id, r)
        \/ ReplayRejected(i, id, r)
        \/ RevokeUnreasoned(i, id, r)
        \/ SubmitRateLimited(i, id, r)
        \/ \E n \in Node : RevokeInactive(i, id, r, n)
        \/ \E base \in served :
               SubmitUnusable(i, id, r, base) \/ AggregationFailed(i, id, r, base)
  BY DEF Refusing
<1> DEFINE Goal(S) ==
              /\ phase = "idle" /\ Refuse(S) /\ S \in State
              /\ S.model = mem.model /\ S.pending = mem.pending
              /\ S.registrations \subseteq mem.registrations
              /\ LiveEntries(S.registrations, now) = LiveEntries(mem.registrations, now)
              /\ Sound(mem) => Sound(S)
<1>3. CASE \/ RotateExhausted(i, id, r)
           \/ RevokeUnreasoned(i, id, r)
           \/ SubmitRateLimited(i, id, r)
  <2>1. Goal(NonceSpent(mem, r, now))
    BY <1>1, <1>3, NonceSpentLemma
       DEF RotateExhausted, RevokeUnreasoned, SubmitRateLimited, Submitted, NonceUsed
  <2> QED
    BY <2>1 DEF Refuse, history
<1>4. CASE ReplayRejected(i, id, r)
  <2>1. Goal(NoncesSwept(mem, now))
    BY <1>1, <1>4, NoncesSweptLemma DEF ReplayRejected
  <2> QED
    BY <2>1 DEF Refuse, history
<1>5. ASSUME NEW n \in Node, RevokeInactive(i, id, r, n)
      PROVE  Goal(RevocationRefused(mem, n, r, now))
  <2>1. \A e \in mem.registrations : e.node = n => ~Live(e, now)
    BY <1>5 DEF RevokeInactive, CanRevoke
  <2>2. AfterRevoke(mem.registrations, n, now) = {e \in mem.registrations : e.node # n}
    BY <2>1 DEF AfterRevoke
  <2>3. LiveEntries({e \in mem.registrations : e.node # n}, now)
          = LiveEntries(mem.registrations, now)
    BY <2>1 DEF LiveEntries
  <2>4. phase = "idle" /\ ~NonceSeen(mem.nonces, r, now) /\ Refuse(RevocationRefused(mem, n, r, now))
    BY <1>5 DEF RevokeInactive, NonceUsed
  <2> DEFINE S == RevocationRefused(mem, n, r, now)
  <2>5. /\ S \in State /\ S.model = mem.model /\ S.pending = mem.pending
        /\ S.registrations = AfterRevoke(mem.registrations, n, now)
    BY <1>1, RevocationLemma
  <2>6. Sound(mem) => Sound(S)
    BY <1>1, <2>4, RevocationLemma
  <2> QED
    BY <2>2, <2>3, <2>4, <2>5, <2>6
<1>6. ASSUME NEW base \in served, SubmitUnusable(i, id, r, base)
      PROVE  Goal(Admitted(mem, r, now))
  BY <1>1, <1>6, AdmittedLemma DEF SubmitUnusable, Submitted, NonceUsed
<1>7. ASSUME NEW base \in served, AggregationFailed(i, id, r, base)
      PROVE  Goal(AggregationUndone(mem, r, now))
  <2>1. \A u \in mem.pending : u.node # r.node
    BY <1>7 DEF AggregationFailed, Usable
  <2> QED
    BY <1>1, <1>7, <2>1, AggregationUndoneLemma DEF AggregationFailed, Submitted, NonceUsed
<1>8. \A S : Goal(S) => Goal(mem') /\ UNCHANGED <<phase, disk, call, now, lastId, acked, served, withdrawn, diverged>>
  BY DEF Refuse, history
<1> QED
  BY <1>2, <1>3, <1>4, <1>5, <1>6, <1>7, <1>8

\* The part that all handlers which go on to commit have in common.
Started ==
    /\ phase = "idle"
    /\ phase' = "committing"
    /\ UNCHANGED <<disk, now, acked, served, diverged>>
    /\ mem' \in State
    /\ call'.before = captureSnapshot(mem, now)
    /\ call'.after = captureSnapshot(mem', now)
    /\ Sound(mem) => Sound(mem')

\* Begin, seen from the outside.
LEMMA BeginFacts ==
    ASSUME NEW S \in State, NEW p, Begin(S, p), phase = "idle", Sound(mem) => Sound(S)
    PROVE  Started /\ mem' = S /\ call'.promise = p
BY DEF Begin, Started

\* Issuing or renewing a credential leaves model and pending set alone.
LEMMA CreditingFacts ==
    ASSUME TypeOK, Crediting
    PROVE  /\ Started
           /\ mem'.model = mem.model
           /\ mem'.pending = mem.pending
           /\ call'.promise.updates = {}
           /\ withdrawn' = withdrawn
<1>1. mem \in State /\ now \in Nat /\ lastId \in Nat /\ lastId + 1 \in Nat
  BY SMT DEF TypeOK
<1>2. PICK i \in Peer :
        \/ RegisterNode(i)
        \/ \E id \in Ids :
            \/ Heartbeat(i, id)
            \/ \E r \in Request : RotateRegistration(i, id, r)
  BY DEF Crediting
<1>3. i \in Identity
  BY ServiceAssumption
<1>4. CASE RegisterNode(i)
  <2> DEFINE S == Registered(mem, i, lastId + 1, now)
             p == [NoPromise EXCEPT !.retired = Credentials(mem.registrations, i.node)]
  <2>1. /\ S \in State /\ S.model = mem.model /\ S.pending = mem.pending
        /\ Sound(mem) => Sound(S)
    BY <1>1, <1>3, RegisteredLemma, SMT
  <2>2. Begin(S, p) /\ phase = "idle" /\ withdrawn' = withdrawn
    BY <1>4 DEF RegisterNode
  <2>3. p.updates = {}
    BY DEF NoPromise
  <2> QED
    BY <2>1, <2>2, <2>3, BeginFacts
<1>5. ASSUME NEW id \in Ids, Heartbeat(i, id)
      PROVE  /\ Started
             /\ mem'.model = mem.model
             /\ mem'.pending = mem.pending
             /\ call'.promise.updates = {}
             /\ withdrawn' = withdrawn
  <2> DEFINE S == Refreshed(mem, i, now)
  <2>1. /\ S \in State /\ S.model = mem.model /\ S.pending = mem.pending
        /\ Sound(mem) => Sound(S)
    BY <1>1, <1>3, <1>5, RefreshedLemma, SMT DEF Heartbeat, Authorized, Ids
  <2>2. Begin(S, NoPromise) /\ phase = "idle" /\ withdrawn' = withdrawn
    BY <1>5 DEF Heartbeat
  <2>3. NoPromise.updates = {}
    BY DEF NoPromise
  <2> QED
    BY <2>1, <2>2, <2>3, BeginFacts
<1>6. ASSUME NEW id \in Ids, NEW r \in Request, RotateRegistration(i, id, r)
      PROVE  /\ Started
             /\ mem'.model = mem.model
             /\ mem'.pending = mem.pending
             /\ call'.promise.updates = {}
             /\ withdrawn' = withdrawn
  <2> DEFINE S == Rotated(mem, i, lastId + 1, r, now)
             p == [NoPromise EXCEPT !.retired = {id}]
  <2>1. id \in Nat /\ Validate(mem.registrations, i, id, now) /\ ~NonceSeen(mem.nonces, r, now)
    BY <1>1, <1>6, SMT DEF RotateRegistration, CanRotate, NonceUsed, Ids
  <2>2. /\ S \in State /\ S.model = mem.model /\ S.pending = mem.pending
        /\ Sound(mem) => Sound(S)
    BY <1>1, <1>3, <2>1, RotatedLemma, SMT
  <2>3. Begin(S, p) /\ phase = "idle" /\ withdrawn' = withdrawn
    BY <1>6 DEF RotateRegistration
  <2>4. p.updates = {}
    BY DEF NoPromise
  <2> QED
    BY <2>2, <2>3, <2>4, BeginFacts
<1> QED
  BY <1>2, <1>4, <1>5, <1>6

\* A revocation takes the target's waiting update, and records that it did.
LEMMA RevokingFacts ==
    ASSUME TypeOK, Revoking
    PROVE  /\ Started
           /\ mem'.model = mem.model
           /\ \E n \in Node : /\ mem'.pending = Without(mem.pending, n)
                              /\ withdrawn' = withdrawn \cup {u \in mem.pending : u.node = n}
           /\ call'.promise.updates = {}
<1>1. mem \in State /\ now \in Nat
  BY DEF TypeOK
<1>2. PICK i \in Peer, id \in Ids, r \in Request, n \in Node : RevokeRegistration(i, id, r, n)
  BY DEF Revoking
<1> DEFINE S == RevocationDone(mem, n, r, now)
           E == {e \in AfterRevoke(mem.registrations, n, now) : e.node = n}
           p == [NoPromise EXCEPT
                    !.retired = {e.id : e \in E},
                    !.blocked = {[node |-> n, until |-> e.expiresAt] : e \in E}]
<1>3. /\ S \in State /\ S.model = mem.model /\ S.pending = Without(mem.pending, n)
      /\ Sound(mem) => Sound(S)
  BY <1>1, <1>2, RevocationLemma DEF RevokeRegistration, NonceUsed
<1>4. /\ Begin(S, p) /\ phase = "idle"
      /\ withdrawn' = withdrawn \cup {u \in mem.pending : u.node = n}
  BY <1>2 DEF RevokeRegistration
<1>5. p.updates = {}
  BY DEF NoPromise
<1> QED
  BY <1>3, <1>4, <1>5, BeginFacts

\* What SubmitLocalUpdate has found out about an update before it takes it.
Acceptable(r) ==
    /\ \A u \in mem.pending : u.node # r.node
    /\ mem.model.length \in {0, r.length}
    /\ r.round = mem.model.round
    /\ ~NonceSeen(mem.nonces, r, now)
    /\ \E e \in mem.registrations : e.node = r.node /\ ~Revoked(e)

\* An accepted update waits, or closes the round.
LEMMA SubmittingFacts ==
    ASSUME TypeOK, Submitting
    PROVE  /\ Started
           /\ withdrawn' = withdrawn
           /\ lastId' = lastId
           /\ mem'.registrations = mem.registrations
           /\ call'.promise.retired = {}
           /\ call'.promise.blocked = {}
           /\ \E r \in Request :
                /\ call'.promise.updates = {r}
                /\ Acceptable(r)
                /\ \/ /\ mem'.model = mem.model
                      /\ mem'.pending = Put(mem.pending, r)
                      /\ ~Completes(r)
                   \/ /\ mem'.model = NextModel(mem.model, Put(mem.pending, r), r.length)
                      /\ mem'.pending = {}
                      /\ Completes(r)
                      /\ SameLength(Put(mem.pending, r), r.length)
<1>1. mem \in State /\ now \in Nat
  BY DEF TypeOK
<1>2. PICK i \in Peer, id \in Ids, r \in Request, base \in served :
        SubmitWaiting(i, id, r, base) \/ SubmitAggregated(i, id, r, base)
  BY DEF Submitting
<1> DEFINE p == [NoPromise EXCEPT !.updates = {r}]
<1>3. p.updates = {r} /\ p.retired = {} /\ p.blocked = {}
  BY DEF NoPromise
<1>4. /\ UpdateAllowed(mem.rates, r.node, now)
      /\ phase = "idle"
      /\ lastId' = lastId
      /\ withdrawn' = withdrawn
      /\ Submitted(i, id, r)
      /\ ~NonceUsed(r)
      /\ Usable(mem, r, base)
  BY <1>2 DEF SubmitWaiting, SubmitAggregated, Submitted
<1>5. Acceptable(r)
  BY <1>4 DEF Acceptable, Submitted, Signed, Authorized, Validate, NonceUsed, Usable
<1>6. CASE SubmitWaiting(i, id, r, base)
  <2> DEFINE S == Waiting(mem, r, now)
  <2>1. ~Completes(r)
    BY <1>6 DEF SubmitWaiting
  <2>2. /\ S \in State /\ S.model = mem.model /\ S.pending = Put(mem.pending, r)
        /\ S.registrations = mem.registrations
        /\ Sound(mem) => Sound(S)
    BY <1>1, <1>4, <1>5, WaitingLemma DEF Acceptable
  <2>3. Begin(S, p)
    BY <1>6 DEF SubmitWaiting
  <2>4. Started /\ mem' = S /\ call'.promise = p
    BY <1>4, <2>2, <2>3, BeginFacts
  <2> QED
    BY <1>3, <1>4, <1>5, <2>1, <2>2, <2>3, <2>4
<1>7. CASE SubmitAggregated(i, id, r, base)
  <2> DEFINE S == Aggregated(mem, r, now)
  <2>1. /\ S \in State /\ S.pending = {}
        /\ S.model = NextModel(mem.model, Put(mem.pending, r), r.length)
        /\ S.registrations = mem.registrations
        /\ Sound(mem) => Sound(S)
    BY <1>1, <1>4, <1>5, AggregatedLemma DEF Acceptable
  <2>2. Begin(S, p) /\ SameLength(Put(mem.pending, r), r.length)
        /\ Completes(r)
    BY <1>7 DEF SubmitAggregated
  <2>3. Started /\ mem' = S /\ call'.promise = p
    BY <1>4, <2>1, <2>2, BeginFacts
  <2> QED
    BY <1>3, <1>4, <1>5, <2>1, <2>2, <2>3
<1> QED
  BY <1>2, <1>6, <1>7

\* No update waits whose node is revoked.
NoneWaits(S) == \A u \in S.pending : u.node \notin RevokedNodes(S.registrations)

\* What a handler that goes on to commit does with credentials.  It undoes no
\* revocation, draws new IDs, and has done in memory what it will promise.
Lawful ==
    /\ Continues(mem.registrations, mem'.registrations, lastId, now)
    /\ lastId <= lastId'
    /\ Drawn(mem'.registrations, lastId')
    /\ \A id \in call'.promise.retired : id <= lastId'
    /\ \A f \in mem'.registrations : f.id \in call'.promise.retired => Revoked(f)
    /\ \A b \in call'.promise.blocked :
        \E f \in mem'.registrations :
            f.node = b.node /\ Revoked(f) /\ b.until <= f.expiresAt
    /\ NoneWaits(mem) => NoneWaits(mem')

\* Issuing and renewing credentials is lawful.
LEMMA CreditingLawful ==
    ASSUME TypeOK, Sound(mem), Drawn(mem.registrations, lastId), Crediting
    PROVE  Lawful
<1>g. ASSUME NEW E \in SUBSET Registration, NEW i \in Identity, NEW k \in Nat, NEW t \in Nat
      PROVE  LET F == AfterRegister(E, i, k + 1, t)
             IN  /\ CanRegister(E, i, t) => Continues(E, F, k, t)
                 /\ Drawn(E, k) => Drawn(F, k + 1)
                 /\ Drawn(E, k) => \A f \in F : f.id \notin Credentials(E, i.node)
                 /\ RevokedNodes(F) \subseteq RevokedNodes(E)
  <2> DEFINE F == AfterRegister(E, i, k + 1, t)
             new == Issued(i, k + 1, NextGeneration(E, i.node), t)
  <2>1. F = {e \in E : e.node # i.node} \cup {new}
    BY DEF AfterRegister, Put, Without, Issued
  <2>2. new.node = i.node /\ new.id = k + 1 /\ ~Revoked(new)
    BY DEF Issued, Revoked
  <2>3. \A e \in E : e.id \in Nat
    BY DEF Registration
  <2>4. CanRegister(E, i, t) => Continues(E, F, k, t)
    BY <2>1, <2>2, SMT DEF CanRegister, Continues
  <2>5. Drawn(E, k) => Drawn(F, k + 1)
    BY <2>1, <2>2, <2>3, SMT DEF Drawn
  <2>6. Drawn(E, k) => \A f \in F : f.id \notin Credentials(E, i.node)
    BY <2>1, <2>2, <2>3, SMT DEF Drawn, Credentials
  <2>7. RevokedNodes(F) \subseteq RevokedNodes(E)
    BY <2>1, <2>2 DEF RevokedNodes
  <2> QED
    BY <2>4, <2>5, <2>6, <2>7
<1>n. ASSUME NEW E \in SUBSET Registration, OneEach(E), NEW i \in Identity,
             NEW k \in Nat, NEW t \in Nat, NEW id, Validate(E, i, id, t)
      PROVE  LET F == AfterRefresh(E, i, t)
                 G == AfterRotate(E, i, k + 1, t)
             IN  /\ Continues(E, F, k, t) /\ Continues(E, G, k, t)
                 /\ Drawn(E, k) => Drawn(F, k) /\ Drawn(G, k + 1)
                 /\ Drawn(E, k) => \A g \in G : g.id # id
                 /\ RevokedNodes(F) \subseteq RevokedNodes(E)
                 /\ RevokedNodes(G) \subseteq RevokedNodes(E)
  <2> DEFINE F == AfterRefresh(E, i, t)
             G == AfterRotate(E, i, k + 1, t)
             fresh(e) == [e EXCEPT !.expiresAt = t + LeaseTTL]
             next(e) == Issued(e, k + 1, e.generation + 1, t)
  <2>1. PICK old \in E : old.node = i.node /\ old.id = id /\ ~Revoked(old)
    BY <1>n, SMT DEF Validate
  <2>2. \A e \in E : e.node = i.node => e = old
    BY <1>n, <2>1, SMT DEF OneEach
  <2>3. F = {e \in E : e.node # i.node} \cup {fresh(old)}
    BY <2>1, <2>2 DEF AfterRefresh
  <2>4. G = {e \in E : e.node # i.node} \cup {next(old)}
    BY <2>1, <2>2 DEF AfterRotate
  <2>5. fresh(old).node = i.node /\ fresh(old).id = id /\ ~Revoked(fresh(old))
    BY <2>1 DEF Revoked, Registration
  <2>6. next(old).node = i.node /\ next(old).id = k + 1 /\ ~Revoked(next(old))
    BY <2>1 DEF Issued, Revoked
  <2>7. \A e \in E : e.id \in Nat
    BY DEF Registration
  <2> HIDE DEF F, G, fresh, next
  <2>8. Continues(E, F, k, t) /\ Continues(E, G, k, t)
    BY <2>1, <2>2, <2>3, <2>4, <2>5, <2>6, SMT DEF Continues
  <2>9. Drawn(E, k) => Drawn(F, k) /\ Drawn(G, k + 1)
    BY <2>1, <2>2, <2>3, <2>4, <2>5, <2>6, <2>7, SMT DEF Drawn
  <2>10. Drawn(E, k) => \A g \in G : g.id # id
    BY <2>1, <2>2, <2>4, <2>6, <2>7, SMT DEF Drawn
  <2>11. RevokedNodes(F) \subseteq RevokedNodes(E) /\ RevokedNodes(G) \subseteq RevokedNodes(E)
    BY <2>3, <2>4, <2>5, <2>6 DEF RevokedNodes
  <2> QED
    BY <2>8, <2>9, <2>10, <2>11 DEF F, G
<1>0. mem \in State /\ now \in Nat /\ lastId \in Nat /\ lastId + 1 \in Nat
  BY SMT DEF TypeOK
<1>1. /\ mem.registrations \in SUBSET Registration
      /\ OneEach(mem.registrations)
      /\ \A e \in mem.registrations : e.id \in Nat /\ e.id <= lastId
  BY DEF TypeOK, State, Sound, RestorableEntries, Registration, Drawn
<1>2. PICK i \in Peer :
        \/ RegisterNode(i)
        \/ \E id \in Ids :
            \/ Heartbeat(i, id)
            \/ \E r \in Request : RotateRegistration(i, id, r)
  BY DEF Crediting
<1>3. i \in Identity
  BY ServiceAssumption
<1>4. CASE RegisterNode(i)
  <2> DEFINE F == AfterRegister(mem.registrations, i, lastId + 1, now)
  <2>1. /\ mem' = Registered(mem, i, lastId + 1, now)
        /\ lastId' = lastId + 1
        /\ CanRegister(mem.registrations, i, now)
        /\ call'.promise.retired = Credentials(mem.registrations, i.node)
        /\ call'.promise.blocked = {}
    BY <1>4 DEF RegisterNode, Begin, NoPromise
  <2>r. /\ Registered(mem, i, lastId + 1, now).registrations = F
        /\ Registered(mem, i, lastId + 1, now).pending = mem.pending
    BY <1>0, <1>3, RegisteredLemma, SMT
  <2>2. mem'.registrations = F /\ mem'.pending = mem.pending
    BY <2>1, <2>r
  <2>3. /\ Continues(mem.registrations, F, lastId, now)
        /\ Drawn(F, lastId + 1)
        /\ \A f \in F : f.id \notin Credentials(mem.registrations, i.node)
        /\ RevokedNodes(F) \subseteq RevokedNodes(mem.registrations)
    BY <1>0, <1>1, <1>3, <2>1, <1>g
  <2>4. \A id \in Credentials(mem.registrations, i.node) : id <= lastId + 1
    BY <1>0, <1>1, SMT DEF Credentials
  <2> HIDE DEF F
  <2>5. lastId <= lastId'
    BY <1>0, <2>1, SMT
  <2>6. NoneWaits(mem) => NoneWaits(mem')
    BY <2>2, <2>3 DEF NoneWaits
  <2> QED
    BY <2>1, <2>2, <2>3, <2>4, <2>5, <2>6 DEF Lawful
<1>5. ASSUME NEW id \in Ids, Heartbeat(i, id)
      PROVE  Lawful
  <2> DEFINE F == AfterRefresh(mem.registrations, i, now)
  <2>1. /\ mem' = Refreshed(mem, i, now)
        /\ lastId' = lastId
        /\ Validate(mem.registrations, i, id, now)
        /\ call'.promise.retired = {}
        /\ call'.promise.blocked = {}
    BY <1>5 DEF Heartbeat, Authorized, Begin, NoPromise
  <2>r. /\ Refreshed(mem, i, now).registrations = F
        /\ Refreshed(mem, i, now).pending = mem.pending
    BY <1>0, <1>3, RefreshedLemma
  <2>2. mem'.registrations = F /\ mem'.pending = mem.pending
    BY <2>1, <2>r
  <2>3. /\ Continues(mem.registrations, F, lastId, now)
        /\ Drawn(F, lastId)
        /\ RevokedNodes(F) \subseteq RevokedNodes(mem.registrations)
    BY <1>0, <1>1, <1>3, <2>1, <1>n
  <2> HIDE DEF F
  <2>t. lastId' = lastId
    BY <2>1
  <2>5. lastId <= lastId'
    BY <1>0, <2>t, SMT
  <2>6. NoneWaits(mem) => NoneWaits(mem')
    BY <2>2, <2>3 DEF NoneWaits
  <2> QED
    BY <2>1, <2>2, <2>3, <2>5, <2>6 DEF Lawful
<1>6. ASSUME NEW id \in Ids, NEW r \in Request, RotateRegistration(i, id, r)
      PROVE  Lawful
  <2> DEFINE G == AfterRotate(mem.registrations, i, lastId + 1, now)
  <2>1. /\ mem' = Rotated(mem, i, lastId + 1, r, now)
        /\ lastId' = lastId + 1
        /\ Validate(mem.registrations, i, id, now)
        /\ call'.promise.retired = {id}
        /\ call'.promise.blocked = {}
    BY <1>6 DEF RotateRegistration, CanRotate, Begin, NoPromise
  <2>r. /\ Rotated(mem, i, lastId + 1, r, now).registrations = G
        /\ Rotated(mem, i, lastId + 1, r, now).pending = mem.pending
    BY <1>0, <1>3, RotatedLemma, SMT
  <2>2. mem'.registrations = G /\ mem'.pending = mem.pending
    BY <2>1, <2>r
  <2>3. /\ Continues(mem.registrations, G, lastId, now)
        /\ Drawn(G, lastId + 1)
        /\ \A g \in G : g.id # id
        /\ RevokedNodes(G) \subseteq RevokedNodes(mem.registrations)
    BY <1>0, <1>1, <1>3, <2>1, <1>n
  <2>4. id <= lastId + 1
    BY <1>0, <1>1, SMT DEF Ids
  <2> HIDE DEF G
  <2>t. lastId' = lastId + 1
    BY <2>1
  <2>5. lastId <= lastId'
    BY <1>0, <2>t, SMT
  <2>6. NoneWaits(mem) => NoneWaits(mem')
    BY <2>2, <2>3 DEF NoneWaits
  <2> QED
    BY <2>1, <2>2, <2>3, <2>4, <2>5, <2>6 DEF Lawful
<1> QED
  BY <1>2, <1>4, <1>5, <1>6

\* So is a revocation, which also takes the waiting update of its target.
LEMMA RevokingLawful ==
    ASSUME TypeOK, now # 0, Drawn(mem.registrations, lastId), Revoking
    PROVE  Lawful
<1>v. ASSUME NEW E \in SUBSET Registration, NEW n, NEW k \in Nat, NEW t \in Nat \ {0}
      PROVE  LET F == AfterRevoke(E, n, t)
             IN  /\ Continues(E, F, k, t)
                 /\ Drawn(E, k) => Drawn(F, k)
                 /\ \A f \in F : f.node = n => Revoked(f)
                 /\ RevokedNodes(F) \subseteq RevokedNodes(E) \cup {n}
  <2> DEFINE F == AfterRevoke(E, n, t)
             stamp(e) == [e EXCEPT !.revokedAt = t]
  <2>1. \A e \in E : stamp(e).node = e.node /\ stamp(e).id = e.id /\ Revoked(stamp(e))
    BY DEF Revoked, Registration
  <2>2. \A f : f \in F <=> \E e \in E : /\ e.node = n => Live(e, t)
                                        /\ f = IF e.node = n /\ ~Revoked(e) THEN stamp(e) ELSE e
    BY DEF AfterRevoke
  <2> HIDE DEF F, stamp
  <2>3. Continues(E, F, k, t)
    BY <2>1, <2>2 DEF Continues
  <2>4. Drawn(E, k) => Drawn(F, k)
    BY <2>1, <2>2, SMT DEF Drawn
  <2>5. \A f \in F : f.node = n => Revoked(f)
    BY <2>1, <2>2
  <2>6. RevokedNodes(F) \subseteq RevokedNodes(E) \cup {n}
    BY <2>1, <2>2, SMT DEF RevokedNodes
  <2> QED
    BY <2>3, <2>4, <2>5, <2>6 DEF F
<1>1. /\ mem \in State /\ now \in Nat \ {0} /\ lastId \in Nat
      /\ mem.registrations \in SUBSET Registration
  BY DEF TypeOK, State
<1>2. PICK i \in Peer, id \in Ids, r \in Request, n \in Node : RevokeRegistration(i, id, r, n)
  BY DEF Revoking
<1> DEFINE F == AfterRevoke(mem.registrations, n, now)
           E == {e \in F : e.node = n}
<1>3. /\ mem' = RevocationDone(mem, n, r, now)
      /\ lastId' = lastId
      /\ call'.promise.retired = {e.id : e \in E}
      /\ call'.promise.blocked = {[node |-> n, until |-> e.expiresAt] : e \in E}
  BY <1>2 DEF RevokeRegistration, Begin, NoPromise
<1>r. /\ RevocationDone(mem, n, r, now) \in State
      /\ RevocationDone(mem, n, r, now).registrations = F
      /\ RevocationDone(mem, n, r, now).pending = Without(mem.pending, n)
  BY <1>1, RevocationLemma
<1>4. mem'.registrations = F /\ mem'.pending = Without(mem.pending, n)
  BY <1>3, <1>r
<1>5. /\ Continues(mem.registrations, F, lastId, now)
      /\ Drawn(F, lastId)
      /\ \A f \in E : Revoked(f)
      /\ RevokedNodes(F) \subseteq RevokedNodes(mem.registrations) \cup {n}
  BY <1>1, <1>v
<1>6. F \in SUBSET Registration
  BY <1>r DEF State
<1> HIDE DEF F
<1>7. \A x \in {e.id : e \in E} : x <= lastId
  BY <1>5, <1>6 DEF Drawn
<1>8. \A f \in F : f.id \in {e.id : e \in E} => Revoked(f)
  BY <1>5 DEF Drawn
<1>9. \A b \in {[node |-> n, until |-> e.expiresAt] : e \in E} :
         \E f \in F : f.node = b.node /\ Revoked(f) /\ b.until <= f.expiresAt
  BY <1>5, <1>6, SMT DEF Registration
<1>10. NoneWaits(mem) => NoneWaits(mem')
  BY <1>4, <1>5 DEF NoneWaits, Without
<1>11. lastId <= lastId'
  BY <1>1, <1>3, SMT
<1> QED
  BY <1>3, <1>4, <1>5, <1>7, <1>8, <1>9, <1>10, <1>11 DEF Lawful

\* So is a submission: its node holds a credential that is not revoked.
LEMMA SubmittingLawful ==
    ASSUME TypeOK, Sound(mem), Drawn(mem.registrations, lastId), Submitting
    PROVE  Lawful
<1>1. /\ mem \in State /\ now \in Nat /\ lastId \in Nat
      /\ OneEach(mem.registrations)
  BY DEF TypeOK, Sound, RestorableEntries
<1>2. /\ mem'.registrations = mem.registrations /\ lastId' = lastId
      /\ call'.promise.retired = {} /\ call'.promise.blocked = {}
  BY SubmittingFacts
<1>3. PICK r \in Request :
        /\ Acceptable(r)
        /\ mem'.pending \in {Put(mem.pending, r), {}}
  BY SubmittingFacts
<1>4. r.node \notin RevokedNodes(mem.registrations)
  BY <1>1, <1>3 DEF Acceptable, RevokedNodes, OneEach
<1>5. NoneWaits(mem) => NoneWaits(mem')
  BY <1>2, <1>3, <1>4 DEF NoneWaits, Put, Without
<1>6. Continues(mem.registrations, mem.registrations, lastId, now)
  BY DEF Continues
<1> QED
  BY <1>1, <1>2, <1>3, <1>5, <1>6, SMT DEF Lawful

-----------------------------------------------------------------------------
(***************************************************************************)
(* Recovery.  Recoverable is not inductive: it needs that memory and the   *)
(* state after the transition in flight are sound, and that in memory the  *)
(* waiting updates are few and of one length whenever a call may start.    *)
(* While a commit is pending their lengths may differ, for a model with no *)
(* payload takes updates of any length, and only the validation in Commit  *)
(* finds out; it looks at the snapshot, which mirrors memory.              *)
(***************************************************************************)
Mirrors(S, T) == S.model = T.model /\ S.pending = T.pending

RecoveryInv ==
    /\ \A d \in disk : Restorable(d)
    /\ Restorable(call.before)
    /\ Sound(call.after)
    /\ Sound(mem)
    /\ phase \notin {"committing", "restoring"} => Few(mem) /\ LengthsAgree(mem)
    /\ phase = "committing" => Mirrors(mem, call.after)
    /\ phase = "rolling back" => Mirrors(mem, call.before)

\* A new coordinator has no waiting updates.
LEMMA FewAtFirst == Few(InitialState)
<1> DEFINE Count(f) == [T \in SUBSET {} |-> IF T = {} THEN 0
                                            ELSE 1 + f[T \ {CHOOSE x : x \in T}]]
           none == [T \in SUBSET {} |-> 0]
<1>1. none = Count(none)
  BY SMT
<1>2. Cardinality({}) = (CHOOSE f : f = Count(f))[{}]
  BY SMT DEF Cardinality
<1>3. PICK f : f = Count(f) /\ f = CHOOSE g : g = Count(g)
  BY <1>1, SMT
<1>4. Count(f)[{}] = 0
  BY SMT
<1>5. InitialState.pending = {} /\ Cardinality({}) = 0
  BY <1>2, <1>3, <1>4, SMT DEF InitialState
<1> QED
  BY <1>5, CoordinatorAssumption, SMT DEF Few

\* Every step preserves it.
LEMMA RecoveryStep == TypeOK /\ RecoveryInv /\ [Next]_vars => RecoveryInv'
<1> SUFFICES ASSUME TypeOK, RecoveryInv, [Next]_vars PROVE RecoveryInv'
  OBVIOUS
<1>1. /\ mem \in State /\ now \in Nat /\ disk \in SUBSET State
      /\ call.before \in State /\ call.after \in State
  BY DEF TypeOK
<1>2. /\ Restorable(NoCall.before) /\ Sound(NoCall.after)
      /\ Sound(InitialState) /\ Few(InitialState) /\ LengthsAgree(InitialState)
  BY InitialStateLemma, FewAtFirst, RestorableSplit DEF NoCall
<1>3. validateStateSnapshot(captureSnapshot(mem, now)) => Restorable(captureSnapshot(mem, now))
  <2>1. captureSnapshot(mem, now) \in State /\ Sound(captureSnapshot(mem, now))
    BY <1>1, UnexpiredLemma DEF captureSnapshot, RecoveryInv
  <2> QED
    BY <2>1, RestorableSplit
<1>4. validateStateSnapshot(call.after) => Restorable(call.after)
  BY <1>1, RestorableSplit DEF RecoveryInv
<1>5. \A S \in State : Restorable(S) =>
          /\ Sound(restoreSnapshot(S, now))
          /\ Few(restoreSnapshot(S, now)) /\ LengthsAgree(restoreSnapshot(S, now))
  BY <1>1, RestorableSplit, UnexpiredLemma DEF restoreSnapshot, Few
<1>6. CASE Crash
  BY <1>2, <1>6 DEF Crash, RecoveryInv
<1>7. CASE Start
  <2>1. Sound(mem') /\ Few(mem') /\ LengthsAgree(mem')
    BY <1>1, <1>2, <1>5, <1>7 DEF Start
  <2> QED
    BY <1>7, <2>1 DEF Start, RecoveryInv
<1>8. CASE StartCommitted
  BY <1>3, <1>8 DEF StartCommitted, RecoveryInv
<1>9. CASE StartFailed
  BY <1>2, <1>3, <1>9 DEF StartFailed, RecoveryInv
<1>10. CASE Tick
  BY <1>10 DEF Tick, RecoveryInv
<1>11. CASE Committed
  <2>1. Restorable(call.after)
    BY <1>4, <1>11 DEF Committed
  <2>2. Few(call.after) /\ LengthsAgree(call.after)
    BY <1>1, <2>1, RestorableSplit
  <2>3. Few(mem) /\ LengthsAgree(mem)
    BY <1>11, <2>2 DEF Committed, RecoveryInv, Mirrors, Few, LengthsAgree
  <2> QED
    BY <1>2, <1>11, <2>1, <2>3 DEF Committed, RecoveryInv
<1>12. CASE CommitFailed
  BY <1>4, <1>12 DEF CommitFailed, RecoveryInv
<1>13. CASE RestoreMemory
  <2>1. mem' = restoreSnapshot(call.before, now) /\ phase' = "rolling back" /\ call' = call
        /\ disk' = disk
    BY <1>13 DEF RestoreMemory, RecoveryInv
  <2>2. Sound(mem') /\ Few(mem') /\ LengthsAgree(mem')
    BY <1>1, <1>5, <2>1 DEF RecoveryInv
  <2>3. Mirrors(mem', call.before)
    BY <1>1, <2>1, UnexpiredLemma DEF restoreSnapshot, Mirrors
  <2> QED
    BY <2>1, <2>2, <2>3 DEF RecoveryInv
<1>14. CASE RolledBack
  BY <1>2, <1>14 DEF RolledBack, RecoveryInv
<1>15. CASE RollbackFailed
  BY <1>2, <1>15 DEF RollbackFailed, RecoveryInv
<1>16. CASE Refusing
  <2>1. Few(mem') /\ LengthsAgree(mem')
    BY <1>16, RefusingFacts DEF RecoveryInv, Few, LengthsAgree
  <2> QED
    BY <1>16, <2>1, RefusingFacts DEF RecoveryInv
<1>17. CASE Crediting \/ Revoking \/ Submitting
  <2>1. Started
    BY <1>17, CreditingFacts, RevokingFacts, SubmittingFacts
  <2>2. Sound(mem')
    BY <2>1 DEF Started, RecoveryInv
  <2>3. Restorable(captureSnapshot(mem, now))
    <3>1. /\ captureSnapshot(mem, now) \in State
          /\ Sound(captureSnapshot(mem, now))
          /\ LengthsAgree(captureSnapshot(mem, now))
          /\ captureSnapshot(mem, now).pending = mem.pending
      BY <1>1, <2>1, UnexpiredLemma DEF Started, RecoveryInv, captureSnapshot
    <3>2. Few(captureSnapshot(mem, now))
      BY <2>1, <3>1 DEF Started, RecoveryInv, Few
    <3> QED
      BY <3>1, <3>2, RestorableSplit
  <2>4. Sound(captureSnapshot(mem', now)) /\ Mirrors(mem', captureSnapshot(mem', now))
    BY <1>1, <2>1, <2>2, UnexpiredLemma DEF Started, captureSnapshot, Mirrors
  <2> QED
    BY <2>1, <2>2, <2>3, <2>4 DEF Started, RecoveryInv
<1>18. CASE Serving
  BY <1>18 DEF Serving, GetGlobalModel, RecoveryInv
<1>19. CASE UNCHANGED vars
  BY <1>19 DEF vars, RecoveryInv
<1> QED
  BY <1>6, <1>7, <1>8, <1>9, <1>10, <1>11, <1>12, <1>13, <1>14, <1>15, <1>16, <1>17,
     <1>18, <1>19, NextCases

\* The stored and the saved states satisfy the inductive invariant at all times.
LEMMA RecoveryInvariant == Spec => []RecoveryInv
<1>1. Init => RecoveryInv
  BY InitialStateLemma, FewAtFirst, RestorableSplit, SMT DEF Init, NoCall, RecoveryInv
<1> QED
  BY <1>1, RecoveryStep, TypeCorrect, PTL DEF Spec

\* Recovery and in-memory rollback never refuse: whatever a commit, complete
\* or not, left in the store, and every state a failed transition has to go
\* back to, passes both validations of restoreSnapshot.
THEOREM RecoveryCannotBeRefused == Spec => []Recoverable
<1>1. RecoveryInv => Recoverable
  BY DEF RecoveryInv, Recoverable
<1> QED
  BY <1>1, RecoveryInvariant, PTL

-----------------------------------------------------------------------------
(***************************************************************************)
(* Durability.  The stored state alone does not carry the induction: a     *)
(* rollback writes the state before the transition, and a later commit the *)
(* one in memory, so each of them must hold what was promised.             *)
(***************************************************************************)
InFlight == phase \in {"committing", "restoring", "rolling back"}

Holds(S, r) == r \in S.pending \/ r \in ContributedTo(S.model)

Keeps(S) == \A r \in acked.updates : r \in withdrawn \/ Holds(S, r)

KeepsCall(S) == \A r \in call.promise.updates : r \in withdrawn \/ Holds(S, r)

DurabilityInv ==
    /\ acked.updates # {} => disk # {}
    /\ \A d \in disk : Keeps(d)
    /\ phase # "down" => Keeps(mem)
    /\ InFlight => Keeps(call.before) /\ Keeps(call.after)
    /\ phase = "committing" => KeepsCall(mem) /\ KeepsCall(call.after)

\* A snapshot holds the updates of the state it was taken of.
LEMMA CaptureHolds ==
    ASSUME NEW S \in State, NEW t \in Nat, NEW r
    PROVE  /\ Holds(captureSnapshot(S, t), r) <=> Holds(S, r)
           /\ Holds(restoreSnapshot(S, t), r) <=> Holds(S, r)
BY UnexpiredLemma DEF captureSnapshot, restoreSnapshot, Holds

\* Closing a round moves the waiting updates into the model and loses none.
LEMMA SubmitHolds ==
    ASSUME TypeOK, Submitting
    PROVE  /\ \A r : Holds(mem, r) => Holds(mem', r)
           /\ \A r \in call'.promise.updates : Holds(mem', r)
<1>1. mem \in State /\ mem.model.inputs \in SUBSET [round : Nat, update : Request]
      /\ mem.pending \in SUBSET Request /\ mem.model.round \in Nat
  BY DEF TypeOK, State, Model
<1>2. PICK r \in Request :
        /\ call'.promise.updates = {r}
        /\ \A u \in mem.pending : u.node # r.node
        /\ \/ /\ mem'.model = mem.model
              /\ mem'.pending = Put(mem.pending, r)
           \/ /\ mem'.model = NextModel(mem.model, Put(mem.pending, r), r.length)
              /\ mem'.pending = {}
  BY SubmittingFacts DEF Acceptable
<1>3. mem.pending \subseteq Put(mem.pending, r) /\ r \in Put(mem.pending, r)
  BY <1>2 DEF Put, Without
<1>4. CASE mem'.model = mem.model /\ mem'.pending = Put(mem.pending, r)
  BY <1>2, <1>3, <1>4 DEF Holds
<1>5. CASE /\ mem'.model = NextModel(mem.model, Put(mem.pending, r), r.length)
           /\ mem'.pending = {}
  <2> DEFINE k == mem.model.round + 1
             new == {[round |-> k, update |-> u] : u \in Put(mem.pending, r)}
  <2>1. mem'.model.inputs = mem.model.inputs \cup new
    BY <1>5, SMT DEF NextModel
  <2>2. \A u \in Put(mem.pending, r) : u \in ContributedTo(mem'.model)
    <3> SUFFICES ASSUME NEW u \in Put(mem.pending, r) PROVE u \in ContributedTo(mem'.model)
      OBVIOUS
    <3>1. [round |-> k, update |-> u] \in mem'.model.inputs
      BY <2>1
    <3>2. [round |-> k, update |-> u].update = u
      OBVIOUS
    <3> QED
      BY <3>1, <3>2 DEF ContributedTo
  <2>3. ContributedTo(mem.model) \subseteq ContributedTo(mem'.model)
    BY <2>1 DEF ContributedTo
  <2> QED
    BY <1>2, <1>3, <2>2, <2>3 DEF Holds
<1> QED
  BY <1>2, <1>4, <1>5

\* Every step preserves it.
LEMMA DurabilityStep ==
    TypeOK /\ RecoveryInv /\ DurabilityInv /\ [Next]_vars => DurabilityInv'
<1> SUFFICES ASSUME TypeOK, RecoveryInv, DurabilityInv, [Next]_vars PROVE DurabilityInv'
  OBVIOUS
<1>1. /\ mem \in State /\ now \in Nat /\ disk \in SUBSET State
      /\ call.before \in State /\ call.after \in State
  BY DEF TypeOK
<1>2. CASE Crash
  BY <1>2 DEF Crash, DurabilityInv, Keeps, InFlight
<1>3. CASE Start
  <2>1. Keeps(mem')
    <3>1. CASE disk = {}
      BY <3>1 DEF DurabilityInv, Keeps
    <3>2. ASSUME NEW d \in disk, mem' = restoreSnapshot(d, now) PROVE Keeps(mem')
      BY <1>1, <3>2, CaptureHolds DEF DurabilityInv, Keeps
    <3> QED
      BY <1>3, <3>1, <3>2 DEF Start
  <2> QED
    BY <1>3, <2>1 DEF Start, DurabilityInv, Keeps, InFlight, history
<1>4. CASE StartCommitted \/ StartFailed
  <2>1. Keeps(captureSnapshot(mem, now))
    BY <1>1, <1>4, CaptureHolds DEF StartCommitted, StartFailed, DurabilityInv, Keeps
  <2>2. disk' = disk \/ disk' = {captureSnapshot(mem, now)}
    BY <1>4 DEF StartCommitted, StartFailed
  <2>3. phase' = "down" \/ (phase' = "idle" /\ mem' = mem /\ phase = "starting")
    BY <1>4 DEF StartCommitted, StartFailed
  <2>4. acked' = acked /\ withdrawn' = withdrawn
    BY <1>4 DEF StartCommitted, StartFailed, history
  <2> QED
    BY <2>1, <2>2, <2>3, <2>4 DEF DurabilityInv, Keeps, InFlight
<1>5. CASE Tick
  BY <1>5 DEF Tick, DurabilityInv, Keeps, KeepsCall, InFlight, history
<1>6. CASE Committed
  <2>1. acked'.updates = acked.updates \cup call.promise.updates
    BY <1>6 DEF Committed
  <2>2. Keeps(call.after) /\ KeepsCall(call.after) /\ Keeps(mem) /\ KeepsCall(mem)
    BY <1>6 DEF Committed, DurabilityInv, InFlight
  <2> QED
    BY <1>6, <2>1, <2>2 DEF Committed, DurabilityInv, Keeps, KeepsCall, InFlight
<1>7. CASE CommitFailed
  BY <1>7 DEF CommitFailed, DurabilityInv, Keeps, InFlight, history
<1>8. CASE RestoreMemory
  <2>1. mem' = restoreSnapshot(call.before, now) /\ phase' = "rolling back" /\ call' = call
        /\ disk' = disk /\ acked' = acked /\ withdrawn' = withdrawn /\ phase = "restoring"
    BY <1>8 DEF RestoreMemory, RecoveryInv, history
  <2>2. Keeps(mem')
    BY <1>1, <2>1, CaptureHolds DEF DurabilityInv, Keeps, InFlight
  <2> QED
    BY <2>1, <2>2 DEF DurabilityInv, Keeps, InFlight
<1>9. CASE RolledBack \/ RollbackFailed
  <2>1. Keeps(call.before) /\ Keeps(mem)
    BY <1>9 DEF RolledBack, RollbackFailed, DurabilityInv, InFlight
  <2> QED
    BY <1>9, <2>1 DEF RolledBack, RollbackFailed, DurabilityInv, Keeps, InFlight
<1>10. CASE Refusing
  <2>1. Keeps(mem')
    BY <1>10, RefusingFacts DEF DurabilityInv, Keeps, Holds
  <2> QED
    BY <1>10, <2>1, RefusingFacts DEF DurabilityInv, Keeps, InFlight
<1>11. CASE Crediting \/ Revoking \/ Submitting
  <2>1. Started
    BY <1>11, CreditingFacts, RevokingFacts, SubmittingFacts
  <2>2. /\ withdrawn \subseteq withdrawn'
        /\ \A r : Holds(mem, r) => r \in withdrawn' \/ Holds(mem', r)
        /\ \A r \in call'.promise.updates : Holds(mem', r)
    <3>1. CASE Crediting
      BY <3>1, CreditingFacts DEF Holds
    <3>2. CASE Revoking
      BY <3>2, RevokingFacts DEF Holds, Without
    <3>3. CASE Submitting
      BY <3>3, SubmittingFacts, SubmitHolds
    <3> QED
      BY <1>11, <3>1, <3>2, <3>3
  <2>3. acked' = acked /\ disk' = disk /\ phase = "idle" /\ phase' = "committing"
    BY <2>1 DEF Started
  <2>4. \A r : /\ Holds(call'.before, r) <=> Holds(mem, r)
               /\ Holds(call'.after, r) <=> Holds(mem', r)
    BY <1>1, <2>1, CaptureHolds, SMT DEF Started
  <2> QED
    BY <2>2, <2>3, <2>4 DEF DurabilityInv, Keeps, KeepsCall, InFlight
<1>12. CASE Serving
  BY <1>12 DEF Serving, GetGlobalModel, DurabilityInv, Keeps, KeepsCall, InFlight
<1>13. CASE UNCHANGED vars
  BY <1>13 DEF vars, DurabilityInv, Keeps, KeepsCall, InFlight
<1> QED
  BY <1>2, <1>3, <1>4, <1>5, <1>6, <1>7, <1>8, <1>9, <1>10, <1>11, <1>12, <1>13, NextCases

\* An update whose submission was answered "accepted" stays in the stored
\* state, waiting or aggregated, unless a revocation of its node takes it out,
\* whatever commits fail and whenever the process dies and restarts.
THEOREM AcceptedUpdatesAreDurable == Spec => []AcceptedIsDurable
<1>1. Init => DurabilityInv
  BY SMT DEF Init, DurabilityInv, NoPromise, Keeps, InFlight
<1>2. DurabilityInv => AcceptedIsDurable
  <2> SUFFICES ASSUME DurabilityInv, NEW r \in acked.updates \ withdrawn
               PROVE  \E d \in disk : r \in d.pending \cup ContributedTo(d.model)
    BY DEF AcceptedIsDurable
  <2>1. PICK d \in disk : TRUE
    BY DEF DurabilityInv
  <2> QED
    BY <2>1 DEF DurabilityInv, Keeps, Holds
<1> QED
  BY <1>1, <1>2, DurabilityStep, TypeCorrect, RecoveryInvariant, PTL DEF Spec

-----------------------------------------------------------------------------
(***************************************************************************)
(* History.  Memory may be behind the store, after a commit that failed    *)
(* with effect and a rollback that failed too, but never beside it: it     *)
(* holds an ancestor of the stored model, and what it serves stays true    *)
(* whichever of the two the next commit or the next restart builds on.     *)
(***************************************************************************)
\* The inputs of a model are those of its own rounds.
Numbered(m) == \A x \in m.inputs : x.round <= m.round

Follows(S) == Numbered(S.model) /\ \A m \in served : AncestorOf(m, S.model)

HistoryInv ==
    /\ \A c, d \in disk : c = d
    /\ served # {} => disk # {}
    /\ \A d \in disk : Follows(d)
    /\ phase # "down" => Follows(mem)
    /\ InFlight => Follows(call.before) /\ Follows(call.after)
    /\ InFlight => AncestorOf(call.before.model, call.after.model)
    /\ InFlight => \A d \in disk : AncestorOf(call.before.model, d.model)
    /\ phase \in {"starting", "idle"} => \A d \in disk : AncestorOf(mem.model, d.model)
    /\ phase = "idle" => disk # {}
    /\ InFlight => disk # {}

\* A model is its own ancestor.
LEMMA AncestorReflexive ==
    ASSUME NEW m \in Model, Numbered(m)
    PROVE  AncestorOf(m, m)
BY SMT DEF AncestorOf, Numbered, Model

\* The ancestors of a model are ancestors of the next one.
LEMMA AncestorOfNext ==
    ASSUME NEW m \in Model, NEW M \in Model, Numbered(M), AncestorOf(m, M),
           NEW U \in SUBSET Request, NEW len
    PROVE  AncestorOf(m, NextModel(M, U, len)) /\ Numbered(NextModel(M, U, len))
<1> DEFINE k == M.round + 1
           new == {[round |-> k, update |-> u] : u \in U}
           N == NextModel(M, U, len)
<1>1. N.inputs = M.inputs \cup new /\ N.round = k
  BY DEF NextModel
<1>2. m.round \in Nat /\ M.round \in Nat /\ m.round <= M.round
  BY DEF Model, AncestorOf
<1>3. \A x \in new : x.round = k
  BY SMT
<1>4. {x \in N.inputs : x.round <= m.round} = {x \in M.inputs : x.round <= m.round}
  BY <1>1, <1>2, <1>3, SMT
<1>5. AncestorOf(m, N)
  BY <1>1, <1>2, <1>4, SMT DEF AncestorOf
<1>6. \A x \in M.inputs : x.round \in Nat
  BY DEF Model
<1>7. Numbered(N)
  BY <1>1, <1>2, <1>3, <1>6, SMT DEF Numbered
<1> QED
  BY <1>5, <1>7

\* The handlers that go on to commit keep the model or build the next one.
LEMMA StartedModels ==
    ASSUME TypeOK, Crediting \/ Revoking \/ Submitting,
           NEW m \in Model, AncestorOf(m, mem.model), Numbered(mem.model)
    PROVE  AncestorOf(m, mem'.model) /\ Numbered(mem'.model)
<1>1. mem.model \in Model /\ mem.pending \in SUBSET Request
  BY DEF TypeOK, State
<1>2. CASE mem'.model = mem.model
  BY <1>2
<1>3. ASSUME NEW r \in Request, mem'.model = NextModel(mem.model, Put(mem.pending, r), r.length)
      PROVE  AncestorOf(m, mem'.model) /\ Numbered(mem'.model)
  <2>1. Put(mem.pending, r) \in SUBSET Request
    BY <1>1 DEF Put, Without
  <2> QED
    BY <1>1, <1>3, <2>1, AncestorOfNext
<1> QED
  BY <1>2, <1>3, CreditingFacts, RevokingFacts, SubmittingFacts

\* Every step preserves it.
LEMMA HistoryStep ==
    TypeOK /\ RecoveryInv /\ HistoryInv /\ [Next]_vars => HistoryInv'
<1> SUFFICES ASSUME TypeOK, RecoveryInv, HistoryInv, [Next]_vars PROVE HistoryInv'
  OBVIOUS
<1>1. /\ mem \in State /\ now \in Nat /\ disk \in SUBSET State
      /\ call.before \in State /\ call.after \in State
      /\ mem.model \in Model /\ served \in SUBSET Model
      /\ \A d \in disk : d.model \in Model
  BY DEF TypeOK, State
<1>2. \A S \in State : captureSnapshot(S, now).model = S.model
                       /\ restoreSnapshot(S, now).model = S.model
  BY <1>1, UnexpiredLemma DEF captureSnapshot, restoreSnapshot
<1>3. CASE Crash
  BY <1>3 DEF Crash, HistoryInv, Follows, InFlight
<1>4. CASE Start
  <2>1. CASE disk = {} /\ mem' = InitialState
    <3>1. Numbered(InitialState.model)
      BY DEF Numbered, InitialState
    <3> QED
      BY <1>4, <2>1, <3>1 DEF Start, HistoryInv, Follows, InFlight, history
  <2>2. ASSUME NEW d \in disk, mem' = restoreSnapshot(d, now) PROVE HistoryInv'
    <3>1. mem'.model = d.model /\ Follows(d)
      BY <1>1, <1>2, <2>2 DEF HistoryInv
    <3>2. \A c \in disk : AncestorOf(d.model, c.model)
      BY <1>1, <3>1, AncestorReflexive DEF HistoryInv, Follows
    <3> QED
      BY <1>4, <3>1, <3>2 DEF Start, HistoryInv, Follows, InFlight, history
  <2> QED
    BY <1>4, <2>1, <2>2 DEF Start
<1>5. CASE StartCommitted \/ StartFailed
  <2> DEFINE c == captureSnapshot(mem, now)
  <2>1. c.model = mem.model /\ Follows(mem) /\ AncestorOf(mem.model, mem.model)
    BY <1>1, <1>2, <1>5, AncestorReflexive
       DEF StartCommitted, StartFailed, HistoryInv, Follows
  <2>2. disk' = disk \/ disk' = {c}
    BY <1>5 DEF StartCommitted, StartFailed
  <2>3. phase' = "down" \/ (phase' = "idle" /\ mem' = mem /\ disk' = {c})
    BY <1>5 DEF StartCommitted, StartFailed
  <2>4. served' = served
    BY <1>5 DEF StartCommitted, StartFailed, history
  <2>5. \A d \in disk' : Follows(d)
    BY <2>1, <2>2 DEF HistoryInv, Follows
  <2> QED
    BY <2>1, <2>2, <2>3, <2>4, <2>5 DEF HistoryInv, Follows, InFlight
<1>6. CASE Tick
  BY <1>6 DEF Tick, HistoryInv, Follows, InFlight, history
<1>7. CASE Committed
  <2>1. call.after.model = mem.model
    BY <1>7 DEF Committed, RecoveryInv, Mirrors
  <2>2. Follows(call.after) /\ Follows(mem)
    BY <1>7 DEF Committed, HistoryInv, InFlight
  <2>3. AncestorOf(mem.model, mem.model)
    BY <1>1, <2>2, AncestorReflexive DEF Follows
  <2>4. disk' = {call.after} /\ mem' = mem /\ phase' = "idle" /\ served' = served
    BY <1>7 DEF Committed
  <2> QED
    BY <2>1, <2>2, <2>3, <2>4 DEF HistoryInv, Follows, InFlight
<1>8. CASE CommitFailed
  <2>1. disk' = disk \/ disk' = {call.after}
    BY <1>8 DEF CommitFailed
  <2>2. phase = "committing" /\ phase' = "restoring" /\ UNCHANGED <<mem, call, served>>
    BY <1>8 DEF CommitFailed, history
  <2> QED
    BY <2>1, <2>2 DEF HistoryInv, Follows, InFlight
<1>9. CASE RestoreMemory
  <2>1. mem' = restoreSnapshot(call.before, now) /\ phase' = "rolling back" /\ call' = call
        /\ disk' = disk /\ served' = served /\ phase = "restoring"
    BY <1>9 DEF RestoreMemory, RecoveryInv, history
  <2>2. mem'.model = call.before.model
    BY <1>1, <1>2, <2>1
  <2> QED
    BY <2>1, <2>2 DEF HistoryInv, Follows, InFlight
<1>10. CASE RolledBack \/ RollbackFailed
  <2>1. mem.model = call.before.model /\ Follows(call.before)
    BY <1>10 DEF RolledBack, RollbackFailed, RecoveryInv, Mirrors, HistoryInv, InFlight
  <2>2. AncestorOf(mem.model, call.before.model)
    BY <1>1, <2>1, AncestorReflexive DEF Follows
  <2>3. disk' = disk \/ disk' = {call.before}
    BY <1>10 DEF RolledBack, RollbackFailed
  <2>4. phase = "rolling back" /\ phase' = "idle" /\ UNCHANGED <<mem, served>>
    BY <1>10 DEF RolledBack, RollbackFailed
  <2> QED
    BY <2>1, <2>2, <2>3, <2>4 DEF HistoryInv, Follows, InFlight
<1>11. CASE Refusing
  BY <1>11, RefusingFacts DEF HistoryInv, Follows, InFlight
<1>12. CASE Crediting \/ Revoking \/ Submitting
  <2>1. Started
    BY <1>12, CreditingFacts, RevokingFacts, SubmittingFacts
  <2>2. phase = "idle" /\ phase' = "committing" /\ disk' = disk /\ served' = served
    BY <2>1 DEF Started
  <2>3. call'.before.model = mem.model /\ call'.after.model = mem'.model
    BY <1>1, <1>2, <2>1 DEF Started
  <2>4. Follows(mem) /\ disk # {} /\ \A d \in disk : AncestorOf(mem.model, d.model)
    BY <2>2 DEF HistoryInv
  <2>5. AncestorOf(mem.model, mem'.model) /\ Numbered(mem'.model)
    BY <1>1, <1>12, <2>4, AncestorReflexive, StartedModels DEF Follows
  <2>6. \A m \in served : AncestorOf(m, mem'.model)
    BY <1>1, <1>12, <2>4, StartedModels DEF Follows
  <2> QED
    BY <2>2, <2>3, <2>4, <2>5, <2>6 DEF HistoryInv, Follows, InFlight
<1>13. CASE Serving
  <2>1. phase = "idle" /\ served' = served \cup {mem.model} /\ UNCHANGED <<phase, mem, disk, call>>
    BY <1>13 DEF Serving, GetGlobalModel
  <2>2. AncestorOf(mem.model, mem.model)
    BY <1>1, <2>1, AncestorReflexive DEF HistoryInv, Follows
  <2> QED
    BY <2>1, <2>2 DEF HistoryInv, Follows, InFlight
<1>14. CASE UNCHANGED vars
  BY <1>14 DEF vars, HistoryInv, Follows, InFlight
<1> QED
  BY <1>3, <1>4, <1>5, <1>6, <1>7, <1>8, <1>9, <1>10, <1>11, <1>12, <1>13, <1>14, NextCases

\* No client sees history change: every model GetGlobalModel ever returned is
\* an ancestor of the stored one, across failed commits, rollbacks, restarts.
THEOREM ServedModelsStayInHistory == Spec => []ServedHistoryIsStable
<1>1. Init => HistoryInv
  BY DEF Init, HistoryInv, InFlight
<1>2. HistoryInv => ServedHistoryIsStable
  BY DEF HistoryInv, Follows, ServedHistoryIsStable
<1> QED
  BY <1>1, <1>2, HistoryStep, TypeCorrect, RecoveryInvariant, PTL DEF Spec

-----------------------------------------------------------------------------
(***************************************************************************)
(* Agreement of memory and store.  While a commit is pending it is the     *)
(* snapshot about to be written that agrees with memory.                   *)
(***************************************************************************)
Agrees(S, T, t) ==
    Mirrors(S, T) /\ LiveEntries(S.registrations, t) = LiveEntries(T.registrations, t)

AgreementInv ==
    /\ phase = "committing" => Agrees(mem, call.after, now)
    /\ phase = "rolling back" => Agrees(mem, call.before, now)
    /\ phase = "idle" /\ ~diverged => \E d \in disk : Agrees(mem, d, now)

\* States that agree now agree later: a lease that ends, ends on both sides.
LEMMA AgreesLater ==
    ASSUME NEW S \in State, NEW T \in State, NEW t \in Nat, Agrees(S, T, t)
    PROVE  Agrees(S, T, t + 1)
<1>1. S.registrations \in SUBSET Registration /\ T.registrations \in SUBSET Registration
  BY DEF State
<1>2. \A D \in SUBSET Registration :
        LiveEntries(D, t + 1) = {e \in LiveEntries(D, t) : t + 1 < e.expiresAt}
  BY SMT DEF LiveEntries, Live, Registration
<1> QED
  BY <1>1, <1>2 DEF Agrees

\* Taking out what has expired takes out nothing that is live.
LEMMA CaptureAgrees ==
    ASSUME NEW S \in State, NEW t \in Nat
    PROVE  Agrees(S, captureSnapshot(S, t), t) /\ Agrees(restoreSnapshot(S, t), S, t)
<1>1. LiveEntries(LiveEntries(S.registrations, t), t) = LiveEntries(S.registrations, t)
  BY DEF LiveEntries
<1> QED
  BY <1>1, UnexpiredLemma DEF Agrees, Mirrors, captureSnapshot, restoreSnapshot

\* Every step preserves the agreement.
LEMMA AgreementStep ==
    TypeOK /\ RecoveryInv /\ AgreementInv /\ [Next]_vars => AgreementInv'
<1> SUFFICES ASSUME TypeOK, RecoveryInv, AgreementInv, [Next]_vars PROVE AgreementInv'
  OBVIOUS
<1>1. /\ mem \in State /\ now \in Nat /\ disk \in SUBSET State
      /\ call.before \in State /\ call.after \in State
  BY DEF TypeOK
<1>2. CASE Crash \/ Start \/ StartFailed \/ CommitFailed
  BY <1>2 DEF Crash, Start, StartFailed, CommitFailed, AgreementInv
<1>3. CASE StartCommitted
  BY <1>1, <1>3, CaptureAgrees DEF StartCommitted, AgreementInv
<1>4. CASE Tick
  <2>1. now' = now + 1 /\ UNCHANGED <<phase, mem, disk, call, diverged>>
    BY <1>4 DEF Tick, history
  <2>2. phase = "committing" => Agrees(mem, call.after, now + 1)
    BY <1>1, AgreesLater DEF AgreementInv
  <2>3. phase = "rolling back" => Agrees(mem, call.before, now + 1)
    BY <1>1, AgreesLater DEF AgreementInv
  <2>4. phase = "idle" /\ ~diverged => \E d \in disk : Agrees(mem, d, now + 1)
    BY <1>1, AgreesLater DEF AgreementInv
  <2> QED
    BY <2>1, <2>2, <2>3, <2>4 DEF AgreementInv
<1>5. CASE Committed
  BY <1>5 DEF Committed, AgreementInv
<1>6. CASE RestoreMemory
  <2>1. mem' = restoreSnapshot(call.before, now) /\ phase' = "rolling back" /\ call' = call
        /\ now' = now
    BY <1>6 DEF RestoreMemory, RecoveryInv
  <2>2. Agrees(mem', call.before, now)
    BY <1>1, <2>1, CaptureAgrees
  <2> QED
    BY <2>1, <2>2 DEF AgreementInv
<1>7. CASE RolledBack \/ RollbackFailed
  BY <1>7 DEF RolledBack, RollbackFailed, AgreementInv
<1>8. CASE Refusing
  <2>1. phase = "idle" /\ UNCHANGED <<phase, disk, now, diverged>>
    BY <1>8, RefusingFacts
  <2>2. \A d \in disk : Agrees(mem, d, now) => Agrees(mem', d, now)
    BY <1>8, RefusingFacts DEF Agrees, Mirrors
  <2> QED
    BY <2>1, <2>2 DEF AgreementInv
<1>9. CASE Crediting \/ Revoking \/ Submitting
  <2>1. Started
    BY <1>9, CreditingFacts, RevokingFacts, SubmittingFacts
  <2>2. Agrees(mem', captureSnapshot(mem', now), now)
    BY <1>1, <2>1, CaptureAgrees DEF Started
  <2> QED
    BY <2>1, <2>2 DEF Started, AgreementInv
<1>10. CASE Serving
  BY <1>10, SMT DEF Serving, GetGlobalModel, AgreementInv
<1>11. CASE UNCHANGED vars
  BY <1>11 DEF vars, AgreementInv
<1> QED
  BY <1>2, <1>3, <1>4, <1>5, <1>6, <1>7, <1>8, <1>9, <1>10, <1>11, NextCases

\* Between calls memory and store hold the same model, waiting updates and
\* live registrations unless the last call reported that its persistent
\* rollback failed.
THEOREM MemoryAndStoreAgree == Spec => []AtRestMemoryIsStored
<1>1. Init => AgreementInv
  BY DEF Init, AgreementInv
<1>2. AgreementInv => AtRestMemoryIsStored
  BY DEF AgreementInv, Agrees, Mirrors, AtRestMemoryIsStored
<1> QED
  BY <1>1, <1>2, AgreementStep, TypeCorrect, RecoveryInvariant, PTL DEF Spec

-----------------------------------------------------------------------------
(***************************************************************************)
(* The copies of the coordinator's state.  What holds of a state by itself *)
(* is proved of all of them at once: a step adds the initial state, a copy *)
(* without what has expired, or what a handler made of memory.             *)
(***************************************************************************)
Copies == {mem, call.before, call.after} \cup disk

Handling == Refusing \/ Crediting \/ Revoking \/ Submitting

\* Where the copies come from.
LEMMA CopiesStep ==
    ASSUME TypeOK, [Next]_vars, NEW T \in Copies'
    PROVE  \/ T \in Copies
           \/ T = InitialState
           \/ \E S \in Copies : T = Unexpired(S, now)
           \/ Handling /\ T \in {mem', Unexpired(mem', now)}
<1> USE DEF Copies, captureSnapshot, restoreSnapshot, NoCall
<1>1. CASE Crash \/ Start \/ StartCommitted \/ StartFailed
  BY <1>1, SMT DEF Crash, Start, StartCommitted, StartFailed
<1>2. CASE Tick \/ Committed \/ CommitFailed
  BY <1>2, SMT DEF Tick, Committed, CommitFailed
<1>3. CASE RestoreMemory \/ RolledBack \/ RollbackFailed
  <2>1. CASE RestoreMemory
    <3>1. mem' = mem \/ mem' = Unexpired(call.before, now)
      BY <2>1 DEF RestoreMemory
    <3>2. call' = call \/ call' = NoCall
      BY <2>1 DEF RestoreMemory
    <3>3. disk' = disk
      BY <2>1 DEF RestoreMemory
    <3> QED
      BY <3>1, <3>2, <3>3, SMT
  <2>2. CASE RolledBack \/ RollbackFailed
    <3>1. disk' = disk \/ disk' = {call.before}
      BY <2>2 DEF RolledBack, RollbackFailed
    <3>2. mem' = mem /\ call' = NoCall
      BY <2>2 DEF RolledBack, RollbackFailed
    <3> QED
      BY <3>1, <3>2
  <2> QED
    BY <1>3, <2>1, <2>2
<1>4. CASE Refusing
  BY <1>4, RefusingFacts DEF Handling
<1>5. CASE Crediting \/ Revoking \/ Submitting
  <2>1. Started
    BY <1>5, CreditingFacts, RevokingFacts, SubmittingFacts
  <2> QED
    BY <1>5, <2>1 DEF Started, Handling
<1>6. CASE Serving \/ UNCHANGED vars
  BY <1>6 DEF Serving, GetGlobalModel, vars
<1> QED
  BY <1>1, <1>2, <1>3, <1>4, <1>5, <1>6, NextCases

\* The copies are states, and the ones memory is built from are sound.
LEMMA CopiesType ==
    ASSUME TypeOK
    PROVE  Copies \in SUBSET State
BY DEF TypeOK, Copies

\* A handler runs between calls, at one moment.
LEMMA HandlingType ==
    ASSUME TypeOK, Handling
    PROVE  mem' \in State /\ now' = now /\ phase = "idle"
BY RefusingFacts, CreditingFacts, RevokingFacts, SubmittingFacts DEF Handling, Started

-----------------------------------------------------------------------------
(***************************************************************************)
(* At most once.  An update is for one round, and the round it is waiting  *)
(* in or was aggregated into is that one; so a call that is delivered      *)
(* again after its round is refused for its round, whatever has become of  *)
(* its nonce.                                                              *)
(***************************************************************************)
InItsRound(S) ==
    /\ \A u \in S.pending : u.round = S.model.round
    /\ \A x \in S.model.inputs : x.round = x.update.round + 1 /\ x.round <= S.model.round

RoundInv == \A S \in Copies : InItsRound(S)

\* What is in its round is there once.
LEMMA InItsRoundOnce ==
    ASSUME NEW S \in State, InItsRound(S)
    PROVE  /\ \A x, y \in S.model.inputs : x.update = y.update => x = y
           /\ S.pending \cap ContributedTo(S.model) = {}
<1>1. /\ S.model.round \in Nat
      /\ S.model.inputs \in SUBSET [round : Nat, update : Request]
      /\ \A u \in Request : u.round \in Nat
  BY CoordinatorAssumption DEF State, Model
<1>2. ASSUME NEW x \in S.model.inputs, NEW y \in S.model.inputs, x.update = y.update
      PROVE  x = y
  <2>1. x.round = y.round
    BY <1>2 DEF InItsRound
  <2>2. /\ x = [round |-> x.round, update |-> x.update]
        /\ y = [round |-> y.round, update |-> y.update]
    BY <1>1, SMT
  <2> QED
    BY <1>2, <2>1, <2>2
<1>3. ASSUME NEW x \in S.model.inputs, x.update \in S.pending
      PROVE  FALSE
  <2>1. x.update.round = S.model.round /\ x.round = x.update.round + 1 /\ x.round <= S.model.round
    BY <1>3 DEF InItsRound
  <2> QED
    BY <1>1, <2>1, SMT
<1> QED
  BY <1>2, <1>3 DEF ContributedTo

\* Taking an update for the current round, to wait or to close the round.
LEMMA TakenInItsRound ==
    ASSUME TypeOK, Submitting, InItsRound(mem)
    PROVE  InItsRound(mem')
<1>1. /\ mem.model.round \in Nat
      /\ mem.model.inputs \in SUBSET [round : Nat, update : Request]
  BY DEF TypeOK, State, Model
<1>2. PICK r \in Request :
        /\ Acceptable(r)
        /\ \/ /\ mem'.model = mem.model
              /\ mem'.pending = Put(mem.pending, r)
           \/ /\ mem'.model = NextModel(mem.model, Put(mem.pending, r), r.length)
              /\ mem'.pending = {}
  BY SubmittingFacts
<1>3. \A u \in Put(mem.pending, r) : u.round = mem.model.round
  BY <1>2 DEF Acceptable, Put, Without, InItsRound
<1>4. CASE mem'.model = mem.model /\ mem'.pending = Put(mem.pending, r)
  BY <1>3, <1>4 DEF InItsRound
<1>5. CASE /\ mem'.model = NextModel(mem.model, Put(mem.pending, r), r.length)
           /\ mem'.pending = {}
  <2> DEFINE k == mem.model.round + 1
             new == {[round |-> k, update |-> u] : u \in Put(mem.pending, r)}
  <2>1. mem'.model.inputs = mem.model.inputs \cup new /\ mem'.model.round = k
    BY <1>5, SMT DEF NextModel
  <2>2. \A x \in new : x.round = k /\ x.update \in Put(mem.pending, r)
    BY SMT
  <2>3. \A x \in new : x.round = x.update.round + 1 /\ x.round <= k
    BY <1>1, <1>3, <2>2, SMT
  <2>4. \A x \in mem.model.inputs : x.round = x.update.round + 1 /\ x.round <= k
    BY <1>1, SMT DEF InItsRound
  <2> QED
    BY <1>5, <2>1, <2>3, <2>4 DEF InItsRound
<1> QED
  BY <1>2, <1>4, <1>5

\* Every step preserves it.
LEMMA RoundStep == TypeOK /\ RoundInv /\ [Next]_vars => RoundInv'
<1> SUFFICES ASSUME TypeOK, RoundInv, [Next]_vars, NEW T \in Copies'
             PROVE  InItsRound(T)
  BY DEF RoundInv
<1>1. now \in Nat /\ mem \in Copies /\ Copies \in SUBSET State
  BY CopiesType DEF TypeOK, Copies
<1>2. \A S \in Copies : InItsRound(S)
  BY DEF RoundInv
<1>3. InItsRound(InitialState)
  BY DEF InitialState, InItsRound
<1>4. \A S \in State : InItsRound(S) => InItsRound(Unexpired(S, now))
  BY <1>1, UnexpiredLemma DEF InItsRound
<1>5. ASSUME Handling PROVE InItsRound(mem') /\ mem' \in State
  <2>1. CASE Submitting
    BY <1>1, <1>2, <1>5, <2>1, TakenInItsRound, HandlingType
  <2>2. CASE Refusing \/ Crediting \/ Revoking
    <3>1. mem'.model = mem.model /\ mem'.pending \subseteq mem.pending
      BY <2>2, RefusingFacts, CreditingFacts, RevokingFacts DEF Without
    <3> QED
      BY <1>1, <1>2, <1>5, <3>1, HandlingType DEF InItsRound
  <2> QED
    BY <1>5, <2>1, <2>2 DEF Handling
<1> QED
  BY <1>1, <1>2, <1>3, <1>4, <1>5, CopiesStep

\* An update enters the global model at most once and does not wait again once
\* it was aggregated, however often its call is delivered, before and after
\* restarts and rollbacks, its nonce retained or already forgotten.
THEOREM UpdatesAreAggregatedOnce == Spec => []AggregatedAtMostOnce
<1>1. Init => RoundInv
  BY SMT DEF Init, NoCall, InitialState, RoundInv, Copies, InItsRound
<1>2. TypeOK /\ RoundInv => AggregatedAtMostOnce
  <2> SUFFICES ASSUME TypeOK, RoundInv, NEW S \in {mem} \cup disk
               PROVE  /\ \A x, y \in S.model.inputs : x.update = y.update => x = y
                      /\ S.pending \cap ContributedTo(S.model) = {}
    BY DEF AggregatedAtMostOnce
  <2>1. S \in State /\ InItsRound(S)
    BY CopiesType DEF RoundInv, Copies
  <2> QED
    BY <2>1, InItsRoundOnce
<1> QED
  BY <1>1, <1>2, RoundStep, TypeCorrect, PTL DEF Spec

-----------------------------------------------------------------------------
(***************************************************************************)
(* Credentials.  IDs are drawn once, so that a retired ID can come back    *)
(* only with a copy of the state in which it was valid; and a node has one *)
(* entry, so that the one a submission was admitted by is not revoked.     *)
(***************************************************************************)
IdentityInv ==
    /\ now # 0
    /\ \A S \in Copies : Drawn(S.registrations, lastId) /\ NoneWaits(S)

\* Handlers that go on to commit are lawful.
LEMMA StartedLawful ==
    ASSUME TypeOK, RecoveryInv, IdentityInv, Crediting \/ Revoking \/ Submitting
    PROVE  Lawful
BY CreditingLawful, RevokingLawful, SubmittingLawful DEF RecoveryInv, IdentityInv, Copies

\* The clock and the IDs never go back.
LEMMA NeverBack ==
    ASSUME TypeOK, RecoveryInv, IdentityInv, [Next]_vars
    PROVE  /\ now' = now \/ now' = now + 1
           /\ lastId <= lastId'
<1>1. now \in Nat /\ lastId \in Nat
  BY DEF TypeOK
<1>2. CASE Handling
  <2>1. CASE Refusing
    BY <1>1, <2>1, RefusingFacts, SMT
  <2>2. CASE Crediting \/ Revoking \/ Submitting
    BY <1>1, <1>2, <2>2, HandlingType, StartedLawful DEF Lawful
  <2> QED
    BY <1>2, <2>1, <2>2 DEF Handling
<1>3. CASE ~Handling
  <2>1. lastId' = lastId /\ (now' = now \/ now' = now + 1)
    BY <1>3, NextCases
       DEF Handling, vars, Crash, Start, StartCommitted, StartFailed, Tick, Committed,
           CommitFailed, RestoreMemory, RolledBack, RollbackFailed, Serving, GetGlobalModel
  <2> QED
    BY <1>1, <2>1, SMT
<1> QED
  BY <1>2, <1>3

\* What has expired takes no revocation of a waiting update's node with it.
LEMMA UnexpiredIdentities ==
    ASSUME NEW S \in State, NEW t \in Nat, NEW k, Drawn(S.registrations, k), NoneWaits(S)
    PROVE  Drawn(Unexpired(S, t).registrations, k) /\ NoneWaits(Unexpired(S, t))
<1>1. /\ Unexpired(S, t).registrations \subseteq S.registrations
      /\ Unexpired(S, t).pending = S.pending
  BY UnexpiredLemma DEF LiveEntries
<1> QED
  BY <1>1 DEF Drawn, NoneWaits, RevokedNodes

\* Every step preserves it.
LEMMA IdentityStep ==
    TypeOK /\ RecoveryInv /\ IdentityInv /\ [Next]_vars => IdentityInv'
<1> SUFFICES ASSUME TypeOK, RecoveryInv, IdentityInv, [Next]_vars PROVE IdentityInv'
  OBVIOUS
<1> DEFINE Fine(S) == Drawn(S.registrations, lastId') /\ NoneWaits(S)
<1>1. /\ now \in Nat /\ lastId \in Nat /\ lastId' \in Nat
      /\ mem \in Copies /\ Copies \in SUBSET State
  BY CopiesType, TypeStep DEF TypeOK, Copies
<1>2. now' # 0 /\ lastId <= lastId'
  BY <1>1, NeverBack, SMT DEF IdentityInv
<1>3. \A S \in Copies : Fine(S)
  <2> SUFFICES ASSUME NEW S \in Copies PROVE Fine(S)
    OBVIOUS
  <2>1. \A e \in S.registrations : e.id \in Nat /\ e.id <= lastId
    BY <1>1 DEF IdentityInv, Drawn, State, Registration
  <2> QED
    BY <1>1, <1>2, <2>1, SMT DEF IdentityInv, Drawn
<1>4. Fine(InitialState)
  BY DEF InitialState, Drawn, NoneWaits
<1>5. ASSUME Handling PROVE Fine(mem') /\ mem' \in State
  <2>1. CASE Refusing
    <3>1. /\ mem' \in State
          /\ mem'.registrations \subseteq mem.registrations /\ mem'.pending = mem.pending
      BY <2>1, RefusingFacts
    <3>2. Fine(mem)
      BY <1>1, <1>3
    <3> QED
      BY <3>1, <3>2 DEF Drawn, NoneWaits, RevokedNodes
  <2>2. CASE Crediting \/ Revoking \/ Submitting
    <3>1. Lawful /\ mem' \in State
      BY <1>5, <2>2, StartedLawful, HandlingType
    <3> QED
      BY <1>1, <3>1 DEF Lawful, IdentityInv
  <2> QED
    BY <1>5, <2>1, <2>2 DEF Handling
<1>6. ASSUME NEW T \in Copies' PROVE Fine(T)
  <2>1. \A S \in State : Fine(S) => Fine(Unexpired(S, now))
    BY <1>1, UnexpiredIdentities
  <2> HIDE DEF Fine
  <2> QED
    BY <1>1, <1>3, <1>4, <1>5, <2>1, CopiesStep
<1> QED
  BY <1>2, <1>6 DEF IdentityInv

\* The inductive invariant holds at all times.
LEMMA IdentityInvariant == Spec => []IdentityInv
<1>1. Init => IdentityInv
  <2>1. Drawn(InitialState.registrations, 0) /\ NoneWaits(InitialState)
    BY DEF InitialState, Drawn, NoneWaits
  <2> QED
    BY <2>1, SMT DEF Init, NoCall, IdentityInv, Copies
<1> QED
  BY <1>1, IdentityStep, TypeCorrect, RecoveryInvariant, PTL DEF Spec

\* No update of a node under an unexpired revocation waits to be aggregated,
\* in memory or in the store.
THEOREM RevokedNeverPending == Spec => []RevokedNotPending
<1>1. IdentityInv => RevokedNotPending
  BY DEF IdentityInv, Copies, NoneWaits, RevokedNodes, RevokedNotPending
<1> QED
  BY <1>1, IdentityInvariant, PTL

-----------------------------------------------------------------------------
(***************************************************************************)
(* Retired credentials.  While a commit is pending, memory and the state   *)
(* about to be written already honour what the call will promise.          *)
(***************************************************************************)
Retires(S, ids) == \A e \in S.registrations : e.id \in ids => Revoked(e)

RetirementInv ==
    /\ \A id \in acked.retired \cup call.promise.retired : id <= lastId
    /\ \A S \in Copies : Retires(S, acked.retired)
    /\ phase = "committing" =>
           Retires(mem, call.promise.retired) /\ Retires(call.after, call.promise.retired)

\* A snapshot retires what the state it was taken of retires.
LEMMA UnexpiredRetires ==
    ASSUME NEW S \in State, NEW t \in Nat, NEW ids, Retires(S, ids)
    PROVE  Retires(Unexpired(S, t), ids)
BY UnexpiredLemma DEF LiveEntries, Retires

\* What was retired stays so in every copy a step makes.
LEMMA CopiesRetire ==
    ASSUME TypeOK, RecoveryInv, IdentityInv, RetirementInv, [Next]_vars, NEW T \in Copies'
    PROVE  Retires(T, acked.retired)
<1>1. /\ now \in Nat /\ lastId \in Nat /\ mem \in Copies /\ Copies \in SUBSET State
      /\ \A id \in acked.retired : id \in Nat
  BY CopiesType DEF TypeOK, Copies, Promise
<1>2. Retires(InitialState, acked.retired)
  BY DEF InitialState, Retires
<1>3. ASSUME Handling PROVE Retires(mem', acked.retired) /\ mem' \in State
  <2>1. CASE Refusing
    BY <1>1, <2>1, RefusingFacts DEF RetirementInv, Retires
  <2>2. CASE Crediting \/ Revoking \/ Submitting
    <3>1. Lawful /\ mem' \in State
      BY <1>3, <2>2, StartedLawful, HandlingType
    <3>2. Continues(mem.registrations, mem'.registrations, lastId, now)
      BY <3>1 DEF Lawful
    <3>3. \A f \in mem'.registrations : f.id \in Nat
      BY <3>1 DEF State, Registration
    <3> QED
      BY <1>1, <3>1, <3>2, <3>3, SMT DEF Continues, RetirementInv, Retires
  <2> QED
    BY <1>3, <2>1, <2>2 DEF Handling
<1> QED
  BY <1>1, <1>2, <1>3, CopiesStep, UnexpiredRetires DEF RetirementInv

\* Every step preserves it.
LEMMA RetirementStep ==
    TypeOK /\ RecoveryInv /\ IdentityInv /\ RetirementInv /\ [Next]_vars => RetirementInv'
<1> SUFFICES ASSUME TypeOK, RecoveryInv, IdentityInv, RetirementInv, [Next]_vars
             PROVE  RetirementInv'
  OBVIOUS
<1>1. /\ now \in Nat /\ lastId \in Nat /\ lastId' \in Nat /\ lastId <= lastId'
      /\ \A id \in acked.retired \cup call.promise.retired : id \in Nat
  BY TypeStep, NeverBack DEF TypeOK, Promise
<1>2. NoCall.promise.retired = {}
  BY DEF NoCall, NoPromise
<1>3. \A T \in Copies' : Retires(T, acked.retired)
  BY CopiesRetire
<1>4. CASE Committed
  <2>1. /\ acked'.retired = acked.retired \cup call.promise.retired
        /\ phase' = "idle" /\ lastId' = lastId /\ call' = NoCall
        /\ Copies' = {mem, call.after, InitialState}
    BY <1>4 DEF Committed, Copies, NoCall
  <2>2. Retires(mem, acked'.retired) /\ Retires(call.after, acked'.retired)
    BY <1>4, <2>1 DEF Committed, RetirementInv, Retires, Copies
  <2>3. Retires(InitialState, acked'.retired)
    BY DEF InitialState, Retires
  <2> QED
    BY <1>2, <2>1, <2>2, <2>3 DEF RetirementInv
<1>5. CASE Crediting \/ Revoking \/ Submitting
  <2>1. Lawful /\ Started
    BY <1>5, StartedLawful, CreditingFacts, RevokingFacts, SubmittingFacts
  <2>2. Retires(mem', call'.promise.retired)
    BY <2>1 DEF Lawful, Retires
  <2>3. Retires(call'.after, call'.promise.retired)
    BY <1>1, <2>1, <2>2, UnexpiredRetires DEF Started, captureSnapshot
  <2>4. acked' = acked /\ \A id \in call'.promise.retired : id <= lastId'
    BY <2>1 DEF Started, Lawful
  <2>5. \A id \in acked.retired : id <= lastId'
    BY <1>1, SMT DEF RetirementInv
  <2> QED
    BY <1>3, <2>2, <2>3, <2>4, <2>5 DEF RetirementInv
<1>6. CASE ~Committed /\ ~(Crediting \/ Revoking \/ Submitting)
  <2>1. /\ acked' = acked /\ lastId' = lastId
        /\ call' = call \/ call' = NoCall
        /\ phase' = "committing" => phase = "committing" /\ mem' = mem /\ call' = call
    BY <1>6, NextCases, RefusingFacts
       DEF vars, history, Crash, Start, StartCommitted, StartFailed, Tick, CommitFailed,
           RestoreMemory, RolledBack, RollbackFailed, Serving, GetGlobalModel
  <2> QED
    BY <1>2, <1>3, <2>1 DEF RetirementInv
<1> QED
  BY <1>4, <1>5, <1>6

\* A credential that an acknowledged registration, rotation or revocation
\* replaced is revoked or gone in memory and in the store from then on.
THEOREM RetiredCredentialsStayRetired == Spec => []RetiredStaysRetired
<1>1. Init => RetirementInv
  <2>1. \A ids : Retires(InitialState, ids)
    BY DEF InitialState, Retires
  <2> QED
    BY <2>1, SMT DEF Init, NoCall, NoPromise, RetirementInv, Copies
<1>2. RetirementInv => RetiredStaysRetired
  BY DEF RetirementInv, Copies, Retires, RetiredStaysRetired
<1> QED
  BY <1>1, <1>2, RetirementStep, TypeCorrect, RecoveryInvariant, IdentityInvariant, PTL DEF Spec

-----------------------------------------------------------------------------
(***************************************************************************)
(* Revocations.  A promise blocked_until rests on a revoked entry of the   *)
(* node that lives as long.  Unlike a retired ID it must be present, in    *)
(* every copy that a rollback, a later commit or a restart may build on.   *)
(***************************************************************************)
Blocks(S, B, t) ==
    \A b \in B : t < b.until =>
        \E e \in S.registrations : e.node = b.node /\ Revoked(e) /\ b.until <= e.expiresAt

BlockInv ==
    /\ acked.blocked # {} => disk # {}
    /\ \A d \in disk : Blocks(d, acked.blocked, now)
    /\ phase # "down" => Blocks(mem, acked.blocked, now)
    /\ InFlight =>
           Blocks(call.before, acked.blocked, now) /\ Blocks(call.after, acked.blocked, now)
    /\ phase = "committing" =>
           /\ Blocks(mem, call.promise.blocked, now)
           /\ Blocks(call.after, call.promise.blocked, now)

\* As long as a promise counts, its entry is live, and every operation keeps it.
LEMMA BlocksContinue ==
    ASSUME NEW S \in State, NEW T \in State, NEW t \in Nat,
           NEW B \in SUBSET [node : Node, until : Nat], Blocks(S, B, t),
           \A e \in S.registrations : Revoked(e) /\ Live(e, t) => e \in T.registrations
    PROVE  Blocks(T, B, t)
<1> SUFFICES ASSUME NEW b \in B, t < b.until
             PROVE  \E e \in T.registrations :
                        e.node = b.node /\ Revoked(e) /\ b.until <= e.expiresAt
  BY DEF Blocks
<1>1. PICK e \in S.registrations : e.node = b.node /\ Revoked(e) /\ b.until <= e.expiresAt
  BY DEF Blocks
<1>2. b.until \in Nat /\ e.expiresAt \in Nat
  BY DEF State, Registration
<1>3. Live(e, t)
  BY <1>1, <1>2, SMT DEF Live
<1> QED
  BY <1>1, <1>3

\* So do captureSnapshot and restoreSnapshot.
LEMMA UnexpiredBlocks ==
    ASSUME NEW S \in State, NEW t \in Nat,
           NEW B \in SUBSET [node : Node, until : Nat], Blocks(S, B, t)
    PROVE  Blocks(captureSnapshot(S, t), B, t) /\ Blocks(restoreSnapshot(S, t), B, t)
<1>1. /\ Unexpired(S, t) \in State
      /\ \A e \in S.registrations : Live(e, t) => e \in Unexpired(S, t).registrations
  BY UnexpiredLemma DEF LiveEntries
<1> QED
  BY <1>1, BlocksContinue DEF captureSnapshot, restoreSnapshot

\* What blocks now blocks later, for what is left to block.
LEMMA BlocksLater ==
    ASSUME NEW S, NEW t \in Nat, NEW B \in SUBSET [node : Node, until : Nat],
           Blocks(S, B, t)
    PROVE  Blocks(S, B, t + 1)
<1>1. \A b \in B : t + 1 < b.until => t < b.until
  BY SMT
<1> QED
  BY <1>1 DEF Blocks

\* Every step preserves it.
LEMMA BlockStep ==
    TypeOK /\ RecoveryInv /\ IdentityInv /\ BlockInv /\ [Next]_vars => BlockInv'
<1> SUFFICES ASSUME TypeOK, RecoveryInv, IdentityInv, BlockInv, [Next]_vars
             PROVE  BlockInv'
  OBVIOUS
<1> DEFINE A == acked.blocked
<1>1. /\ mem \in State /\ now \in Nat /\ disk \in SUBSET State
      /\ call.before \in State /\ call.after \in State
      /\ A \in SUBSET [node : Node, until : Nat]
      /\ call.promise.blocked \in SUBSET [node : Node, until : Nat]
  BY DEF TypeOK, Promise
<1>2. CASE Crash
  BY <1>2 DEF Crash, BlockInv, InFlight
<1>3. CASE Start
  <2>1. Blocks(mem', A, now)
    <3>1. CASE disk = {}
      BY <3>1 DEF BlockInv, Blocks
    <3>2. ASSUME NEW d \in disk, mem' = restoreSnapshot(d, now) PROVE Blocks(mem', A, now)
      BY <1>1, <3>2, UnexpiredBlocks DEF BlockInv
    <3> QED
      BY <1>3, <3>1, <3>2 DEF Start
  <2> QED
    BY <1>3, <2>1 DEF Start, BlockInv, InFlight, history
<1>4. CASE StartCommitted \/ StartFailed
  <2>1. Blocks(captureSnapshot(mem, now), A, now)
    BY <1>1, <1>4, UnexpiredBlocks DEF StartCommitted, StartFailed, BlockInv
  <2>2. disk' = disk \/ disk' = {captureSnapshot(mem, now)}
    BY <1>4 DEF StartCommitted, StartFailed
  <2>3. phase' = "down" \/ (phase' = "idle" /\ mem' = mem /\ phase = "starting")
    BY <1>4 DEF StartCommitted, StartFailed
  <2>4. acked' = acked /\ now' = now
    BY <1>4 DEF StartCommitted, StartFailed, history
  <2> QED
    BY <2>1, <2>2, <2>3, <2>4 DEF BlockInv, InFlight
<1>5. CASE Tick
  <2>1. now' = now + 1 /\ UNCHANGED <<phase, mem, disk, call, acked>>
    BY <1>5 DEF Tick, history
  <2> QED
    BY <1>1, <2>1, BlocksLater DEF BlockInv, InFlight
<1>6. CASE Committed
  <2>1. acked'.blocked = A \cup call.promise.blocked /\ now' = now
    BY <1>6 DEF Committed
  <2>2. /\ Blocks(call.after, A, now) /\ Blocks(call.after, call.promise.blocked, now)
        /\ Blocks(mem, A, now) /\ Blocks(mem, call.promise.blocked, now)
    BY <1>6 DEF Committed, BlockInv, InFlight
  <2>3. Blocks(call.after, acked'.blocked, now) /\ Blocks(mem, acked'.blocked, now)
    BY <2>1, <2>2 DEF Blocks
  <2> QED
    BY <1>6, <2>1, <2>3 DEF Committed, BlockInv, InFlight
<1>7. CASE CommitFailed
  BY <1>7 DEF CommitFailed, BlockInv, InFlight, history
<1>8. CASE RestoreMemory
  <2>1. mem' = restoreSnapshot(call.before, now) /\ phase' = "rolling back" /\ call' = call
        /\ disk' = disk /\ acked' = acked /\ now' = now /\ phase = "restoring"
    BY <1>8 DEF RestoreMemory, RecoveryInv, history
  <2>2. Blocks(mem', A, now)
    BY <1>1, <2>1, UnexpiredBlocks DEF BlockInv, InFlight
  <2> QED
    BY <2>1, <2>2 DEF BlockInv, InFlight
<1>9. CASE RolledBack \/ RollbackFailed
  <2>1. Blocks(call.before, A, now) /\ Blocks(mem, A, now)
    BY <1>9 DEF RolledBack, RollbackFailed, BlockInv, InFlight
  <2> QED
    BY <1>9, <2>1 DEF RolledBack, RollbackFailed, BlockInv, InFlight
<1>10. CASE Refusing
  <2>1. phase = "idle" /\ UNCHANGED <<phase, disk, now, call, acked>> /\ mem' \in State
    BY <1>10, RefusingFacts
  <2>2. \A e \in mem.registrations : Live(e, now) => e \in mem'.registrations
    BY <1>10, RefusingFacts DEF LiveEntries
  <2>3. Blocks(mem', A, now)
    BY <1>1, <2>1, <2>2, BlocksContinue DEF BlockInv
  <2> QED
    BY <2>1, <2>3 DEF BlockInv, InFlight
<1>11. CASE Crediting \/ Revoking \/ Submitting
  <2>1. Lawful /\ Started
    BY <1>11, StartedLawful, CreditingFacts, RevokingFacts, SubmittingFacts
  <2>2. /\ phase = "idle" /\ phase' = "committing" /\ mem' \in State
        /\ UNCHANGED <<disk, acked, now>>
        /\ call'.before = captureSnapshot(mem, now)
        /\ call'.after = captureSnapshot(mem', now)
    BY <2>1 DEF Started
  <2>3. call'.promise.blocked \in SUBSET [node : Node, until : Nat]
    BY TypeStep DEF TypeOK, Promise
  <2>4. Blocks(mem, A, now)
    BY <2>2 DEF BlockInv
  <2>5. Blocks(mem', A, now)
    BY <1>1, <2>1, <2>2, <2>4, BlocksContinue DEF Lawful, Continues
  <2>6. Blocks(mem', call'.promise.blocked, now)
    BY <2>1 DEF Lawful, Blocks
  <2>7. Blocks(call'.before, A, now) /\ Blocks(call'.after, A, now)
        /\ Blocks(call'.after, call'.promise.blocked, now)
    BY <1>1, <2>2, <2>3, <2>4, <2>5, <2>6, UnexpiredBlocks
  <2> QED
    BY <2>2, <2>5, <2>6, <2>7 DEF BlockInv, InFlight
<1>12. CASE Serving
  BY <1>12 DEF Serving, GetGlobalModel, BlockInv, InFlight
<1>13. CASE UNCHANGED vars
  BY <1>13 DEF vars, BlockInv, InFlight
<1> QED
  BY <1>2, <1>3, <1>4, <1>5, <1>6, <1>7, <1>8, <1>9, <1>10, <1>11, <1>12, <1>13, NextCases

\* An acknowledged revocation keeps its promise blocked_until, across failed
\* commits, rollbacks and restarts.
THEOREM RevocationsHold == Spec => []RevocationHolds
<1>1. Init => BlockInv
  <2> SUFFICES ASSUME Init PROVE BlockInv
    OBVIOUS
  <2>1. phase = "down" /\ disk = {} /\ acked.blocked = {}
    BY DEF Init, NoPromise
  <2> QED
    BY <2>1 DEF BlockInv, InFlight
<1>2. BlockInv => RevocationHolds
  BY DEF BlockInv, Blocks, RevocationHolds
<1> QED
  BY <1>1, <1>2, BlockStep, TypeCorrect, RecoveryInvariant, IdentityInvariant, PTL DEF Spec

-----------------------------------------------------------------------------
(***************************************************************************)
(* Quorums.                                                                *)
(***************************************************************************)
UpdatesOf(m, k) == {x.update : x \in {y \in m.inputs : y.round = k}}

\* RoundsAreQuorums of one model.  A model that has a round has a payload, so
\* that the next update must have its length.
Quorate(m) ==
    /\ \A x \in m.inputs : x.round \in 1 .. m.round
    /\ \A k \in 1 .. m.round :
        /\ Cardinality(UpdatesOf(m, k)) = MinUpdates
        /\ OneEach(UpdatesOf(m, k))
        /\ SameLength(UpdatesOf(m, k), m.length)
    /\ m.round > 0 => m.length # 0

QuorumInv == \A S \in Copies : Quorate(S.model)

\* A quorum of updates of one length makes the next model.
LEMMA NextRound ==
    ASSUME NEW m \in Model, Quorate(m), NEW U \in SUBSET Request,
           Cardinality(U) = MinUpdates, OneEach(U),
           NEW len \in Nat \ {0}, SameLength(U, len), m.length \in {0, len}
    PROVE  Quorate(NextModel(m, U, len))
<1> DEFINE k == m.round + 1
           new == {[round |-> k, update |-> u] : u \in U}
           N == NextModel(m, U, len)
<1>1. N.inputs = m.inputs \cup new /\ N.round = k /\ N.length = len
  BY DEF NextModel
<1>2. m.round \in Nat /\ \A x \in m.inputs : x.round \in 1 .. m.round
  BY DEF Model, Quorate
<1>3. UpdatesOf(N, k) = U
  <2>1. {y \in N.inputs : y.round = k} = new
    BY <1>1, <1>2, SMT
  <2>2. \A u \in U : [round |-> k, update |-> u] \in new
    OBVIOUS
  <2>3. \A x \in new : x.update \in U
    BY SMT
  <2>4. {x.update : x \in new} = U
    <3>1. ASSUME NEW u \in U PROVE u \in {x.update : x \in new}
      <4>1. [round |-> k, update |-> u].update = u
        OBVIOUS
      <4> QED
        BY <2>2, <4>1
    <3> QED
      BY <2>3, <3>1
  <2> QED
    BY <2>1, <2>4 DEF UpdatesOf
<1>4. ASSUME NEW j \in 1 .. m.round
      PROVE  UpdatesOf(N, j) = UpdatesOf(m, j) /\ m.length = len
  <2>1. {y \in N.inputs : y.round = j} = {y \in m.inputs : y.round = j}
    BY <1>1, <1>2, SMT
  <2> QED
    BY <1>2, <2>1, SMT DEF UpdatesOf, Quorate
<1>5. \A x \in N.inputs : x.round \in 1 .. N.round
  <2>1. \A x \in new : x.round = k
    BY SMT
  <2>2. \A n \in Nat : n + 1 \in 1 .. (n + 1) /\ \A j \in 1 .. n : j \in 1 .. (n + 1)
    BY SMT
  <2> QED
    BY <1>1, <1>2, <2>1, <2>2
<1>6. ASSUME NEW j \in 1 .. N.round
      PROVE  /\ Cardinality(UpdatesOf(N, j)) = MinUpdates
             /\ OneEach(UpdatesOf(N, j))
             /\ SameLength(UpdatesOf(N, j), N.length)
  <2>1. CASE j = k
    BY <1>1, <1>3, <2>1
  <2>2. CASE j \in 1 .. m.round
    BY <1>1, <1>4, <2>2, SMT DEF Quorate
  <2> QED
    BY <1>1, <1>2, <2>1, <2>2, SMT
<1> QED
  BY <1>1, <1>5, <1>6 DEF Quorate

F == INSTANCE FiniteSetTheorems

\* The update that completes the quorum makes it exactly.
LEMMA QuorumIsExact ==
    ASSUME NEW P \in SUBSET Request, NEW r \in Request,
           \A u \in P : u.node # r.node,
           OneEach(P), Cardinality(P) < MinUpdates, Cardinality(Put(P, r)) >= MinUpdates
    PROVE  OneEach(Put(P, r)) /\ Cardinality(Put(P, r)) = MinUpdates
<1>1. Put(P, r) = P \cup {r} /\ r \notin P
  BY DEF Put, Without
<1>2. F!IsFiniteSet(P) /\ F!Cardinality(P) \in Nat
  <2>1. IsFiniteSet(Request)
    BY CoordinatorAssumption
  <2>2. F!IsFiniteSet(Request)
    BY <2>1 DEF IsFiniteSet, F!IsFiniteSet
  <2> QED
    BY <2>2, F!FS_Subset, F!FS_CardinalityType
<1>3. F!Cardinality(P \cup {r}) = F!Cardinality(P) + 1
  BY <1>1, <1>2, F!FS_AddElement
<1>4. \A S : F!Cardinality(S) = Cardinality(S)
  BY DEF F!Cardinality, Cardinality
<1>5. OneEach(P \cup {r})
  BY DEF OneEach
<1>6. /\ Cardinality(P) \in Nat /\ MinUpdates \in Nat
      /\ Cardinality(Put(P, r)) = Cardinality(P) + 1
  BY <1>1, <1>2, <1>3, <1>4, CoordinatorAssumption
<1>7. Cardinality(Put(P, r)) = MinUpdates
  BY <1>6, SMT
<1> QED
  BY <1>1, <1>5, <1>7

\* A new coordinator has completed no round.
LEMMA QuorateAtFirst == Quorate(InitialState.model)
<1>1. InitialState.model.round = 0 /\ InitialState.model.inputs = {}
  BY SMT DEF InitialState
<1>2. (\A k : k \notin 1 .. 0) /\ ~(0 > 0)
  BY SMT
<1> QED
  BY <1>1, <1>2 DEF Quorate

\* Every step preserves the quorums of every copy.
LEMMA QuorumStep == TypeOK /\ RecoveryInv /\ QuorumInv /\ [Next]_vars => QuorumInv'
<1> SUFFICES ASSUME TypeOK, RecoveryInv, QuorumInv, [Next]_vars,
                    NEW T \in Copies'
             PROVE  Quorate(T.model)
  BY DEF QuorumInv
<1>1. mem \in State /\ mem.model \in Model /\ mem.pending \in SUBSET Request
      /\ now \in Nat /\ mem \in Copies
  <2>1. mem \in State /\ now \in Nat
    BY DEF TypeOK
  <2> QED
    BY <2>1 DEF State, Copies
<1>2. Quorate(InitialState.model)
  BY QuorateAtFirst
<1>3. \A S \in State : Unexpired(S, now).model = S.model
  BY <1>1, UnexpiredLemma
<1>4. ASSUME Handling PROVE Quorate(mem'.model) /\ mem' \in State
  <2>1. CASE mem'.model = mem.model
    BY <1>1, <1>4, <2>1, HandlingType DEF QuorumInv
  <2>2. CASE Submitting
    <3>1. PICK r \in Request :
            /\ Acceptable(r)
            /\ \/ mem'.model = mem.model
               \/ /\ mem'.model = NextModel(mem.model, Put(mem.pending, r), r.length)
                  /\ Completes(r)
                  /\ SameLength(Put(mem.pending, r), r.length)
      BY <2>2, SubmittingFacts
    <3>2. CASE mem'.model # mem.model
      <4>1. OneEach(Put(mem.pending, r)) /\ Cardinality(Put(mem.pending, r)) = MinUpdates
        <5>1. \A u \in mem.pending : u.node # r.node
          BY <3>1 DEF Acceptable
        <5>2. OneEach(mem.pending) /\ Cardinality(mem.pending) < MinUpdates
          BY <1>4, HandlingType DEF RecoveryInv, Sound, Few
        <5>3. Cardinality(Put(mem.pending, r)) >= MinUpdates
          BY <3>1, <3>2 DEF Completes
        <5> QED
          BY <1>1, <5>1, <5>2, <5>3, QuorumIsExact
      <4>2. Put(mem.pending, r) \in SUBSET Request
        BY <1>1 DEF Put, Without
      <4>3. r.length \in Nat \ {0}
        BY CoordinatorAssumption
      <4> QED
        BY <1>1, <1>4, <3>1, <3>2, <4>1, <4>2, <4>3, NextRound, HandlingType
           DEF QuorumInv, Acceptable
    <3> QED
      BY <2>1, <3>2
  <2> QED
    BY <1>4, <2>1, <2>2, RefusingFacts, CreditingFacts, RevokingFacts DEF Handling
<1> QED
  BY <1>2, <1>3, <1>4, CopiesStep, CopiesType DEF QuorumInv

\* Every round of every model in memory and in the store is made of exactly
\* MinUpdates updates, of different nodes and all of the model's length.
THEOREM RoundsAreAlwaysQuorums == Spec => []RoundsAreQuorums
<1>1. Init => QuorumInv
  <2> SUFFICES ASSUME Init, NEW S \in Copies PROVE Quorate(S.model)
    BY DEF QuorumInv
  <2>1. S = InitialState
    BY DEF Init, NoCall, Copies
  <2> QED BY <2>1, QuorateAtFirst
<1>2. QuorumInv => RoundsAreQuorums
  <2> SUFFICES ASSUME QuorumInv,
                      NEW m \in {mem.model} \cup {d.model : d \in disk}
               PROVE  /\ \A x \in m.inputs : x.round \in 1 .. m.round
                      /\ \A k \in 1 .. m.round :
                          /\ Cardinality(UpdatesOf(m, k)) = MinUpdates
                          /\ OneEach(UpdatesOf(m, k))
                          /\ SameLength(UpdatesOf(m, k), m.length)
    BY DEF RoundsAreQuorums, UpdatesOf, OneEach
  <2>1. Quorate(m)
    BY DEF QuorumInv, Copies
  <2> QED
    BY <2>1 DEF Quorate
<1> QED
  BY <1>1, <1>2, QuorumStep, TypeCorrect, RecoveryInvariant, PTL DEF Spec
=============================================================================
