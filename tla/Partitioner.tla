----------------------------- MODULE Partitioner -----------------------------
(***************************************************************************)
(* How a data set's samples are dealt to the clients                       *)
(* (fl/zerotrust_fl/data/partitioner.py).  The IID strategy cuts one       *)
(* shuffle into almost equal pieces; the Dirichlet strategies deal one     *)
(* class after the other, start over when some client got too little, and  *)
(* give up after max_retries attempts.                                     *)
(*                                                                         *)
(* Samples are the positions of the label sequence.  A random draw is any  *)
(* outcome it can have: a shuffle is any order, Dirichlet proportions are  *)
(* the set of clients they give weight to (a component can underflow to    *)
(* 0), a multinomial draw is any counts on that set with the right sum.    *)
(* The final shuffle of a share is left out: shares are kept sorted.       *)
(***************************************************************************)
EXTENDS Integers, Sequences, FiniteSets, FiniteSetsExt, SequencesExt

CONSTANTS
  LabelSets,    \* the label sequences a data set may have
  MaxClients,   \* bound on num_clients
  MaxMinimum,   \* bound on min_samples_per_client
  MaxRetries    \* max_retries

\* What the constants stand for; assumed where they get their values.
PartitionerAssumption ==
  /\ \A targets \in LabelSets : targets \in Seq(Nat)
  /\ MaxClients \in Nat
  /\ MaxMinimum \in Nat
  /\ MaxRetries \in Nat \ {0}

Strategies == {"iid", "dirichlet", "dirichlet_raw"}

VARIABLES
  job,        \* the arguments: targets, strategy, clients, minimum
  pc,         \* "start", "iid", "class", "attempt", "done" or "error"
  error,      \* why it raised, "" when it did not
  attempt,    \* attempts begun
  classes,    \* the classes still to deal, in ascending order
  parts,      \* client_indices: the samples of every client, a sequence
  fallback    \* ghost: some class of this attempt was dealt with equal weights

vars == <<job, pc, error, attempt, classes, parts, fallback>>

N == Len(job.targets)
ClientIds == 0..(job.clients - 1)

\* client_sizes
Size(c) == Len(parts[c])

\* class_indices
OfClass(k) == {i \in 1..N : job.targets[i] = k}

Orders(S) == {s \in [1..Cardinality(S) -> S] : IsInjective(s)}

-----------------------------------------------------------------------------

Init ==
  /\ job \in [targets : LabelSets, strategy : Strategies, clients : 0..MaxClients, minimum : 0..MaxMinimum]
  /\ pc = "start"
  /\ error = ""
  /\ attempt = 0
  /\ classes = <<>>
  /\ parts = <<>>
  /\ fallback = FALSE

Raise(why) == pc' = "error" /\ error' = why

\* _validate_client_count.
ClientCountValid == job.clients > 0 /\ job.clients <= N

\* The minimum the Dirichlet strategies check against the data set.
MinimumValid == job.minimum * job.clients <= N

\* partition_dataset, the argument checks and the dispatch.
Start ==
  /\ pc = "start"
  /\ \/ N = 0 /\ Raise("empty label set")
     \/ N > 0 /\ ~ClientCountValid /\ Raise("client count")
     \/ N > 0 /\ ClientCountValid /\ job.strategy # "iid" /\ ~MinimumValid /\ Raise("minimum")
     \/ /\ N > 0 /\ ClientCountValid
        /\ job.strategy = "iid" \/ MinimumValid
        /\ pc' = (IF job.strategy = "iid" THEN "iid" ELSE "attempt")
        /\ UNCHANGED error
  /\ UNCHANGED <<job, attempt, classes, parts, fallback>>

\* Mutant: every piece takes the rounded-down share.
Cut_DropsRest(s, k, c) ==
  LET share == Len(s) \div k
  IN SubSeq(s, c * share + 1, (c + 1) * share)

\* np.array_split: the first Len % k pieces are one longer than the others.
Cut(s, k, c) ==
  LET share == Len(s) \div k
      longer == Len(s) % k
      from == c * share + Min({c, longer})
  IN SubSeq(s, from + 1, from + share + (IF c < longer THEN 1 ELSE 0))

\* iid_partition: one shuffle, cut; every piece is sorted.
Iid ==
  /\ pc = "iid"
  /\ \E s \in Orders(1..N) :
       parts' = [c \in ClientIds |-> SortSeq(Cut(s, job.clients, c), <)]
  /\ pc' = "done"
  /\ UNCHANGED <<job, error, attempt, classes, fallback>>

\* The next attempt of dirichlet_partition, if one is left.
Attempt ==
  /\ pc = "attempt"
  /\ IF attempt = MaxRetries
     THEN /\ Raise("retries")
          /\ UNCHANGED <<attempt, classes, parts, fallback>>
     ELSE /\ pc' = "class"
          /\ attempt' = attempt + 1
          /\ classes' = SetToSortSeq(Range(job.targets), <)
          /\ parts' = [c \in ClientIds |-> <<>>]
          /\ fallback' = FALSE
          /\ UNCHANGED error
  /\ UNCHANGED job

\* under_target: client_sizes < len(targets) / num_clients.
UnderTarget == {c \in ClientIds : Size(c) * job.clients < N}

\* The clients a draw with this support gives weight to once the balancing
\* mask was applied; nobody left means equal weights for everyone.
Weighted(support) ==
  IF job.strategy = "dirichlet" /\ UnderTarget # {}
  THEN IF support \cap UnderTarget # {} THEN support \cap UnderTarget ELSE ClientIds
  ELSE support

\* multinomial: n trials over the clients that have weight.
Multinomial(n, weighted) ==
  {counts \in [ClientIds -> 0..n] :
     /\ \A c \in ClientIds \ weighted : counts[c] = 0
     /\ MapThenSumSet(LAMBDA c : counts[c], ClientIds) = n}

\* The slice between two offsets of the shuffled class.
Chunk(s, counts, c) ==
  LET from == MapThenSumSet(LAMBDA d : counts[d], 0..(c - 1))
  IN SubSeq(s, from + 1, from + counts[c])

\* One turn of the loop over the classes.
DealClass ==
  /\ pc = "class" /\ classes # <<>>
  /\ \E s \in Orders(OfClass(Head(classes))), support \in SUBSET ClientIds \ {{}} :
       /\ \E counts \in Multinomial(Len(s), Weighted(support)) :
            parts' = [c \in ClientIds |-> SortSeq(parts[c] \o Chunk(s, counts, c), <)]
       /\ fallback' = (fallback \/ Weighted(support) \ support # {})
  /\ classes' = Tail(classes)
  /\ UNCHANGED <<job, pc, error, attempt>>

\* np.min(client_sizes) >= min_samples_per_client.
Enough == Min({Size(c) : c \in ClientIds}) >= job.minimum

\* _validate_partition_coverage.
Covered ==
  LET merged == FlattenSeq([i \in 1..job.clients |-> parts[i - 1]])
  IN /\ Len(merged) = N
     /\ Cardinality(Range(merged)) = N
     /\ Range(merged) \subseteq 1..N

\* The end of an attempt: too little for some client, or the merged and
\* shuffled shares, which are checked before they are returned.
EndAttempt ==
  /\ pc = "class" /\ classes = <<>>
  /\ pc' = CASE ~Enough -> "attempt"
             [] Enough /\ Covered -> "done"
             [] OTHER -> "error"
  /\ error' = IF Enough /\ ~Covered THEN "coverage" ELSE error
  /\ UNCHANGED <<job, attempt, classes, parts, fallback>>

Next == Start \/ Iid \/ Attempt \/ DealClass \/ EndAttempt

Spec == Init /\ [][Next]_vars
FairSpec == Spec /\ WF_vars(Next)

-----------------------------------------------------------------------------

\* An error is reported exactly when the call raised; no attempt beyond max_retries.
TypeOK ==
  /\ job \in [targets : LabelSets, strategy : Strategies, clients : 0..MaxClients, minimum : 0..MaxMinimum]
  /\ pc \in {"start", "iid", "attempt", "class", "done", "error"}
  /\ error \in {"", "empty label set", "client count", "minimum", "retries", "coverage"}
  /\ (pc = "error") <=> (error # "")
  /\ attempt \in 0..MaxRetries
  /\ Range(classes) \subseteq Range(job.targets)
  /\ parts = <<>> \/ (DOMAIN parts = ClientIds /\ \A c \in ClientIds : parts[c] \in Seq(1..N))
  /\ fallback \in BOOLEAN

\* Every sample is dealt exactly once, whatever the strategy
\* (dirichlet_partition's docstring: "every source sample is assigned exactly
\* once"); the IID path returns without any check of its own.
ExactCover ==
  pc = "done" =>
    \A i \in 1..N :
      MapThenSumSet(LAMBDA c : Cardinality({n \in 1..Size(c) : parts[c][n] = i}), ClientIds) = 1

\* The closing check of dirichlet_partition never raises: the slices of every
\* class and the restarts of the loop leave nothing for it to find.
CoverageAlwaysHolds == error # "coverage"

\* No client is left without the samples it was promised: the minimum of the
\* Dirichlet strategies, at least one sample under IID.
EveryClientHasEnough ==
  pc = "done" =>
    \A c \in ClientIds : Size(c) >= (IF job.strategy = "iid" THEN 1 ELSE job.minimum)

\* IID shares differ by at most one sample.
IidIsEven ==
  (pc = "done" /\ job.strategy = "iid") =>
    \A c, d \in ClientIds : Size(c) - Size(d) <= 1

\* What the balancing mask is worth over a whole deal ("suppresses allocations
\* to clients already above the average target size"): no share exceeds the
\* average by as much as the largest class, unless some draw gave no weight
\* to any client below the average.
BalancedStaysNear ==
  (pc \in {"class", "done"} /\ job.strategy = "dirichlet" /\ ~fallback) =>
    \A c \in ClientIds :
      (Size(c) - Max({Cardinality(OfClass(k)) : k \in Range(job.targets)})) * job.clients < N

=============================================================================
