----------------------------- MODULE MCAlgorithms -----------------------------
(***************************************************************************)
(* The computations around a round on small inputs: Aggregation,           *)
(* Partitioner and SecureMean.  They share no state; a behaviour is one    *)
(* call of one of them.                                                    *)
(***************************************************************************)
EXTENDS Aggregation

VARIABLES
  task,                                               \* which of them is called
  job, pc, error, attempt, classes, parts, fallback,  \* Partitioner
  updates, mean                                       \* SecureMean

\* Aggregation: three values of an update, quorums of three to five workers; f,
\* k and beta inside and outside what AggregationConfig accepts.
MCValues == {0, 1, 3}
MCMinima == 3 .. 5
MCMethods == {"mean", "median", "trimmed_mean", "krum", "multi_krum"}
MCFs == {-1, 0, 1}
MCKs == {0, 1, 2}
MCBetas == {0, 20, 45, 50}
MCSamples == <<2, 1, 3, 1, 2>>

\* A round of twenty, where 0.35 as a float trims six and not seven at each end.
W == INSTANCE Aggregation WITH
  Values <- {0, 1}, Clients <- 20, Minima <- {20}, Methods <- {"trimmed_mean"}, Fs <- {}, Ks <- {},
  Betas <- {20, 35}, Samples <- [i \in 1 .. 20 |-> 1]

\* The trimmed mean does not depend on the order of the results.
Ordered(rs) ==
  LET key(r) == 2 * r.value + (IF r.malicious THEN 1 ELSE 0)
  IN \A i \in 2 .. Len(rs) : key(rs[i - 1]) <= key(rs[i])

\* Partitioner: no samples, one class, even and skewed classes, a class per sample.
MCLabelSets == {<<>>, <<0, 0, 0>>, <<1, 0, 1, 0>>, <<2, 0, 0, 0>>, <<2, 1, 0>>, <<0, 1, 0, 2, 1>>}

P == INSTANCE Partitioner WITH
  LabelSets <- MCLabelSets, MaxClients <- 3, MaxMinimum <- 2, MaxRetries <- 2

\* SecureMean: updates around a slot count of 2, namely shorter than a chunk, a
\* whole chunk and one more value twice, and two whole chunks; one client has no
\* samples and one has no update.
MCVectors == [p |-> <<3>>, q |-> <<1, -2, 5>>, r |-> <<2, 0, -1>>, s |-> <<4, 1, 1, 7>>,
              y |-> <<>>, z |-> <<1>>]
MCWeights == [p |-> 2, q |-> 3, r |-> 1, s |-> 2, y |-> 1, z |-> 0]

S == INSTANCE SecureMean WITH
  Clients <- {"p", "q", "r", "s", "y", "z"}, Vectors <- MCVectors, Weights <- MCWeights,
  Slots <- 2, MaxUpdates <- 5

ASSUME P!PartitionerAssumption /\ S!SecureMeanAssumption /\ W!AggregationAssumption

MCInit ==
  \/ /\ task = "aggregate" /\ AggregationInit /\ S!Init /\ P!Init
     /\ job = [targets |-> <<>>, strategy |-> "iid", clients |-> 0, minimum |-> 0]
  \/ /\ task = "many" /\ W!AggregationInit /\ S!Init /\ P!Init
     /\ origin = "given"
     /\ job = [targets |-> <<>>, strategy |-> "iid", clients |-> 0, minimum |-> 0]
  \/ /\ task = "partition" /\ P!Init /\ S!Init /\ AggregationInit
     /\ origin = "given"
     /\ config = [method |-> "mean", f |-> 0, k |-> 1, beta |-> 20, minimum |-> 3]
  \/ /\ task = "secure" /\ S!Init /\ AggregationInit /\ P!Init
     /\ origin = "given"
     /\ config = [method |-> "mean", f |-> 0, k |-> 1, beta |-> 20, minimum |-> 3]
     /\ job = [targets |-> <<>>, strategy |-> "iid", clients |-> 0, minimum |-> 0]

partitionVars == <<job, pc, error, attempt, classes, parts, fallback>>
secureVars == <<updates, mean>>

MCNext ==
  \/ task = "aggregate" /\ AggregationNext /\ UNCHANGED <<task, partitionVars, secureVars>>
  \/ /\ task = "many" /\ W!AggregationNext /\ Ordered(results')
     /\ UNCHANGED <<task, partitionVars, secureVars>>
  \/ task = "partition" /\ P!Next /\ UNCHANGED <<task, aggregationVars, secureVars>>
  \/ task = "secure" /\ S!Next /\ UNCHANGED <<task, aggregationVars, partitionVars>>

MCSpec == MCInit /\ [][MCNext]_<<task, aggregationVars, partitionVars, secureVars>>

-----------------------------------------------------------------------------

\* partition_dataset deals every sample to exactly one client and no client less
\* than it was promised; iid shares differ by at most one sample, balanced shares
\* stay within one class of the average, and there are at most max_retries
\* attempts.  The closing check of dirichlet_partition finds nothing.
PartitionIsExact ==
  /\ P!TypeOK /\ P!ExactCover /\ P!CoverageAlwaysHolds
  /\ P!EveryClientHasEnough /\ P!IidIsEven /\ P!BalancedStaysNear

\* What decrypt_weighted_mean returns is the weighted FedAvg of the clients in the
\* ciphertext, however the server nested its additions; the padding behind the
\* declared size stays zero, and every sum the server forms can be decrypted.
DecryptsToFedAvg ==
  S!TypeOK /\ S!DecryptsToFedAvg /\ S!PaddingStaysZero /\ S!AlwaysDecryptable

=============================================================================
