------------------------------ MODULE SecureMean ------------------------------
(***************************************************************************)
(* Additive secure aggregation (fl/zerotrust_fl/privacy/ckks.py over       *)
(* cpp/src/ckks_secure_aggregation.cpp).  Clients scale their update by    *)
(* their weight and encrypt it in chunks of as many values as a ciphertext *)
(* has slots; the server adds ciphertexts, and may add sums again; the     *)
(* decryptor joins the chunks, drops the padding and divides by the        *)
(* summed weight.                                                          *)
(*                                                                         *)
(* A ciphertext chunk is the vector of its slots: encoding pads with zeros *)
(* and addition is slot by slot.  Noise, keys and serialisation are left   *)
(* out; integers stand for the fixed-point values.                         *)
(***************************************************************************)
EXTENDS Integers, Sequences, FiniteSets, FiniteSetsExt, SequencesExt

CONSTANTS
  Clients,    \* the participants
  Vectors,    \* Vectors[c]: the model update of client c
  Weights,    \* Weights[c]: its weight
  Slots,      \* slot_count
  MaxUpdates  \* bound: ciphertexts in circulation

\* What the constants stand for; assumed where they get their values.
SecureMeanAssumption ==
  /\ Vectors \in [Clients -> Seq(Int)]
  /\ Weights \in [Clients -> Int]
  /\ Slots \in Nat \ {0}
  /\ MaxUpdates \in Nat

VARIABLES
  updates,   \* the EncryptedUpdates in circulation: chunks, size, weight; ghost: leaves
  mean       \* what the decryptor returned last: sum and weight; ghost: leaves

vars == <<updates, mean>>

None == [sum |-> <<>>, weight |-> 0, leaves |-> <<>>]

Init == updates = {} /\ mean = None

\* encoder.encode: one chunk, the slots past its length are zero.
Encode(chunk) == [i \in 1..Slots |-> IF i <= Len(chunk) THEN chunk[i] ELSE 0]

ChunkCount(n) == (n + Slots - 1) \div Slots

\* ckks_encrypt: a chunk per Slots values, the last one shorter.
CkksEncrypt(values) ==
  [k \in 1..ChunkCount(Len(values)) |->
     Encode(SubSeq(values, (k - 1) * Slots + 1, Min({k * Slots, Len(values)})))]

\* CKKSClientEncryptor.encrypt.  An update may be encrypted more than once.
Encrypt(c) ==
  /\ Cardinality(updates) < MaxUpdates
  /\ Weights[c] > 0                              \* weight must be positive
  /\ Len(Vectors[c]) > 0                         \* update must not be empty
  /\ LET weighted == [i \in 1..Len(Vectors[c]) |-> Vectors[c][i] * Weights[c]]
     IN updates' = updates \cup
          {[chunks |-> CkksEncrypt(weighted), size |-> Len(weighted),
            weight |-> Weights[c], leaves |-> <<c>>]}
  /\ UNCHANGED mean

\* ckks_add_ciphertext_sets, on as many chunks everywhere.
CkksAdd(us) ==
  [k \in 1..Len(us[1].chunks) |->
     [i \in 1..Slots |-> FoldSeq(LAMBDA u, acc : acc + u.chunks[k][i], 0, us)]]

\* Mutant: the weight of the sum is that of its first part.
SumWeight_First(us) == us[1].weight

SumWeight(us) == FoldSeq(LAMBDA u, acc : acc + u.weight, 0, us)

\* The size check of aggregate, and the chunk-count check of the native code.
SameSize(us) ==
  /\ \A i \in DOMAIN us : us[i].size = us[1].size
  /\ \A i \in DOMAIN us : Len(us[i].chunks) = Len(us[1].chunks)

\* CKKSServerAggregator.aggregate of two updates, sums and doubles included.
Aggregate(u, v) ==
  /\ Cardinality(updates) < MaxUpdates
  /\ SameSize(<<u, v>>)
  /\ updates' = updates \cup
       {[chunks |-> CkksAdd(<<u, v>>), size |-> u.size,
         weight |-> SumWeight(<<u, v>>), leaves |-> u.leaves \o v.leaves]}
  /\ UNCHANGED mean

\* ckks_decrypt: the slots of the chunks in order, cut at the original size.
CkksDecrypt(chunks, size) ==
  LET slots == FlattenSeq(chunks) IN SubSeq(slots, 1, Min({size, Len(slots)}))

\* CKKSDecryptor.decrypt_weighted_mean; too few slots raise.
Decrypt(u) ==
  /\ u.weight > 0
  /\ Len(u.chunks) * Slots >= u.size
  /\ mean' = [sum |-> CkksDecrypt(u.chunks, u.size), weight |-> u.weight, leaves |-> u.leaves]
  /\ UNCHANGED updates

Next ==
  \/ \E c \in Clients : Encrypt(c)
  \/ \E u, v \in updates : Aggregate(u, v)
  \/ \E u \in updates : Decrypt(u)

Spec == Init /\ [][Next]_vars

-----------------------------------------------------------------------------

\* Every update in circulation has clients, values and a positive weight.
TypeOK ==
  /\ Cardinality(updates) <= MaxUpdates
  /\ \A u \in updates :
       /\ u.leaves \in Seq(Clients) /\ u.leaves # <<>>
       /\ u.size > 0 /\ u.weight > 0
       /\ \A k \in DOMAIN u.chunks : u.chunks[k] \in [1..Slots -> Int]
  /\ mean.weight >= 0

\* _weighted_fedavg over the clients of a sum: the weighted total and the total
\* weight (fl/zerotrust_fl/engine/coordinator.py).
WeightedTotal(leaves, i) == FoldSeq(LAMBDA c, acc : acc + Weights[c] * Vectors[c][i], 0, leaves)
TotalWeight(leaves) == FoldSeq(LAMBDA c, acc : acc + Weights[c], 0, leaves)

\* Whatever is decrypted is the sample-weighted mean of exactly the clients in
\* it, of their length, for every length around the slot boundary and however
\* the server nested its additions.
DecryptsToFedAvg ==
  mean # None =>
    \A i \in 1..Len(mean.leaves) :
      /\ Len(mean.sum) = Len(Vectors[mean.leaves[i]])
      /\ \A j \in 1..Len(mean.sum) :
           mean.sum[j] * TotalWeight(mean.leaves) = WeightedTotal(mean.leaves, j) * mean.weight

\* The padding of the last chunk stays zero through all additions, so nothing
\* leaks from behind the declared size into a longer reading of the ciphertext.
PaddingStaysZero ==
  \A u \in updates : \A n \in (u.size + 1)..(Len(u.chunks) * Slots) :
    FlattenSeq(u.chunks)[n] = 0

\* What was encrypted can be decrypted: no sum declares more values than its
\* chunks hold.
AlwaysDecryptable == \A u \in updates : Len(u.chunks) * Slots >= u.size
=============================================================================
