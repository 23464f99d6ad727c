------------------------------ MODULE Aggregation ------------------------------
(***************************************************************************)
(* Robust aggregation of the updates of one round: how a configuration is  *)
(* derived and validated, the rules of the three backends, and the verdict *)
(* on an attack (engine/coordinator.py, aggregators/native_cpp.py, the     *)
(* native functions behind them, and the derivation in run_fl_sim.py).     *)
(*                                                                         *)
(* An update is one integer coordinate: median and trimmed mean work on    *)
(* each coordinate alone, and Krum sees distances only.  An aggregate is a *)
(* fraction <<numerator, denominator>>.                                    *)
(***************************************************************************)
EXTENDS Integers, Sequences, FiniteSets, TLC, FiniteSetsExt, Functions

CONSTANTS Values,      \* values of an update
          Flags,       \* malicious flags of the workers
          Clients,     \* number of workers
          Minima,      \* configured min_results
          Methods,     \* aggregation methods
          Fs, Ks,      \* configured f and k
          Betas,       \* configured beta, in percent
          Samples      \* the sample counts of the results, in the order they come

\* The coordinator has a worker, and a quorum it can reach; every worker owns a
\* sample; argparse takes any integer for f and k.
ASSUME AggregationAssumption ==
  /\ Clients \in Nat \ {0}
  /\ Minima \subseteq 1 .. Clients
  /\ Flags \subseteq BOOLEAN
  /\ Samples \in [1 .. Clients -> Nat \ {0}]
  /\ Fs \subseteq Int /\ Ks \subseteq Int /\ Betas \subseteq Int

VARIABLES
  stage,    \* "configuring", "collecting", "aggregated", "rejected", "error"
  config,   \* AggregationConfig, clients per round and min_results
  origin,   \* where f and k come from: "given" on the command line, the
            \* "defaults" of run_fl_sim.py, or the "launcher" main.py
  results,  \* the WorkerResults collected so far: value and malicious flag
  out       \* what each backend returns for them

aggregationVars == <<stage, config, origin, results, out>>

----------------------------------------------------------------------------
(* Configuration *)

\* Parameters a method does not read keep their defaults.
Config ==
  {c \in [method : Methods, f : Fs \cup {0}, k : Ks \cup {1}, beta : Betas \cup {20},
          minimum : Minima] :
     /\ c.method \notin {"krum", "multi_krum"} => c.f = 0
     /\ c.method # "multi_krum" => c.k = 1
     /\ c.method # "trimmed_mean" => c.beta = 20}

\* ... whatever they are set to.
AsRead(c) ==
  [c EXCEPT !.f = IF c.method \in {"krum", "multi_krum"} THEN c.f ELSE 0,
            !.k = IF c.method = "multi_krum" THEN c.k ELSE 1,
            !.beta = IF c.method = "trimmed_mean" THEN c.beta ELSE 20]

Larger(a, b) == IF a >= b THEN a ELSE b
Lesser(a, b) == IF a <= b THEN a ELSE b

\* main() of run_fl_sim.py without --byzantine-f.
DefaultF(malicious, minimum) == Lesser(malicious, Larger(0, (minimum - 3) \div 2))

\* ... and the cap on --multi-krum-k.
CapK(k, f, minimum) == Lesser(k, Larger(1, minimum - f - 2))

Derived(c, malicious) ==
  LET f == DefaultF(malicious, c.minimum)
  IN [c EXCEPT !.f = f, !.k = CapK(c.k, f, c.minimum)]

\* validate() of main.py for n workers of which f attack.
LauncherAccepts(method, n, f) ==
  f < n /\ (method \in {"krum", "multi_krum"} => n >= 2 * f + 3)

\* trainer_cmd() of main.py: every worker in every round, f only for Krum, and
\* the defaults of the runner for k and beta.
LauncherK == 3
LauncherBeta == 20
Launched(c, malicious) ==
  LET f == IF c.method \in {"krum", "multi_krum"} THEN malicious
                                                ELSE DefaultF(malicious, Clients)
  IN [c EXCEPT !.minimum = Clients, !.f = f, !.k = CapK(LauncherK, f, Clients),
               !.beta = LauncherBeta]

\* AggregationConfig.__post_init__, beta in percent.
ConfigAccepted(c) == c.f >= 0 /\ c.k > 0 /\ c.beta >= 0 /\ c.beta < 50

Neighbours(c, n) == n - c.f - 2
KOf(c) == IF c.method = "krum" THEN 1 ELSE c.k

TrimCount(beta, n) == (beta * n) \div 100

\* Mutant: the number of selected clients instead of the quorum.
RoundCountsAccepted_Selected(c) ==
  /\ c.method \in {"krum", "multi_krum"} =>
       /\ Clients >= 2 * c.f + 3
       /\ KOf(c) <= Neighbours(c, Clients)
  /\ c.method = "trimmed_mean" => 2 * TrimCount(c.beta, Clients) < Clients

\* _validate_round_counts: checked for the smallest number of results that ends
\* a round.
RoundCountsAccepted(c) ==
  /\ c.method \in {"krum", "multi_krum"} =>
       /\ c.minimum >= 2 * c.f + 3
       /\ KOf(c) <= Neighbours(c, c.minimum)
  /\ c.method = "trimmed_mean" => 2 * TrimCount(c.beta, c.minimum) < c.minimum

----------------------------------------------------------------------------
(* Helpers *)

SumOf(s) == FoldFunction(+, 0, s)
Ascending(s) == SortSeq(s, <)
MeanOf(s) == <<SumOf(s), Len(s)>>
MeanAt(s, S) == <<FoldFunctionOnSet(+, 0, s, S), Cardinality(S)>>
LessEq(a, b) == a[1] * b[2] <= b[1] * a[2]
Square(x) == x * x

----------------------------------------------------------------------------
(* The PyTorch backend: _torch_aggregate, and _weighted_fedavg for the mean *)

FedAvg(s) == <<SumOf([i \in DOMAIN s |-> Samples[i] * s[i]]), SumOf([i \in DOMAIN s |-> Samples[i]])>>

TorchMedian(s) ==
  LET sorted == Ascending(s)
      middle == (Len(s) \div 2) + 1
  IN IF Len(s) % 2 = 1 THEN <<sorted[middle], 1>>
                       ELSE <<sorted[middle - 1] + sorted[middle], 2>>

\* Mutant: the upper tail keeps one value more.
Trimmed_OffByOne(s, trim) == MeanOf(SubSeq(Ascending(s), trim + 1, Lesser(Len(s), Len(s) - trim + 1)))

Trimmed(s, trim) == MeanOf(SubSeq(Ascending(s), trim + 1, Len(s) - trim))

\* The distances of update i to the others, and the sum of the m smallest.
Distances(s, i) == [j \in 1 .. Len(s) |-> Square(s[i] - s[j])]
Without(s, i) == SubSeq(s, 1, i - 1) \o SubSeq(s, i + 1, Len(s))
Nearest(row, m) == SumOf(SubSeq(Ascending(row), 1, m))

TorchScore(s, i, m) == Nearest(Without(Distances(s, i), i), m)

\* The scores of all updates, as a tuple.
Scores(s, m) == SubSeq([i \in 1 .. Len(s) |-> TorchScore(s, i, m)], 1, Len(s))

\* torch.topk(largest=False) breaks ties as it likes.
TopK(score, k) ==
  LET last == Ascending(score)[k]
      chosen == {i \in DOMAIN score : score[i] < last}
      tied == {i \in DOMAIN score : score[i] = last}
  IN {chosen \cup T : T \in kSubset(k - Cardinality(chosen), tied)}

TorchKrum(s, f, k) ==
  {MeanAt(s, S) : S \in TopK(Scores(s, Len(s) - f - 2), k)}

----------------------------------------------------------------------------
(* The native CPU backend: cpp/src/byzantine_aggregator.cpp *)

\* std::nth_element: the value with at most m values below it and more than m
\* values not above it.
NthElement(s, m) ==
  CHOOSE v \in Range(s) : /\ Cardinality({i \in DOMAIN s : s[i] < v}) <= m
                          /\ m < Cardinality({i \in DOMAIN s : s[i] <= v})

\* The maximum of the values nth_element leaves before position m.
MaxBefore(s, m) ==
  LET upper == NthElement(s, m)
      below == {i \in DOMAIN s : s[i] < upper}
  IN IF Cardinality(below) = m THEN Max({s[i] : i \in below}) ELSE upper

NativeMedian(s) ==
  LET middle == Len(s) \div 2
  IN IF Len(s) % 2 = 1 THEN <<NthElement(s, middle), 1>>
                       ELSE <<MaxBefore(s, middle) + NthElement(s, middle), 2>>

\* beta arrives as a float: the nearest multiple of 1 / scale, a power of two from
\* 2^24 to 2^30, such that the mantissa has 24 bits.
Bits24 == 16777216
FloatScale(beta) ==
  CHOOSE scale \in {Bits24 * d : d \in {1, 2, 4, 8, 16, 32, 64}} :
    beta * scale >= 50 * Bits24 /\ beta * scale < 100 * Bits24
Mantissa(beta, scale) == (beta * scale + 50) \div 100

NativeTrimCount(beta, n) ==
  IF beta = 0 THEN 0
  ELSE LET scale == FloatScale(beta) IN (Mantissa(beta, scale) * n) \div scale

\* partial_sort by score, then by index.
NativeKrum(s, f, k) ==
  LET score == Scores(s, Len(s) - f - 2)
      before(i, j) == score[i] < score[j] \/ (score[i] = score[j] /\ i < j)
      rank(i) == Cardinality({j \in DOMAIN s : before(j, i)})
  IN MeanAt(s, {i \in DOMAIN s : rank(i) < k})

----------------------------------------------------------------------------
(* The CUDA backend: CudaByzantineAggregator.krum *)

Infinite == 1000000

\* Mutant: the diagonal of the distance matrix stays zero.
CudaScore_Diagonal(s, i, m) == Nearest(Distances(s, i), m)

\* The whole row, with an infinite distance to itself.
CudaScore(s, i, m) ==
  Nearest([j \in 1 .. Len(s) |-> IF j = i THEN Infinite ELSE Distances(s, i)[j]], m)

CudaScores(s, m) == SubSeq([i \in 1 .. Len(s) |-> CudaScore(s, i, m)], 1, Len(s))

CudaKrum(s, f, k) ==
  {MeanAt(s, S) : S \in TopK(CudaScores(s, Len(s) - f - 2), k)}

----------------------------------------------------------------------------
(* The attack verdict: _attack_mitigation_metrics *)

Distance(a, b) == <<Larger(a[1] * b[2] - b[1] * a[2], b[1] * a[2] - a[1] * b[2]), a[2] * b[2]>>
Positive(a) == a[1] > 0

ValuesOf(rs) == [i \in DOMAIN rs |-> rs[i].value]

NoVerdict == [score |-> <<0, 1>>, mitigated |-> "none"]

\* Score max(0, min(1, 1 - robust_error / naive_error)), and whether the robust
\* update is closer to the benign mean than the plain mean is.
Mitigation(rs, robust) ==
  LET bad == {i \in DOMAIN rs : rs[i].malicious}
      good == DOMAIN rs \ bad
  IN IF bad = {} \/ good = {} THEN NoVerdict
     ELSE LET benign == MeanAt(ValuesOf(rs), good)
              naive == Distance(MeanOf(ValuesOf(rs)), benign)
              err == Distance(robust, benign)
          IN IF ~Positive(naive)
             THEN [score |-> IF Positive(err) THEN <<0, 1>> ELSE <<1, 1>>,
                   mitigated |-> IF Positive(err) THEN "no" ELSE "yes"]
             ELSE [score |-> IF LessEq(naive, err) THEN <<0, 1>>
                             ELSE <<naive[1] * err[2] - err[1] * naive[2],
                                    naive[1] * err[2]>>,
                   mitigated |-> IF LessEq(naive, err) THEN "no" ELSE "yes"]

----------------------------------------------------------------------------
(* One round *)

NoOutput == [torch |-> {}, native |-> {}, cuda |-> {}, verdict |-> NoVerdict]

AggregationInit ==
  /\ stage = "configuring"
  /\ config \in Config
  /\ origin \in {"given", "defaults", "launcher"}
  /\ results = <<>> /\ out = NoOutput

\* The constructors accept the configuration or raise.
Configure ==
  /\ stage = "configuring"
  /\ \E malicious \in 0 .. Clients :
       /\ origin = "launcher" =>
            LauncherAccepts(config.method, Clients, malicious)
       /\ config' = CASE origin = "given" -> config
                      [] origin = "defaults" -> AsRead(Derived(config, malicious))
                      [] origin = "launcher" -> AsRead(Launched(config, malicious))
       /\ stage' = IF ConfigAccepted(config') /\ RoundCountsAccepted(config')
                   THEN "collecting" ELSE "rejected"
       /\ origin' = IF stage' = "rejected" THEN origin ELSE "given"
  /\ UNCHANGED <<results, out>>

\* A successful result of the round; the round ends with the minimum of them.
Receive(v, malicious) ==
  /\ stage = "collecting" /\ Len(results) < config.minimum
  /\ results' = Append(results, [value |-> v, malicious |-> malicious])
  /\ UNCHANGED <<stage, config, origin, out>>

\* The checks the aggregators repeat on what they are given.
Aggregatable(c, n) ==
  /\ c.method \in {"krum", "multi_krum"} =>
       n >= 2 * c.f + 3 /\ KOf(c) \in 1 .. Neighbours(c, n)
  /\ c.method = "trimmed_mean" =>
       2 * TrimCount(c.beta, n) < n /\ 2 * NativeTrimCount(c.beta, n) < n

\* What every backend may return.  The mean is a matter of _weighted_fedavg alone.
Outputs(c, s) ==
  CASE c.method = "mean" ->
         [torch |-> {FedAvg(s)}, native |-> {}, cuda |-> {}]
    [] c.method = "median" ->
         [torch |-> {TorchMedian(s)}, native |-> {NativeMedian(s)}, cuda |-> {}]
    [] c.method = "trimmed_mean" ->
         [torch |-> {Trimmed(s, TrimCount(c.beta, Len(s)))},
          native |-> {Trimmed(s, NativeTrimCount(c.beta, Len(s)))},
          cuda |-> {}]
    [] OTHER ->
         [torch |-> TorchKrum(s, c.f, KOf(c)), native |-> {NativeKrum(s, c.f, KOf(c))},
          cuda |-> CudaKrum(s, c.f, KOf(c))]

\* The round takes the result of PyTorch or of the native CPU backend.
Aggregate ==
  /\ stage = "collecting" /\ Len(results) = config.minimum
  /\ IF Aggregatable(config, Len(results))
     THEN /\ stage' = "aggregated"
          /\ LET o == Outputs(config, ValuesOf(results))
             IN \E aggregated \in o.torch \cup o.native :
                  out' = [torch |-> o.torch, native |-> o.native, cuda |-> o.cuda,
                          verdict |-> Mitigation(results, aggregated)]
     ELSE stage' = "error" /\ UNCHANGED out
  /\ UNCHANGED <<config, origin, results>>

AggregationNext ==
  \/ Configure \/ Aggregate
  \/ \E v \in Values, m \in Flags : Receive(v, m)

AggregationSpec == AggregationInit /\ [][AggregationNext]_aggregationVars

----------------------------------------------------------------------------
(* Properties *)

Honest == {results[i].value : i \in {j \in DOMAIN results : ~results[j].malicious}}
MaliciousCount == Cardinality({i \in DOMAIN results : results[i].malicious})
Aggregated(methods) == stage = "aggregated" /\ config.method \in methods
AllOutputs == out.torch \cup out.native \cup out.cuda

\* A configuration the constructors accepted never makes an aggregator raise in
\* a round that reached its quorum, in any backend: _validate_round_counts checks
\* the smallest number of results a round can end with.
ValidatedNeverErrors == stage # "error"

\* The f and k run_fl_sim.py derives are accepted whenever the quorum is large
\* enough for Krum at all, whatever the number of malicious workers and however
\* large the k asked for.
DerivedIsAccepted ==
  stage = "rejected" /\ origin = "defaults" /\ config.method \in {"krum", "multi_krum"}
    => config.minimum < 3 \/ config.k <= 0

\* The orchestrator's own check of the topology is strong enough: what main.py
\* launches, the trainer's constructors never refuse.
LaunchedIsAccepted == stage = "rejected" => origin # "launcher"

InHonestRange(o) == LessEq(<<Min(Honest), 1>>, o) /\ LessEq(o, <<Max(Honest), 1>>)

\* Median and trimmed mean stay between honest values as long as the malicious
\* updates are fewer than half, or no more than the values the backend trims at each
\* end.
RobustInHonestRange ==
  /\ Aggregated({"median"}) /\ 2 * MaliciousCount < config.minimum
       => \A o \in AllOutputs : InHonestRange(o)
  /\ Aggregated({"trimmed_mean"}) /\ MaliciousCount <= TrimCount(config.beta, config.minimum)
       => \A o \in out.torch : InHonestRange(o)
  /\ Aggregated({"trimmed_mean"}) /\ MaliciousCount <= NativeTrimCount(config.beta, config.minimum)
       => \A o \in out.native : InHonestRange(o)

\* What Krum selects with at most f malicious updates is near an honest one: its
\* score is not above that of an honest update, and at least n - 2f - 1 of its
\* neighbours are honest.
KrumNearHonest ==
  Aggregated({"krum"}) /\ MaliciousCount <= config.f =>
    LET n == config.minimum
        spread == Square(Max(Honest) - Min(Honest))
    IN \A o \in AllOutputs : \E h \in Honest :
         (n - 2 * config.f - 1) * Square(o[1] - h) <= (n - config.f - 2) * spread

\* The native and the CUDA backend return what the PyTorch fallback may return, for
\* Krum up to the order of ties.  The trimmed mean is the exception: the native
\* backend takes beta as a 32-bit float and may keep one value more at each end, never
\* another number; when it trims as many, it returns the same.
BackendsAgree ==
  /\ Aggregated({"median", "krum", "multi_krum"}) => out.native \subseteq out.torch
  /\ Aggregated({"krum", "multi_krum"}) => out.cuda = out.torch
  /\ Aggregated({"trimmed_mean"}) =>
       LET trim == TrimCount(config.beta, config.minimum)
           nativeTrim == NativeTrimCount(config.beta, config.minimum)
       IN nativeTrim \in {trim - 1, trim} /\ (nativeTrim = trim => out.native = out.torch)

\* A round is reported as mitigated exactly when its score is positive, also when
\* the malicious updates do not move the mean at all.
VerdictMatchesScore ==
  Aggregated(Methods) /\ out.verdict.mitigated # "none" =>
    (out.verdict.mitigated = "yes" <=> Positive(out.verdict.score))

\* The collected results never exceed the quorum the round waits for.
TypeOK ==
  /\ stage \in {"configuring", "collecting", "aggregated", "rejected", "error"}
  /\ config \in [method : Methods, f : Int, k : Int, beta : Int, minimum : Nat \ {0}]
  /\ origin \in {"given", "defaults", "launcher"}
  /\ results \in Seq([value : Values, malicious : BOOLEAN])
  /\ Len(results) <= config.minimum

\* The counts a round works with are sound, wherever they come from: no accepted
\* configuration makes an aggregator raise, the defaults are accepted whenever Krum
\* is possible, and what main.py launches is accepted.
CountsAreSound == TypeOK /\ ValidatedNeverErrors /\ DerivedIsAccepted /\ LaunchedIsAccepted

\* The robust methods do what they are for: with as many malicious updates as they
\* are configured to tolerate, the median and the trimmed mean stay in the honest
\* range and Krum near an honest update, and the round is reported as mitigated
\* exactly when its score is positive.
RobustAggregation == RobustInHonestRange /\ KrumNearHonest /\ VerdictMatchesScore

=============================================================================
