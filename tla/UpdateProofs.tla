------------------------------ MODULE UpdateProofs ------------------------------
(***************************************************************************)
(* What becomes of the updates of a round: how many are combined           *)
(* (Aggregation), and in which storage they live (LocalTraining).          *)
(*                                                                         *)
(* The counts of a round are sound for any number of workers and any       *)
(* parameters.  What needs an argument is arithmetic: the derivations of   *)
(* f and k meet Krum's conditions, and neither the exact nor the           *)
(* single-precision trim count ever removes half of the updates.           *)
(*                                                                         *)
(* For any number of workers, rounds and batches, any gradients and noise, *)
(* the coordinator's model moves only by the aggregates applied to it, and *)
(* a reported update keeps its value until it is aggregated.  Both are     *)
(* about who may write to which storage.  Every write of the model's and   *)
(* the workers' code goes to a storage of a fixed kind, and the kinds a    *)
(* worker trains in are never those of a model or an update.               *)
(***************************************************************************)
EXTENDS Aggregation, LocalTraining, TLAPS

----------------------------------------------------------------------------
(* Trimming *)

\* math.floor(beta * n) with the launcher's beta leaves an update.
LEMMA TrimLeavesOne ==
  ASSUME NEW n \in Nat \ {0}
  PROVE  2 * TrimCount(20, n) < n
BY DEF TrimCount

\* A percentage below one half has a float of 24 bits among the scales.
LEMMA FloatScaleExists ==
  ASSUME NEW beta \in 1 .. 49
  PROVE  FloatScale(beta) \in {Bits24 * d : d \in {1, 2, 4, 8, 16, 32, 64}}
<1> DEFINE Scales == {Bits24 * d : d \in {1, 2, 4, 8, 16, 32, 64}}
           Fits(scale) == beta * scale >= 50 * Bits24 /\ beta * scale < 100 * Bits24
<1>1. \E scale \in Scales : Fits(scale)
  <2>1. CASE beta = 1
    <3>1. Bits24 * 64 \in Scales /\ Fits(Bits24 * 64)
      BY <2>1 DEF Bits24
    <3>2. QED BY <3>1
  <2>2. CASE beta \in 2 .. 3
    <3>1. Bits24 * 32 \in Scales /\ Fits(Bits24 * 32)
      BY <2>2 DEF Bits24
    <3>2. QED BY <3>1
  <2>3. CASE beta \in 4 .. 6
    <3>1. Bits24 * 16 \in Scales /\ Fits(Bits24 * 16)
      BY <2>3 DEF Bits24
    <3>2. QED BY <3>1
  <2>4. CASE beta \in 7 .. 12
    <3>1. Bits24 * 8 \in Scales /\ Fits(Bits24 * 8)
      BY <2>4 DEF Bits24
    <3>2. QED BY <3>1
  <2>5. CASE beta \in 13 .. 24
    <3>1. Bits24 * 4 \in Scales /\ Fits(Bits24 * 4)
      BY <2>5 DEF Bits24
    <3>2. QED BY <3>1
  <2>6. CASE beta \in 25 .. 49
    <3>1. Bits24 * 2 \in Scales /\ Fits(Bits24 * 2)
      BY <2>6 DEF Bits24
    <3>2. QED BY <3>1
  <2>7. QED BY <2>1, <2>2, <2>3, <2>4, <2>5, <2>6
<1>2. QED BY <1>1 DEF FloatScale

\* Rounding to the nearest float does not lift a percentage below one half to it.
LEMMA MantissaBelowHalf ==
  ASSUME NEW beta \in 1 .. 49, NEW scale \in {Bits24 * d : d \in {1, 2, 4, 8, 16, 32, 64}}
  PROVE  /\ scale \in Nat \ {0}
         /\ Mantissa(beta, scale) \in Nat
         /\ 2 * Mantissa(beta, scale) < scale
<1>1. scale \in Nat /\ scale >= 16777216
  BY DEF Bits24
<1>2. \A b \in 1 .. 49, s \in Nat : b * s \in Nat /\ b * s <= 49 * s
  OBVIOUS
<1>3. beta * scale \in Nat /\ beta * scale <= 49 * scale
  BY <1>1, <1>2
<1>4. \A x, s \in Nat : x <= 49 * s /\ s >= 16777216 =>
        (x + 50) \div 100 \in Nat /\ 2 * ((x + 50) \div 100) < s
  OBVIOUS
<1>5. QED BY <1>1, <1>3, <1>4 DEF Mantissa

\* A share below one half of n values, rounded down, is fewer than half of them.
LEMMA HalfShare ==
  ASSUME NEW m \in Nat, NEW s \in Nat \ {0}, NEW n \in Nat \ {0}, 2 * m < s
  PROVE  2 * ((m * n) \div s) < n
<1> DEFINE q == (m * n) \div s
<1>1. m * n \in Nat
  OBVIOUS
<1>2. q \in Nat /\ q * s <= m * n
  <2>1. \A x \in Nat, t \in Nat \ {0} : x \div t \in Nat /\ (x \div t) * t <= x
    OBVIOUS
  <2>2. QED BY <1>1, <2>1
<1> HIDE DEF q
<1>3. 2 * (m * n) < s * n
  OBVIOUS
<1>4. (2 * q) * s < n * s
  BY <1>1, <1>2, <1>3
<1>5. \A a, b \in Nat : a * s < b * s => a < b
  OBVIOUS
<1>6. QED BY <1>2, <1>4, <1>5 DEF q

\* The trim count of the native aggregators leaves an update as well.
LEMMA NativeTrimLeavesOne ==
  ASSUME NEW beta \in 0 .. 49, NEW n \in Nat \ {0}
  PROVE  2 * NativeTrimCount(beta, n) < n
<1>1. CASE beta = 0
  BY <1>1 DEF NativeTrimCount
<1>2. CASE beta # 0
  <2> DEFINE scale == FloatScale(beta)
  <2>1. beta \in 1 .. 49
    BY <1>2
  <2>2. scale \in {Bits24 * d : d \in {1, 2, 4, 8, 16, 32, 64}}
    BY <2>1, FloatScaleExists, Zenon
  <2>3. NativeTrimCount(beta, n) = (Mantissa(beta, scale) * n) \div scale
    BY <1>2 DEF NativeTrimCount
  <2> HIDE DEF scale
  <2>4. scale \in Nat \ {0} /\ Mantissa(beta, scale) \in Nat /\ 2 * Mantissa(beta, scale) < scale
    BY <2>1, <2>2, MantissaBelowHalf, Zenon
  <2>5. QED BY <2>3, <2>4, HalfShare
<1>3. QED BY <1>1, <1>2

----------------------------------------------------------------------------
(* Configurations *)

\* Every configuration the program can have.
AnyConfig == [method : Methods, f : Int, k : Int, beta : Int, minimum : 1 .. Clients]

\* What the constructors demand.
Accepted(c) == ConfigAccepted(c) /\ RoundCountsAccepted(c)

Krums == {"krum", "multi_krum"}

\* The configurations to begin with are among them.
LEMMA ConfigTyped == Config \subseteq AnyConfig
<1> SUFFICES ASSUME NEW c \in Config PROVE c \in AnyConfig
  OBVIOUS
<1>1. c \in [method : Methods, f : Fs \cup {0}, k : Ks \cup {1}, beta : Betas \cup {20},
             minimum : Minima]
  BY DEF Config
<1>2. /\ Fs \cup {0} \subseteq Int /\ Ks \cup {1} \subseteq Int
      /\ Betas \cup {20} \subseteq Int /\ Minima \subseteq 1 .. Clients
  BY AggregationAssumption
<1>3. QED BY <1>1, <1>2, Zenon DEF AnyConfig

\* An accepted configuration passes the checks the aggregators repeat on a round
\* with as many results as its quorum.
LEMMA AcceptedIsAggregatable ==
  ASSUME NEW c \in AnyConfig, Accepted(c)
  PROVE  Aggregatable(c, c.minimum)
<1>1. /\ c.f \in Int /\ c.k \in Int /\ c.beta \in Int /\ c.minimum \in Nat \ {0}
  BY AggregationAssumption DEF AnyConfig
<1>2. c.method \in Krums => c.minimum >= 2 * c.f + 3 /\ KOf(c) \in 1 .. Neighbours(c, c.minimum)
  BY <1>1 DEF Accepted, ConfigAccepted, RoundCountsAccepted, KOf, Neighbours, Krums
<1>3. 2 * NativeTrimCount(c.beta, c.minimum) < c.minimum
  <2>1. c.beta \in 0 .. 49
    BY <1>1 DEF Accepted, ConfigAccepted
  <2>2. QED BY <1>1, <2>1, NativeTrimLeavesOne
<1>4. QED BY <1>2, <1>3 DEF Accepted, RoundCountsAccepted, Aggregatable, Krums

\* Reading only what the method uses changes nothing else.
LEMMA AsReadTyped ==
  ASSUME NEW c \in AnyConfig
  PROVE  /\ AsRead(c) \in AnyConfig
         /\ AsRead(c).method = c.method /\ AsRead(c).minimum = c.minimum
         /\ AsRead(c).f = IF c.method \in Krums THEN c.f ELSE 0
         /\ AsRead(c).k = IF c.method = "multi_krum" THEN c.k ELSE 1
         /\ AsRead(c).beta = IF c.method = "trimmed_mean" THEN c.beta ELSE 20
<1> DEFINE f == IF c.method \in Krums THEN c.f ELSE 0
           k == IF c.method = "multi_krum" THEN c.k ELSE 1
           beta == IF c.method = "trimmed_mean" THEN c.beta ELSE 20
<1>1. f \in Int /\ k \in Int /\ beta \in Int
  BY DEF AnyConfig
<1>2. AsRead(c) = [c EXCEPT !.f = f, !.k = k, !.beta = beta]
  BY DEF AsRead, Krums
<1> HIDE DEF f, k, beta
<1>3. AsRead(c) \in AnyConfig
  BY <1>1, <1>2, Zenon DEF AnyConfig
<1>4. AsRead(c).method = c.method /\ AsRead(c).minimum = c.minimum
  BY <1>2 DEF AnyConfig
<1>5. AsRead(c).f = f /\ AsRead(c).k = k /\ AsRead(c).beta = beta
  BY <1>2 DEF AnyConfig
<1>6. QED BY <1>3, <1>4, <1>5 DEF f, k, beta

\* The f run_fl_sim.py takes without --byzantine-f is one Krum can tolerate, as
\* soon as the quorum has three results.
LEMMA DefaultFFits ==
  ASSUME NEW malicious \in Nat, NEW minimum \in Nat
  PROVE  /\ DefaultF(malicious, minimum) \in Nat
         /\ minimum >= 3 => minimum >= 2 * DefaultF(malicious, minimum) + 3
BY DEF DefaultF, Lesser, Larger

\* The cap on k keeps it within the neighbours of an update and positive.
LEMMA CapKFits ==
  ASSUME NEW k \in Int, NEW f \in Nat, NEW minimum \in Nat
  PROVE  /\ CapK(k, f, minimum) \in Int
         /\ k > 0 <=> CapK(k, f, minimum) > 0
         /\ minimum >= 2 * f + 3 => CapK(k, f, minimum) <= minimum - f - 2
BY DEF CapK, Lesser, Larger

\* What the runner derives is a configuration.
LEMMA DerivedTyped ==
  ASSUME NEW c \in AnyConfig, NEW malicious \in Nat
  PROVE  /\ Derived(c, malicious) \in AnyConfig
         /\ Derived(c, malicious).method = c.method
         /\ Derived(c, malicious).minimum = c.minimum
         /\ Derived(c, malicious).f = DefaultF(malicious, c.minimum)
         /\ Derived(c, malicious).k = CapK(c.k, DefaultF(malicious, c.minimum), c.minimum)
<1> DEFINE f == DefaultF(malicious, c.minimum)
           k == CapK(c.k, f, c.minimum)
<1>1. c.minimum \in Nat /\ c.k \in Int
  BY AggregationAssumption DEF AnyConfig
<1>2. f \in Nat
  BY <1>1, DefaultFFits, Zenon
<1>3. k \in Int
  BY <1>1, <1>2, CapKFits, Zenon
<1>4. Derived(c, malicious) = [c EXCEPT !.f = f, !.k = k]
  BY DEF Derived
<1> HIDE DEF f, k
<1>5. Derived(c, malicious) \in AnyConfig
  <2>1. f \in Int
    BY <1>2
  <2>2. QED BY <1>3, <1>4, <2>1, Zenon DEF AnyConfig
<1>6. QED BY <1>4, <1>5 DEF AnyConfig, f, k

\* For Krum it is refused only when the quorum is below three or the k asked for
\* is not positive.
LEMMA DerivedAccepted ==
  ASSUME NEW c \in AnyConfig, NEW malicious \in Nat, c.method \in Krums,
         NEW d, d = AsRead(Derived(c, malicious)), d.minimum >= 3, d.k > 0
  PROVE  Accepted(d)
<1> DEFINE f == DefaultF(malicious, c.minimum)
           k == CapK(c.k, f, c.minimum)
<1>1. c.minimum \in Nat /\ c.k \in Int
  BY AggregationAssumption DEF AnyConfig
<1>2. /\ d \in AnyConfig /\ d.method = c.method /\ d.minimum = c.minimum /\ d.f = f
      /\ d.k = IF c.method = "multi_krum" THEN k ELSE 1
      /\ d.beta = 20
  <2> DEFINE e == Derived(c, malicious)
  <2>1. /\ e \in AnyConfig /\ e.method = c.method /\ e.minimum = c.minimum
        /\ e.f = f /\ e.k = k
    BY DerivedTyped
  <2> HIDE DEF e, f, k
  <2>2. QED BY <2>1, AsReadTyped DEF Krums, e
<1>3. f \in Nat /\ c.minimum >= 2 * f + 3
  BY <1>1, <1>2, DefaultFFits, Zenon
<1>4. k \in Int /\ k <= c.minimum - f - 2
  BY <1>1, <1>3, CapKFits, Zenon
<1> HIDE DEF f, k
<1>5. KOf(d) <= Neighbours(d, d.minimum)
  BY <1>1, <1>2, <1>3, <1>4 DEF KOf, Neighbours, Krums
<1>6. ConfigAccepted(d)
  BY <1>2, <1>3 DEF ConfigAccepted
<1>7. QED BY <1>1, <1>2, <1>3, <1>5, <1>6 DEF Accepted, RoundCountsAccepted, Krums

\* What main.py launches is a configuration, and an accepted one.
LEMMA LaunchedAccepted ==
  ASSUME NEW c \in AnyConfig, NEW malicious \in Nat,
         LauncherAccepts(c.method, Clients, malicious),
         NEW d, d = AsRead(Launched(c, malicious))
  PROVE  d \in AnyConfig /\ Accepted(d)
<1> DEFINE f == IF c.method \in Krums THEN malicious ELSE DefaultF(malicious, Clients)
           k == CapK(LauncherK, f, Clients)
           l == Launched(c, malicious)
<1>1. Clients \in Nat \ {0} /\ Clients \in 1 .. Clients
  BY AggregationAssumption
<1>2. f \in Nat
  BY <1>1, DefaultFFits
<1>3. k \in Int /\ k > 0 /\ (Clients >= 2 * f + 3 => k <= Clients - f - 2)
  <2>1. 3 \in Int /\ Clients \in Nat
    BY <1>1
  <2> HIDE DEF f
  <2>2. /\ CapK(3, f, Clients) \in Int
        /\ 3 > 0 <=> CapK(3, f, Clients) > 0
        /\ Clients >= 2 * f + 3 => CapK(3, f, Clients) <= Clients - f - 2
    BY <1>2, <2>1, CapKFits, Zenon
  <2>3. QED BY <2>2 DEF LauncherK
<1>4. l = [c EXCEPT !.minimum = Clients, !.f = f, !.k = k, !.beta = 20]
  BY DEF Launched, LauncherBeta, Krums
<1> HIDE DEF f, k, l
<1>5. /\ l \in AnyConfig
      /\ l.method = c.method /\ l.minimum = Clients /\ l.f = f /\ l.k = k /\ l.beta = 20
  <2>1. f \in Int /\ 20 \in Int
    BY <1>2
  <2>2. l \in AnyConfig
    BY <1>1, <1>3, <1>4, <2>1, Zenon DEF AnyConfig
  <2>3. l.method = c.method /\ l.minimum = Clients
    BY <1>4 DEF AnyConfig
  <2>4. l.f = f /\ l.k = k /\ l.beta = 20
    BY <1>4 DEF AnyConfig
  <2>5. QED BY <2>2, <2>3, <2>4
<1>6. /\ d \in AnyConfig
      /\ d.method = c.method /\ d.minimum = Clients /\ d.beta = 20
      /\ d.f = IF c.method \in Krums THEN f ELSE 0
      /\ d.k = IF c.method = "multi_krum" THEN k ELSE 1
  BY <1>5, AsReadTyped DEF l
<1>7. ConfigAccepted(d)
  BY <1>2, <1>3, <1>6 DEF ConfigAccepted
<1>8. c.method \in Krums => Clients >= 2 * f + 3
  BY DEF LauncherAccepts, Krums, f
<1>9. c.method \in Krums => KOf(d) <= Neighbours(d, Clients)
  BY <1>1, <1>2, <1>3, <1>6, <1>8 DEF KOf, Neighbours, Krums
<1>10. 2 * TrimCount(20, Clients) < Clients
  BY <1>1, TrimLeavesOne
<1>11. QED BY <1>6, <1>7, <1>8, <1>9, <1>10 DEF Accepted, RoundCountsAccepted, Krums

----------------------------------------------------------------------------
(* The round *)

\* What holds throughout: a round collects results only under a configuration the
\* constructors accepted, none before, and asks for no more results than there are.
CountsInv ==
  /\ CountsAreSound
  /\ config \in AnyConfig
  /\ stage = "configuring" => results = <<>>
  /\ stage = "collecting" => Accepted(config)

\* Before anything was decided there is nothing to show.
LEMMA CountsInit == AggregationInit => CountsInv
<1> SUFFICES ASSUME AggregationInit PROVE CountsInv
  OBVIOUS
<1>1. config \in AnyConfig
  BY ConfigTyped DEF AggregationInit
<1>2. results \in Seq([value : Values, malicious : BOOLEAN]) /\ Len(results) <= config.minimum
  BY <1>1, AggregationAssumption DEF AggregationInit, AnyConfig
<1>3. QED BY <1>1, <1>2 DEF AggregationInit, CountsInv, CountsAreSound, TypeOK, AnyConfig, ValidatedNeverErrors,
           DerivedIsAccepted, LaunchedIsAccepted

\* The constructors: the case of each origin.
LEMMA CountsConfigure == CountsInv /\ Configure => CountsInv'
<1> SUFFICES ASSUME CountsInv, Configure PROVE CountsInv'
  OBVIOUS
<1>1. PICK malicious \in 0 .. Clients :
        /\ origin = "launcher" => LauncherAccepts(config.method, Clients, malicious)
        /\ config' = CASE origin = "given" -> config
                       [] origin = "defaults" -> AsRead(Derived(config, malicious))
                       [] origin = "launcher" -> AsRead(Launched(config, malicious))
        /\ stage' = IF ConfigAccepted(config') /\ RoundCountsAccepted(config')
                    THEN "collecting" ELSE "rejected"
        /\ origin' = IF stage' = "rejected" THEN origin ELSE "given"
  BY DEF Configure
<1>2. malicious \in Nat
  BY AggregationAssumption
<1>3. config \in AnyConfig /\ origin \in {"given", "defaults", "launcher"}
  BY DEF CountsInv, CountsAreSound, TypeOK
<1>4. config' \in AnyConfig
  <2>1. CASE origin = "given"
    BY <1>1, <1>3, <2>1
  <2>2. CASE origin = "defaults"
    BY <1>1, <1>2, <1>3, <2>2, DerivedTyped, AsReadTyped
  <2>3. CASE origin = "launcher"
    BY <1>1, <1>2, <1>3, <2>3, LaunchedAccepted
  <2>4. QED BY <1>3, <2>1, <2>2, <2>3
<1>5. stage' \in {"collecting", "rejected"} /\ (stage' = "collecting" <=> Accepted(config'))
  BY <1>1, Zenon DEF Accepted
<1>6. stage' = "rejected" /\ origin' = "defaults" /\ config'.method \in Krums
        => config'.minimum < 3 \/ config'.k <= 0
  <2> SUFFICES ASSUME stage' = "rejected", origin' = "defaults", config'.method \in Krums,
                      config'.minimum >= 3, config'.k > 0
               PROVE  FALSE
    BY <1>4, AggregationAssumption DEF AnyConfig
  <2>1. config' = AsRead(Derived(config, malicious))
    BY <1>1
  <2>2. config.method \in Krums
    BY <1>2, <1>3, <2>1, DerivedTyped, AsReadTyped, Zenon
  <2>3. Accepted(config')
    BY <1>2, <1>3, <2>1, <2>2, DerivedAccepted
  <2>4. QED BY <1>5, <2>3
<1>7. stage' = "rejected" => origin' # "launcher"
  <2> SUFFICES ASSUME stage' = "rejected", origin' = "launcher" PROVE FALSE
    OBVIOUS
  <2>1. LauncherAccepts(config.method, Clients, malicious) /\ config' = AsRead(Launched(config, malicious))
    BY <1>1
  <2>2. Accepted(config')
    BY <1>2, <1>3, <2>1, LaunchedAccepted
  <2>3. QED BY <1>5, <2>2
<1>8. results' = <<>> /\ Len(results') <= config'.minimum
  <2>1. results' = <<>>
    BY DEF Configure, CountsInv
  <2>2. config'.minimum \in Nat
    BY <1>4, AggregationAssumption DEF AnyConfig
  <2>3. QED BY <2>1, <2>2
<1>9. QED
  BY <1>1, <1>3, <1>4, <1>5, <1>6, <1>7, <1>8
     DEF CountsInv, CountsAreSound, TypeOK, AnyConfig, ValidatedNeverErrors, DerivedIsAccepted,
         LaunchedIsAccepted, Krums

\* Collecting and aggregating: the quorum is full when the aggregators are asked.
LEMMA CountsStep == CountsInv /\ [AggregationNext]_aggregationVars => CountsInv'
<1> SUFFICES ASSUME CountsInv, [AggregationNext]_aggregationVars PROVE CountsInv'
  OBVIOUS
<1>t. TypeOK /\ config \in AnyConfig
  BY DEF CountsInv, CountsAreSound
<1>1. CASE Configure
  BY <1>1, CountsConfigure
<1>2. ASSUME NEW v \in Values, NEW m \in Flags, Receive(v, m)
      PROVE  CountsInv'
  <2>1. /\ stage = "collecting" /\ Len(results) < config.minimum
        /\ results' = Append(results, [value |-> v, malicious |-> m])
        /\ UNCHANGED <<stage, config, origin>>
    BY <1>2 DEF Receive
  <2>2. [value |-> v, malicious |-> m] \in [value : Values, malicious : BOOLEAN]
    BY AggregationAssumption
  <2>3. config.minimum \in Nat
    BY <1>t, AggregationAssumption DEF AnyConfig
  <2>4. results \in Seq([value : Values, malicious : BOOLEAN])
    BY <1>t DEF TypeOK
  <2>5. /\ results' \in Seq([value : Values, malicious : BOOLEAN])
        /\ Len(results') <= config'.minimum
    BY <2>1, <2>2, <2>3, <2>4
  <2>6. QED BY <2>1, <2>5
         DEF CountsInv, CountsAreSound, TypeOK, ValidatedNeverErrors, DerivedIsAccepted, LaunchedIsAccepted,
             Accepted, ConfigAccepted, RoundCountsAccepted, KOf, Neighbours
<1>3. CASE Aggregate
  <2>1. stage = "collecting" /\ Len(results) = config.minimum /\ UNCHANGED <<config, origin, results>>
    BY <1>3 DEF Aggregate
  <2>2. Accepted(config)
    BY <2>1 DEF CountsInv
  <2>3. Aggregatable(config, Len(results))
    BY <1>t, <2>1, <2>2, AcceptedIsAggregatable
  <2>4. stage' = "aggregated"
    BY <1>3, <2>3 DEF Aggregate
  <2>5. QED BY <2>1, <2>4
         DEF CountsInv, CountsAreSound, TypeOK, ValidatedNeverErrors, DerivedIsAccepted, LaunchedIsAccepted
<1>4. CASE UNCHANGED aggregationVars
  BY <1>4 DEF aggregationVars, CountsInv, CountsAreSound, TypeOK, ValidatedNeverErrors, DerivedIsAccepted,
              LaunchedIsAccepted, Accepted, ConfigAccepted, RoundCountsAccepted, KOf, Neighbours
<1>5. QED BY <1>1, <1>2, <1>3, <1>4 DEF AggregationNext

\* For any number of workers, any quorum and any parameters: a configuration the
\* constructors accept never makes an aggregator of any backend raise in a round
\* that reached its quorum, the defaults of run_fl_sim.py are accepted whenever Krum
\* is possible, and what main.py launches is accepted (CountsAreSound).
THEOREM CountsAreAlwaysSound == AggregationSpec => []CountsAreSound
<1>1. CountsInv => CountsAreSound
  BY DEF CountsInv
<1>2. QED BY <1>1, CountsInit, CountsStep, PTL DEF AggregationSpec

-----------------------------------------------------------------------------
(* Tensors *)

\* Most leaves from here on are first-order; the others cite SMT.
USE Zenon


Models == {"model"} \X (0 .. Rounds)
Vectors == {"vector"} \X (1 .. Rounds)

\* Where the parameters of a worker's model may live.
Trainable == Vectors \cup ({"built", "copy"} \X Workers)

Steps == {"idle", "training", "flattened"}

Places ==
  /\ heap \in [Storage -> Int]
  /\ round \in 1 .. Rounds
  /\ model \in Models
  /\ command \in [Workers -> Vectors \cup {Nowhere}]
  /\ pc \in [Workers -> Steps]
  /\ params \in [Workers -> Trainable]
  /\ baseline \in [Workers -> Trainable \cup {Nowhere}]
  /\ local \in [Workers -> Storage \cup {Nowhere}]
  /\ update \in [Workers -> Storage \cup {Nowhere}]
  /\ reported \in [Workers -> Int]
  /\ \A w \in Workers :
       /\ pc[w] \in {"training", "flattened"} => baseline[w] \in Trainable
       /\ pc[w] = "flattened" => local[w] = <<"local", w>>
       /\ update[w] \in {Nowhere, <<"update", w>>}

Kept ==
  /\ heap[model] = expected
  /\ \A w \in Workers : update[w] # Nowhere => heap[update[w]] = reported[w]

TensorInv == Places /\ Kept

\* The kinds of storage do not overlap.
LEMMA Kinds ==
  /\ Models \subseteq Storage /\ Vectors \subseteq Storage /\ Trainable \subseteq Storage
  /\ Models \cap Trainable = {} /\ Nowhere \notin Storage
  /\ \A w \in Workers : /\ <<"local", w>> \in Storage /\ <<"update", w>> \in Storage
                        /\ <<"copy", w>> \in Trainable
                        /\ <<"local", w>> \notin Models /\ <<"update", w>> \notin Models
                        /\ <<"update", w>> \notin Trainable
  /\ \A v, w \in Workers : /\ <<"update", v>> # <<"local", w>>
                           /\ <<"update", v>> = <<"update", w>> => v = w
BY DEF Models, Vectors, Trainable, Storage, Nowhere

\* Before the first round.
LEMMA TensorInit == Init => TensorInv
<1> SUFFICES ASSUME Init PROVE TensorInv
  OBVIOUS
<1>1. model \in Models /\ model \in Storage /\ round \in 1 .. Rounds
  BY TensorAssumption, Kinds, SMT DEF Init, Models
<1>2. params \in [Workers -> Trainable]
  BY DEF Init, Trainable
<1>3. Places
  BY <1>1, <1>2, SMT DEF Init, Places, Steps
<1> QED BY <1>1, <1>3 DEF Init, TensorInv, Kept

\* A write to a storage that is neither the model nor an update disturbs neither.
LEMMA WriteKeeps ==
  ASSUME TensorInv, NEW s \in Storage, NEW v \in Int, heap' = [heap EXCEPT ![s] = v],
         s \notin Models, \A w \in Workers : s # <<"update", w>>,
         UNCHANGED <<model, expected, reported>>,
         \A w \in Workers : update'[w] \in {update[w], Nowhere}
  PROVE  heap' \in [Storage -> Int] /\ Kept'
<1>1. heap' \in [Storage -> Int]
  BY DEF TensorInv, Places
<1>2. heap'[model] = heap[model]
  BY Kinds DEF TensorInv, Places
<1>3. ASSUME NEW w \in Workers, update'[w] # Nowhere PROVE heap'[update'[w]] = reported'[w]
  <2>1. update'[w] = update[w] /\ update[w] = <<"update", w>>
    BY <1>3 DEF TensorInv, Places
  <2>2. heap'[update[w]] = heap[update[w]]
    BY <2>1, Kinds DEF TensorInv, Places
  <2> QED BY <1>3, <2>1, <2>2 DEF TensorInv, Kept
<1> QED BY <1>1, <1>2, <1>3 DEF TensorInv, Kept

\* The coordinator copies its model into the vector of the round.
LEMMA SendKeeps == ASSUME TensorInv, SendRound PROVE TensorInv'
<1>1. <<"vector", round>> \in Vectors /\ <<"vector", round>> \in Storage /\ heap[model] \in Int
  BY Kinds DEF TensorInv, Places, Vectors
<1>2. /\ heap' = [heap EXCEPT ![<<"vector", round>>] = heap[model]]
      /\ command' \in [Workers -> Vectors \cup {Nowhere}]
      /\ update' \in [Workers -> Storage \cup {Nowhere}]
      /\ \A w \in Workers : update'[w] \in {update[w], Nowhere}
      /\ UNCHANGED <<model, round, expected, pc, params, baseline, local, reported>>
  BY <1>1, SMT DEF SendRound, ParameterVector, ParametersToVector, Alloc, TensorInv, Places
<1>3. /\ <<"vector", round>> \notin Models
      /\ \A w \in Workers : <<"vector", round>> # <<"update", w>>
  BY DEF Models
<1>4. heap' \in [Storage -> Int] /\ Kept'
  BY <1>1, <1>2, <1>3, WriteKeeps
<1>5. Places'
  BY <1>2, <1>4 DEF TensorInv, Places
<1> QED BY <1>4, <1>5 DEF TensorInv

\* The sum is put into a storage of its own, and the model moves there.
LEMMA ApplyKeeps == ASSUME TensorInv, ApplyParameterDelta PROVE TensorInv'
<1> DEFINE s == <<"model", round>>
<1>1. s \in Models /\ s \in Storage /\ model \in Storage
  BY TensorAssumption, Kinds, SMT DEF TensorInv, Places, Models
<1>2. PICK w \in Collected :
        /\ heap' = [heap EXCEPT ![s] = heap[model] + heap[update[w]]]
        /\ model' = s /\ expected' = expected + reported[w]
  BY DEF ApplyParameterDelta, Alloc
<1>3. w \in Workers /\ update[w] # Nowhere /\ update[w] \in Storage
  <2>1. w \in Workers /\ update[w] # Nowhere
    BY <1>2 DEF Collected
  <2> QED BY <2>1 DEF TensorInv, Places
<1>4. heap[update[w]] = reported[w] /\ heap[model] = expected
  BY <1>3 DEF TensorInv, Kept
<1>5. heap[model] + heap[update[w]] \in Int
  BY <1>1, <1>3, SMT DEF TensorInv, Places
<1>6. /\ round' \in 1 .. Rounds
      /\ UNCHANGED <<command, pc, params, baseline, local, update, reported>>
  BY TensorAssumption, SMT DEF ApplyParameterDelta, workerVars, TensorInv, Places
<1> HIDE DEF s
<1>7. heap' \in [Storage -> Int] /\ heap'[s] = heap[model] + heap[update[w]]
  BY <1>1, <1>2, <1>5 DEF TensorInv, Places
<1>8. \A v \in Workers : update[v] # Nowhere => heap'[update[v]] = heap[update[v]]
  <2> SUFFICES ASSUME NEW v \in Workers, update[v] # Nowhere PROVE heap'[update[v]] = heap[update[v]]
    OBVIOUS
  <2>1. update[v] \in Storage /\ update[v] = <<"update", v>>
    BY DEF TensorInv, Places
  <2>2. update[v] # s
    BY <1>1, <2>1, Kinds
  <2> QED BY <1>2, <2>1, <2>2 DEF TensorInv, Places
<1>9. Places'
  BY <1>1, <1>2, <1>6, <1>7 DEF TensorInv, Places
<1>10. Kept'
  BY <1>2, <1>4, <1>6, <1>7, <1>8 DEF TensorInv, Kept
<1> QED BY <1>9, <1>10 DEF TensorInv

\* A worker loads the vector, trains in it or in its copy, and flattens the result
\* into a storage of its own.
LEMMA TrainingKeeps ==
  ASSUME TensorInv, NEW w \in Workers,
         LoadGlobalParameters(w) \/ OptimizerStep(w) \/ FlattenParameters(w)
  PROVE  TensorInv'
<1>0. Trainable \subseteq Storage /\ params[w] \in Trainable
  BY Kinds DEF TensorInv, Places
<1>1. CASE LoadGlobalParameters(w)
  <2> DEFINE prepared == IF CopiesToDevice(w) THEN <<"copy", w>> ELSE command[w]
  <2>1. command[w] \in Vectors /\ prepared \in Trainable /\ heap[command[w]] \in Int
    BY <1>1, Kinds, SMT DEF LoadGlobalParameters, TensorInv, Places, Trainable
  <2>2. /\ params' = [params EXCEPT ![w] = prepared] /\ baseline' = [baseline EXCEPT ![w] = prepared]
        /\ command' = [command EXCEPT ![w] = Nowhere] /\ pc' = [pc EXCEPT ![w] = "training"]
        /\ UNCHANGED <<model, round, expected, local, update, reported>>
        /\ heap' = IF CopiesToDevice(w) THEN [heap EXCEPT ![<<"copy", w>>] = heap[command[w]]]
                                         ELSE heap
    BY <1>1 DEF LoadGlobalParameters, Alloc
  <2> HIDE DEF prepared
  <2>3. heap' \in [Storage -> Int] /\ Kept'
    <3>1. CASE CopiesToDevice(w)
      <4>1. /\ <<"copy", w>> \in Storage /\ <<"copy", w>> \notin Models
            /\ \A v \in Workers : <<"copy", w>> # <<"update", v>>
        BY Kinds DEF Models
      <4>2. heap' = [heap EXCEPT ![<<"copy", w>>] = heap[command[w]]]
        BY <2>2, <3>1
      <4> QED BY <2>1, <2>2, <4>1, <4>2, WriteKeeps
    <3>2. CASE ~CopiesToDevice(w)
      BY <2>2, <3>2 DEF TensorInv, Places, Kept
    <3> QED BY <3>1, <3>2
  <2>4. Places'
    BY <2>1, <2>2, <2>3 DEF TensorInv, Places, Steps
  <2> QED BY <2>3, <2>4 DEF TensorInv
<1>2. CASE OptimizerStep(w)
  <2>1. PICK g \in Gradients : heap' = [heap EXCEPT ![params[w]] = heap[params[w]] + g]
    BY <1>2 DEF OptimizerStep
  <2>2. heap[params[w]] + g \in Int
    BY <1>0, TensorAssumption, SMT DEF TensorInv, Places
  <2>3. UNCHANGED <<model, round, expected, command, pc, params, baseline, local, update, reported>>
    BY <1>2 DEF OptimizerStep
  <2>4. params[w] \notin Models /\ \A v \in Workers : params[w] # <<"update", v>>
    BY <1>0, Kinds
  <2>5. heap' \in [Storage -> Int] /\ Kept'
    BY <1>0, <2>1, <2>2, <2>3, <2>4, WriteKeeps
  <2>6. Places'
    BY <2>3, <2>5 DEF TensorInv, Places
  <2> QED BY <2>5, <2>6 DEF TensorInv
<1>3. CASE FlattenParameters(w)
  <2>1. /\ heap' = [heap EXCEPT ![<<"local", w>>] = heap[params[w]]] /\ heap[params[w]] \in Int
        /\ local' = [local EXCEPT ![w] = <<"local", w>>] /\ pc' = [pc EXCEPT ![w] = "flattened"]
        /\ pc[w] = "training"
        /\ UNCHANGED <<model, round, expected, command, params, baseline, update, reported>>
    BY <1>0, <1>3 DEF FlattenParameters, ParametersToVector, Alloc, TensorInv, Places
  <2>2. heap' \in [Storage -> Int] /\ Kept'
    BY <2>1, Kinds, WriteKeeps
  <2>3. Places'
    BY <2>1, <2>2, Kinds DEF TensorInv, Places, Steps
  <2> QED BY <2>2, <2>3 DEF TensorInv
<1> QED BY <1>1, <1>2, <1>3

\* The update is computed into a storage of its own.
LEMMA ReportKeeps == ASSUME TensorInv, NEW w \in Workers, ReportUpdate(w) PROVE TensorInv'
<1> DEFINE s == <<"update", w>>
           delta == heap[local[w]] - heap[baseline[w]]
<1>1. delta \in Int
  <2>1. local[w] = <<"local", w>> /\ baseline[w] \in Trainable
    BY DEF ReportUpdate, TensorInv, Places
  <2>2. local[w] \in Storage /\ baseline[w] \in Storage
    BY <2>1, Kinds
  <2> QED BY <2>2, SMT DEF TensorInv, Places
<1>2. PICK n \in Noise :
        /\ heap' = [heap EXCEPT ![s] = ProtectModelUpdate(w, TransformUpdate(w, delta), n)]
        /\ update' = [update EXCEPT ![w] = s]
        /\ reported' = [reported EXCEPT ![w] = ProtectModelUpdate(w, TransformUpdate(w, delta), n)]
  BY DEF ReportUpdate, Alloc
<1> DEFINE protected == ProtectModelUpdate(w, TransformUpdate(w, delta), n)
<1> HIDE DEF delta
<1>3. protected \in Int
  BY <1>1, TensorAssumption, SMT DEF ProtectModelUpdate, TransformUpdate
<1> HIDE DEF protected
<1>4. /\ heap' = [heap EXCEPT ![s] = protected] /\ reported' = [reported EXCEPT ![w] = protected]
      /\ s \in Storage /\ s \notin Models
  BY <1>2, Kinds DEF protected
<1>5. /\ pc' = [pc EXCEPT ![w] = "idle"]
      /\ UNCHANGED <<model, round, expected, command, params, baseline, local>>
  BY DEF ReportUpdate
<1>6. Places'
  BY <1>2, <1>3, <1>4, <1>5, SMT DEF TensorInv, Places, Steps
<1>7. heap'[model] = heap[model]
  BY <1>4, SMT DEF TensorInv, Places
<1>8. ASSUME NEW v \in Workers, update'[v] # Nowhere PROVE heap'[update'[v]] = reported'[v]
  <2>1. CASE v = w
    BY <1>2, <1>4, <2>1 DEF TensorInv, Places
  <2>2. CASE v # w
    <3>1. update'[v] = update[v] /\ reported'[v] = reported[v] /\ update[v] = <<"update", v>>
      BY <1>2, <1>4, <1>8, <2>2 DEF TensorInv, Places
    <3>2. heap'[update[v]] = heap[update[v]]
      BY <1>4, <2>2, <3>1, Kinds DEF TensorInv, Places
    <3> QED BY <1>8, <3>1, <3>2 DEF TensorInv, Kept
  <2> QED BY <2>1, <2>2
<1> QED BY <1>5, <1>6, <1>7, <1>8 DEF TensorInv, Kept

\* No step of the coordinator or of a worker breaks the invariant.
LEMMA TensorStep == TensorInv /\ [Next]_vars => TensorInv'
<1> SUFFICES ASSUME TensorInv, [Next]_vars PROVE TensorInv'
  OBVIOUS
<1>1. CASE RoundFails \/ UNCHANGED vars
  BY <1>1 DEF RoundFails, vars, workerVars, TensorInv, Places, Kept
<1>2. ASSUME NEW w \in Workers, TrainingFails(w) PROVE TensorInv'
  BY <1>2 DEF TrainingFails, TensorInv, Places, Kept, Steps
<1> QED BY <1>1, <1>2, SendKeeps, ApplyKeeps, TrainingKeeps, ReportKeeps DEF Next

\* Whatever the workers write in place, the model of the coordinator is its initial
\* value plus the aggregates _apply_parameter_delta added to it.
THEOREM ModelMovesByAggregatesHolds == Spec => []ModelMovesByAggregates
<1>1. TensorInv => ModelMovesByAggregates
  BY DEF TensorInv, Kept, ModelMovesByAggregates
<1> QED BY <1>1, TensorInit, TensorStep, PTL DEF Spec

\* An update does not change between its report and its aggregation.
THEOREM ReportsAreStableHolds == Spec => []ReportsAreStable
<1>1. TensorInv => ReportsAreStable
  BY DEF TensorInv, Kept, ReportsAreStable
<1> QED BY <1>1, TensorInit, TensorStep, PTL DEF Spec

=============================================================================
