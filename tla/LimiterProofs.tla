--------------------------- MODULE LimiterProofs ---------------------------
(***************************************************************************)
(* Theorems about Limiter for any number of clients and closers, any gain   *)
(* cycle, limits and round-trip times, proved from one inductive invariant. *)
(***************************************************************************)
EXTENDS Limiter, FiniteSetTheorems, TLAPS

\* A client about to swap inflight has seen fewer permits out than some limit
\* allowed, and peak is no lower than any limit.
PermitInv == /\ limit <= peak
             /\ \A c \in Clients : pc[c] = "acquire" => seen[c] < peak

\* Clients in observeRTT.
Observing == {"loadMin", "swapMin", "loadEMA", "swapEMA"}

\* A client that observes has a sample, about to swap it in only if it is lower
\* than the minimum it has seen; when it comes to the average, the minimum is no
\* higher than its sample.
SampleInv ==
  \A c \in Clients :
    /\ pc[c] \in Observing => sample[c] \in Samples
    /\ pc[c] = "swapMin" => sample[c] < seen[c]
    /\ pc[c] \in {"loadEMA", "swapEMA"} => rttMin <= sample[c]

\* AverageAboveMin, where the mean of two values is between them.
AverageInv == Smoothing \in 0..1024 => rttEMA = 0 \/ rttEMA >= rttMin

IInv == /\ TypeOK /\ PermitInv /\ SampleInv
        /\ PermitsBalance /\ InflightBounded /\ AverageInv

----------------------------------------------------------------------------
(* Arithmetic and finite sets.                                              *)

\* A weighted mean lies between whatever bounds both of its parts.
LEMMA MeanBetween ==
  ASSUME NEW lo \in Nat, NEW hi \in Nat, NEW a \in lo..hi, NEW b \in lo..hi,
         NEW w \in 0..1024
  PROVE  (a * (1024 - w) + b * w) \div 1024 \in lo..hi
<1> DEFINE v == 1024 - w
           s == a * v + b * w
<1>1. v \in Nat /\ w \in Nat /\ v + w = 1024
  OBVIOUS
<1>2. (a - lo) * v >= 0 /\ (b - lo) * w >= 0
      /\ (hi - a) * v >= 0 /\ (hi - b) * w >= 0
  OBVIOUS
<1>3. /\ (a - lo) * v = a * v - lo * v /\ (b - lo) * w = b * w - lo * w
      /\ (hi - a) * v = hi * v - a * v /\ (hi - b) * w = hi * w - b * w
  OBVIOUS
<1>4. lo * v + lo * w = lo * 1024 /\ hi * v + hi * w = hi * 1024
  OBVIOUS
<1>5. s \in Int /\ lo * 1024 <= s /\ s <= hi * 1024
  <2> DEFINE av == a * v  bw == b * w  lv == lo * v  lw == lo * w
             hv == hi * v  hw == hi * w
  <2>1. av \in Int /\ bw \in Int /\ lv \in Int /\ lw \in Int /\ hv \in Int
        /\ hw \in Int
    BY <1>1
  <2>2. av - lv >= 0 /\ bw - lw >= 0 /\ hv - av >= 0 /\ hw - bw >= 0
    BY <1>2, <1>3
  <2>3. lv + lw = lo * 1024 /\ hv + hw = hi * 1024
    BY <1>4
  <2> HIDE DEF av, bw, lv, lw, hv, hw
  <2>4. av + bw \in Int /\ lo * 1024 <= av + bw /\ av + bw <= hi * 1024
    BY <2>1, <2>2, <2>3
  <2> QED BY <2>4 DEF av, bw
<1> HIDE DEF s
<1>6. s \div 1024 \in lo..hi
  BY <1>5
<1> QED BY <1>6 DEF s

\* The average is between the old one and the sample.
LEMMA AverageBetween ==
  ASSUME NEW lo \in Nat, NEW hi \in Nat, NEW old \in Nat, NEW ns \in lo..hi,
         old = 0 \/ old \in lo..hi
  PROVE  Smoothing \in 0..1024 => Average(old, ns) \in lo..hi
<1> SUFFICES ASSUME Smoothing \in 0..1024 PROVE Average(old, ns) \in lo..hi
  OBVIOUS
<1>1. CASE old = 0
  BY <1>1 DEF Average
<1>2. CASE old # 0
  <2>1. old \in lo..hi
    BY <1>2
  <2>2. (old * (1024 - Smoothing) + ns * Smoothing) \div 1024 \in lo..hi
    BY <2>1, MeanBetween
  <2> QED BY <1>2, <2>2 DEF Average
<1> QED BY <1>1, <1>2

\* Whatever the gain and the queue, the loop stores a limit within its bounds.
LEMMA TargetInBounds ==
  ASSUME NEW gain \in Int, TypeOK
  PROVE  Clamped(Target(gain)) \in MinLimit..MaxLimit
<1>1. Target(gain) \in Int
  <2> DEFINE base == (limit * gain) \div 1024
             factor == (minRTT * 1024) \div emaRTT
  <2>1. limit \in Nat /\ minRTT \in Nat /\ emaRTT \in Int
    BY DEF TypeOK
  <2>2. base \in Int
    <3>1. limit * gain \in Int
      BY <2>1
    <3> QED BY <3>1
  <2>3. CASE emaRTT > minRTT
    <3>1. factor \in Int
      <4>1. minRTT * 1024 \in Int /\ emaRTT \in Int /\ emaRTT > 0
        BY <2>1, <2>3
      <4> QED BY <4>1
    <3> HIDE DEF base, factor
    <3>2. (base * factor) \div 1024 \in Int
      <4>1. base * factor \in Int
        BY <2>2, <3>1
      <4> QED BY <4>1
    <3> QED BY <2>3, <3>2 DEF Target, base, factor
  <2>4. CASE ~(emaRTT > minRTT)
    BY <2>2, <2>4 DEF Target
  <2> QED BY <2>3, <2>4
<1> QED BY <1>1, OptionsAssumption DEF Clamped

\* The clients with a permit are counted by a number of at most all clients.
LEMMA HoldersFinite ==
  /\ IsFiniteSet(Holders)
  /\ Cardinality(Holders) \in 0..Cardinality(Clients)
<1>1. Holders \subseteq Clients
  BY DEF Holders
<1>2. IsFiniteSet(Holders) /\ Cardinality(Holders) <= Cardinality(Clients)
  BY <1>1, FS_Subset, ClientsAssumption
<1>3. Cardinality(Holders) \in Nat /\ Cardinality(Clients) \in Nat
  BY <1>2, FS_CardinalityType, ClientsAssumption
<1> QED BY <1>2, <1>3

\* A client with a permit is one of those that are counted.
LEMMA HolderCounted ==
  ASSUME TypeOK, PermitsBalance, NEW c \in Holders
  PROVE  inflight > 0
<1>1. Holders # {} /\ IsFiniteSet(Holders)
  BY HoldersFinite
<1>2. Cardinality(Holders) # 0
  BY <1>1, FS_EmptySet
<1> QED BY <1>2, HoldersFinite, FS_CardinalityType, ClientsAssumption
        DEF PermitsBalance

----------------------------------------------------------------------------
LEMMA InitIInv == Init => IInv
<1> SUFFICES ASSUME Init PROVE IInv
  OBVIOUS
<1>1. Len(GainCycle) \in Nat \ {0}
  BY OptionsAssumption
<1>2. Cardinality(Clients) \in Nat
  BY FS_CardinalityType, ClientsAssumption
<1>3. TypeOK
  <2>1. /\ limit \in Nat \ {0} /\ peak \in Nat \ {0}
        /\ inflight \in 0..Cardinality(Clients)
        /\ rttMin \in Samples \cup {HighRTT} /\ rttEMA \in Int
        /\ cycleIndex \in 0..(Len(GainCycle) - 1)
        /\ minRTT \in Nat /\ emaRTT \in Int
    BY <1>1, <1>2, SamplesAssumption, OptionsAssumption DEF Init
  <2>2. /\ stopCh \in BOOLEAN
        /\ loop \in {"select", "loadEMA", "store", "gone"}
        /\ closer \in [Closers -> {"idle", "waiting", "returned"}]
    BY DEF Init
  <2>3. /\ pc \in [Clients -> {"idle", "loadLimit", "acquire", "executing",
                               "done", "release", "loadMin", "swapMin",
                               "loadEMA", "swapEMA"}]
        /\ seen \in [Clients -> Int]
        /\ sample \in [Clients -> Samples \cup {0}]
    BY DEF Init
  <2> QED BY <2>1, <2>2, <2>3 DEF TypeOK
<1>4. Holders = {}
  BY DEF Init, Holders
<1>5. PermitsBalance
  BY <1>4, FS_EmptySet DEF Init, PermitsBalance
<1> QED BY <1>3, <1>5, OptionsAssumption
          DEF Init, IInv, PermitInv, SampleInv, Observing, InflightBounded,
              AverageInv

----------------------------------------------------------------------------
\* What no step of Acquire touches.
LEMMA AcquireStep ==
  ASSUME IInv, NEW c \in Clients,
         LoadInflight(c) \/ LoadLimit(c) \/ Acquire(c)
  PROVE  IInv'
<1> USE DEF IInv, Goto, See, Leave
<1>1. inflight \in Nat /\ peak \in Nat /\ limit \in Nat
  BY HoldersFinite DEF TypeOK
<1>2. CASE LoadInflight(c)
  <2>1. TypeOK'
    BY <1>1, <1>2 DEF LoadInflight, TypeOK, paced, model, control, shutdown
  <2>2. PermitInv' /\ SampleInv'
    BY <1>2 DEF LoadInflight, TypeOK, PermitInv, SampleInv, Observing, paced,
                model
  <2>3. Holders' = Holders
    BY <1>2 DEF LoadInflight, TypeOK, Holders
  <2> QED BY <1>2, <2>1, <2>2, <2>3
          DEF LoadInflight, PermitsBalance, InflightBounded, AverageInv,
              paced, model
<1>3. CASE LoadLimit(c)
  <2>1. TypeOK'
    <3>1. /\ pc' = [pc EXCEPT ![c] = "idle"] \/ pc' = [pc EXCEPT ![c] = "acquire"]
          /\ seen' = seen \/ seen' = [seen EXCEPT ![c] = 0]
          /\ sample' = sample \/ sample' = [sample EXCEPT ![c] = 0]
          /\ UNCHANGED <<paced, inflight, model, control, shutdown>>
      BY <1>3 DEF LoadLimit
    <3> QED BY <3>1 DEF TypeOK, paced, model, control, shutdown
  <2>2. PermitInv'
    <3>1. seen[c] \in Int
      BY DEF TypeOK
    <3>2. CASE AtLimit(seen[c])
      BY <1>3, <3>1, <3>2 DEF LoadLimit, TypeOK, PermitInv, paced
    <3>3. CASE ~AtLimit(seen[c])
      <4>1. seen[c] < peak
        BY <1>1, <3>1, <3>3 DEF AtLimit, PermitInv
      <4>2. pc' = [pc EXCEPT ![c] = "acquire"] /\ UNCHANGED <<limit, peak, seen>>
        BY <1>3, <3>3 DEF LoadLimit, paced
      <4> QED BY <4>1, <4>2 DEF TypeOK, PermitInv
    <3> QED BY <3>2, <3>3
  <2>3. SampleInv'
    BY <1>3 DEF LoadLimit, TypeOK, SampleInv, Observing, model
  <2>4. Holders' = Holders
    BY <1>3 DEF LoadLimit, TypeOK, Holders
  <2> QED BY <1>3, <2>1, <2>2, <2>3, <2>4
          DEF LoadLimit, PermitsBalance, InflightBounded, AverageInv,
              paced, model
<1>4. CASE Acquire(c) /\ Unchanged(c, inflight)
  <2>1. inflight' = inflight + 1 /\ inflight < peak
    BY <1>4 DEF Acquire, Unchanged, PermitInv
  <2>2. Holders' = Holders \cup {c} /\ c \notin Holders
    BY <1>4 DEF Acquire, TypeOK, Holders
  <2>3. PermitsBalance'
    BY <2>1, <2>2, HoldersFinite, FS_AddElement DEF PermitsBalance
  <2>4. inflight' \in 0..Cardinality(Clients)
    <3>1. Holders' \subseteq Clients
      BY <2>2 DEF Holders
    <3>2. IsFiniteSet(Holders') /\ Cardinality(Holders') <= Cardinality(Clients)
      BY <3>1, FS_Subset, ClientsAssumption
    <3>3. Cardinality(Clients) \in Nat
      BY FS_CardinalityType, ClientsAssumption
    <3> QED BY <1>1, <2>1, <2>3, <3>2, <3>3 DEF PermitsBalance
  <2>5. TypeOK'
    BY <1>4, <2>4 DEF Acquire, TypeOK, paced, model, control, shutdown
  <2>6. PermitInv' /\ SampleInv'
    BY <1>4 DEF Acquire, TypeOK, PermitInv, SampleInv, Observing, paced, model
  <2> QED BY <1>1, <1>4, <2>1, <2>3, <2>5, <2>6
          DEF Acquire, InflightBounded, AverageInv, paced, model
<1>5. CASE Acquire(c) /\ ~Unchanged(c, inflight)
  <2>1. TypeOK'
    BY <1>1, <1>5 DEF Acquire, TypeOK, paced, model, control, shutdown
  <2>2. PermitInv' /\ SampleInv'
    BY <1>5 DEF Acquire, TypeOK, PermitInv, SampleInv, Observing, paced, model
  <2>3. Holders' = Holders
    BY <1>5 DEF Acquire, TypeOK, Holders
  <2> QED BY <1>5, <2>1, <2>2, <2>3
          DEF Acquire, PermitsBalance, InflightBounded, AverageInv, paced,
              model
<1> QED BY <1>2, <1>3, <1>4, <1>5

\* The handler, and Done: the permit is given back once.
LEMMA ReleaseStep ==
  ASSUME IInv, NEW c \in Clients,
         \/ \E ns \in Samples, ok \in BOOLEAN : Execute(c, ns, ok)
         \/ LoadForRelease(c) \/ Release(c)
  PROVE  IInv'
<1> USE DEF IInv, Goto, See, Leave
<1>1. inflight \in Nat /\ peak \in Nat
  BY HoldersFinite DEF TypeOK
<1>2. ASSUME NEW ns \in Samples, NEW ok \in BOOLEAN, Execute(c, ns, ok)
      PROVE  IInv'
  <2>1. TypeOK'
    BY <1>2 DEF Execute, TypeOK, paced, model, control, shutdown
  <2>2. PermitInv' /\ SampleInv'
    BY <1>2 DEF Execute, TypeOK, PermitInv, SampleInv, Observing, paced, model
  <2>3. Holders' = Holders
    BY <1>2 DEF Execute, TypeOK, Holders
  <2> QED BY <1>2, <2>1, <2>2, <2>3
          DEF Execute, PermitsBalance, InflightBounded, AverageInv, paced,
              model
<1>3. CASE LoadForRelease(c)
  <2>0. inflight > 0
    BY <1>1, <1>3, HolderCounted DEF LoadForRelease, Holders
  <2>1. TypeOK'
    BY <1>1, <1>3, <2>0 DEF LoadForRelease, TypeOK, paced, model, control,
                              shutdown
  <2>2. PermitInv' /\ SampleInv'
    BY <1>3, <2>0 DEF LoadForRelease, TypeOK, PermitInv, SampleInv, Observing,
                      paced, model
  <2>3. Holders' = Holders
    BY <1>3, <2>0 DEF LoadForRelease, TypeOK, Holders
  <2> QED BY <1>3, <2>1, <2>2, <2>3
          DEF LoadForRelease, PermitsBalance, InflightBounded,
              AverageInv, paced, model
<1>4. CASE Release(c) /\ Unchanged(c, inflight)
  <2>1. inflight' = inflight - 1
    BY <1>4 DEF Release, Unchanged
  <2>2. Holders' = Holders \ {c} /\ c \in Holders
    BY <1>4 DEF Release, TypeOK, Holders
  <2>3. PermitsBalance'
    BY <2>1, <2>2, HoldersFinite, FS_RemoveElement DEF PermitsBalance
  <2>4. inflight' \in 0..Cardinality(Clients)
    <3>1. IsFiniteSet(Holders') /\ Cardinality(Holders') \in Nat
      BY <2>2, HoldersFinite, FS_RemoveElement, FS_CardinalityType
    <3>2. Cardinality(Clients) \in Nat
      BY FS_CardinalityType, ClientsAssumption
    <3> QED BY <2>1, <2>3, <3>1, <3>2 DEF PermitsBalance, TypeOK
  <2>5. TypeOK'
    BY <1>4, <2>4 DEF Release, TypeOK, paced, model, control, shutdown
  <2>6. PermitInv' /\ SampleInv'
    BY <1>4 DEF Release, TypeOK, PermitInv, SampleInv, Observing, paced, model
  <2> QED BY <1>1, <1>4, <2>1, <2>3, <2>5, <2>6
          DEF Release, InflightBounded, AverageInv, paced, model
<1>5. CASE Release(c) /\ ~Unchanged(c, inflight)
  <2>1. TypeOK'
    BY <1>5 DEF Release, TypeOK, paced, model, control, shutdown
  <2>2. PermitInv' /\ SampleInv'
    BY <1>5 DEF Release, TypeOK, PermitInv, SampleInv, Observing, paced, model
  <2>3. Holders' = Holders
    BY <1>5 DEF Release, TypeOK, Holders
  <2> QED BY <1>5, <2>1, <2>2, <2>3
          DEF Release, PermitsBalance, InflightBounded, AverageInv, paced,
              model
<1> QED BY <1>2, <1>3, <1>4, <1>5

----------------------------------------------------------------------------
\* Steps of observeRTT: the minimum falls only, and the average stays above it.
LEMMA ObserveStep ==
  ASSUME IInv, NEW c \in Clients,
         LoadMin(c) \/ SwapMin(c) \/ LoadEMA(c) \/ SwapEMA(c)
  PROVE  IInv'
<1> USE DEF IInv, Goto, See, Leave
<1>1. /\ rttMin \in Nat /\ rttEMA \in Int /\ seen[c] \in Int
      /\ sample[c] \in Samples /\ sample[c] \in Nat
  <2>1. rttMin \in Nat /\ rttEMA \in Int /\ seen[c] \in Int
    BY SamplesAssumption DEF TypeOK
  <2>2. pc[c] \in Observing
    BY DEF LoadMin, SwapMin, LoadEMA, SwapEMA, Observing
  <2> QED BY <2>1, <2>2, SamplesAssumption DEF SampleInv
<1>2. Holders' = Holders
  BY DEF LoadMin, SwapMin, LoadEMA, SwapEMA, TypeOK, Holders
<1>3. PermitsBalance' /\ InflightBounded'
  BY <1>2 DEF LoadMin, SwapMin, LoadEMA, SwapEMA, PermitsBalance,
              InflightBounded, paced
<1>4. PermitInv'
  BY DEF LoadMin, SwapMin, LoadEMA, SwapEMA, PermitInv, TypeOK, paced
<1>5. CASE LoadMin(c)
  <2>1. TypeOK'
    BY <1>1, <1>5 DEF LoadMin, TypeOK, paced, model, control, shutdown
  <2>2. SampleInv'
    BY <1>1, <1>5 DEF LoadMin, Lower, TypeOK, SampleInv, Observing, model
  <2> QED BY <1>3, <1>4, <1>5, <2>1, <2>2 DEF LoadMin, AverageInv, model
<1>6. CASE SwapMin(c) /\ Unchanged(c, rttMin)
  <2>1. rttMin' = sample[c] /\ rttMin' < rttMin /\ rttEMA' = rttEMA
    BY <1>6 DEF SwapMin, Unchanged, SampleInv
  <2>2. TypeOK'
    BY <1>1, <1>6, <2>1 DEF SwapMin, TypeOK, paced, control, shutdown
  <2>3. SampleInv'
    <3> SUFFICES ASSUME NEW d \in Clients
                 PROVE  /\ pc'[d] \in Observing => sample'[d] \in Samples
                        /\ pc'[d] = "swapMin" => sample'[d] < seen'[d]
                        /\ pc'[d] \in {"loadEMA", "swapEMA"}
                             => rttMin' <= sample'[d]
      BY DEF SampleInv
    <3>1. CASE d = c
      BY <1>1, <1>6, <2>1, <3>1 DEF SwapMin, TypeOK, SampleInv, Observing
    <3>2. CASE d # c
      <4>1. sample[d] \in Nat
        <5>1. sample[d] \in Samples \cup {0}
          BY DEF TypeOK
        <5>2. \A ns \in Samples : ns \in Nat
          BY SamplesAssumption
        <5> QED BY <5>1, <5>2
      <4>2. pc'[d] = pc[d] /\ sample'[d] = sample[d] /\ seen'[d] = seen[d]
        BY <1>6, <3>2 DEF SwapMin, TypeOK
      <4> QED BY <1>1, <2>1, <4>1, <4>2 DEF SampleInv
    <3> QED BY <3>1, <3>2
  <2>4. AverageInv'
    BY <1>1, <2>1 DEF AverageInv
  <2> QED BY <1>3, <1>4, <2>2, <2>3, <2>4
<1>7. CASE SwapMin(c) /\ ~Unchanged(c, rttMin)
  <2>1. TypeOK'
    BY <1>1, <1>7 DEF SwapMin, TypeOK, paced, control, shutdown
  <2>2. SampleInv'
    BY <1>1, <1>7 DEF SwapMin, TypeOK, SampleInv, Observing
  <2> QED BY <1>3, <1>4, <1>7, <2>1, <2>2 DEF SwapMin, AverageInv
<1>8. CASE LoadEMA(c)
  <2>1. TypeOK'
    BY <1>1, <1>8 DEF LoadEMA, TypeOK, paced, model, control, shutdown
  <2>2. SampleInv'
    BY <1>1, <1>8 DEF LoadEMA, TypeOK, SampleInv, Observing, model
  <2> QED BY <1>3, <1>4, <1>8, <2>1, <2>2 DEF LoadEMA, AverageInv, model
<1>9. CASE SwapEMA(c)
  <2>1. SampleInv'
    BY <1>1, <1>9 DEF SwapEMA, TypeOK, SampleInv, Observing
  <2>2. CASE Unchanged(c, rttEMA)
    <3>1. rttEMA = seen[c] /\ rttEMA' = Average(rttEMA, sample[c])
          /\ rttMin' = rttMin
      BY <1>9, <2>2 DEF SwapEMA, Unchanged
    <3>2. rttMin <= sample[c]
      BY <1>9 DEF SwapEMA, SampleInv
    <3>3. AverageInv
      OBVIOUS
    <3>4. rttEMA' \in Int
      <4>1. Smoothing \in Int
        BY OptionsAssumption
      <4> HIDE DEF IInv
      <4> DEFINE sum == rttEMA * (1024 - Smoothing) + sample[c] * Smoothing
      <4>2. sum \in Int
        BY <1>1, <4>1
      <4> HIDE DEF sum
      <4>3. sum \div 1024 \in Int
        BY <4>2
      <4> QED BY <1>1, <3>1, <4>3 DEF Average, sum
    <3> HIDE DEF IInv
    <3>5. AverageInv'
      <4> SUFFICES ASSUME Smoothing \in 0..1024 PROVE rttEMA' >= rttMin
        BY <3>1 DEF AverageInv
      <4>1. rttEMA = 0 \/ rttEMA >= rttMin
        BY <3>3 DEF AverageInv
      <4> DEFINE high == rttEMA + sample[c]
      <4>2. rttEMA \in Nat /\ high \in Nat
        BY <1>1, <4>1
      <4>3. sample[c] \in rttMin..high
        BY <1>1, <3>2, <4>2
      <4>4. rttEMA = 0 \/ rttEMA \in rttMin..high
        BY <1>1, <4>1, <4>2
      <4> HIDE DEF high
      <4>5. rttEMA' \in rttMin..high
        BY <1>1, <3>1, <4>2, <4>3, <4>4, AverageBetween
      <4> QED BY <1>1, <4>2, <4>5
    <3>6. TypeOK'
      <4>1. /\ pc' = [pc EXCEPT ![c] = "idle"]
            /\ seen' = [seen EXCEPT ![c] = 0]
            /\ sample' = [sample EXCEPT ![c] = 0]
            /\ UNCHANGED <<paced, inflight, rttMin, control, shutdown>>
        BY <1>9, <2>2 DEF SwapEMA
      <4> QED BY <3>4, <4>1 DEF IInv, TypeOK, paced, control, shutdown
    <3> QED BY <1>3, <1>4, <2>1, <3>5, <3>6 DEF IInv
  <2>3. CASE ~Unchanged(c, rttEMA)
    <3>1. TypeOK'
      BY <1>9, <2>3 DEF SwapEMA, TypeOK, paced, control, shutdown
    <3> QED BY <1>3, <1>4, <1>9, <2>1, <2>3, <3>1
            DEF SwapEMA, AverageInv
  <2> QED BY <2>2, <2>3
<1> QED BY <1>5, <1>6, <1>7, <1>8, <1>9

----------------------------------------------------------------------------
\* The control loop: the limit it stores is within its bounds, and no higher
\* than the peak it leaves.
LEMMA ControlStep ==
  ASSUME IInv, Adjust \/ LoopStops
  PROVE  IInv'
<1> USE DEF IInv
<1>1. /\ limit \in Nat /\ peak \in Nat /\ inflight \in Nat /\ rttMin \in Nat
      /\ rttEMA \in Int
  BY HoldersFinite, SamplesAssumption DEF TypeOK
<1>2. UNCHANGED <<inflight, model, client, shutdown>>
  BY DEF Adjust, LoopTick, LoopLoadEMA, LoopStore, LoopStops
<1>3. Holders' = Holders
  BY <1>2 DEF Holders, client
<1>4. PermitsBalance' /\ SampleInv' /\ AverageInv'
  BY <1>2, <1>3 DEF PermitsBalance, SampleInv, AverageInv, client, model
<1>5. CASE LoopTick \/ LoopLoadEMA \/ LoopStops
  <2>1. TypeOK'
    BY <1>1, <1>2, <1>5 DEF LoopTick, LoopLoadEMA, LoopStops, TypeOK, paced,
                            model, client, shutdown
  <2> QED BY <1>2, <1>4, <1>5, <2>1
          DEF LoopTick, LoopLoadEMA, LoopStops, PermitInv, InflightBounded,
              paced, client
<1>6. CASE LoopStore
  <2> DEFINE idx == (cycleIndex + 1) % Len(GainCycle)
  <2>1. idx \in 0..(Len(GainCycle) - 1) /\ GainCycle[idx + 1] \in Int
    <3>1. Len(GainCycle) \in Nat \ {0} /\ cycleIndex \in Nat
      BY OptionsAssumption DEF TypeOK
    <3>2. idx \in 0..(Len(GainCycle) - 1)
      BY <3>1
    <3> HIDE DEF idx
    <3>3. idx + 1 \in 1..Len(GainCycle)
      BY <3>1, <3>2
    <3> QED BY <3>2, <3>3, OptionsAssumption
  <2>2. limit' \in MinLimit..MaxLimit /\ cycleIndex' = idx
    BY <1>6, <2>1, TargetInBounds DEF LoopStore
  <2>3. limit' \in Nat \ {0}
    BY <2>2, OptionsAssumption
  <2>4. peak' \in Nat \ {0} /\ peak' >= peak /\ peak' >= limit'
    BY <1>1, <1>6, <2>3 DEF LoopStore, TypeOK
  <2> HIDE DEF idx
  <2>5. TypeOK'
    BY <1>2, <1>6, <2>1, <2>2, <2>3, <2>4
       DEF LoopStore, TypeOK, model, client, shutdown
  <2>6. PermitInv'
    <3>1. \A c \in Clients : seen[c] \in Int
      BY DEF TypeOK
    <3> QED BY <1>1, <1>2, <2>3, <2>4, <3>1 DEF PermitInv, client
  <2>7. InflightBounded'
    BY <1>1, <1>2, <2>4 DEF InflightBounded
  <2> QED BY <1>4, <2>5, <2>6, <2>7
<1> QED BY <1>5, <1>6 DEF Adjust

LEMMA CloserStep ==
  ASSUME IInv, NEW k \in Closers, Close(k) \/ CloseReturns(k)
  PROVE  IInv'
<1>1. UNCHANGED <<paced, inflight, model, client, control>>
  BY DEF Close, CloseReturns
<1>2. TypeOK'
  BY <1>1 DEF IInv, Close, CloseReturns, TypeOK, paced, model, client, control
<1> QED BY <1>1, <1>2
        DEF IInv, PermitInv, SampleInv, PermitsBalance, Holders,
            InflightBounded, AverageInv, paced, model, client

LEMMA NextIInv == IInv /\ [Next]_vars => IInv'
<1>1. ASSUME IInv, UNCHANGED vars PROVE IInv'
  <2>1. UNCHANGED <<limit, peak, inflight, rttMin, rttEMA, cycleIndex, stopCh,
                    pc, seen, sample, loop, minRTT, emaRTT, closer>>
    BY <1>1 DEF vars, paced, model, client, control, shutdown
  <2>2. TypeOK'
    BY <1>1, <2>1 DEF IInv, TypeOK
  <2>3. PermitInv' /\ SampleInv' /\ AverageInv'
    BY <1>1, <2>1 DEF IInv, PermitInv, SampleInv, AverageInv
  <2>4. PermitsBalance' /\ InflightBounded'
    BY <1>1, <2>1 DEF IInv, PermitsBalance, Holders, InflightBounded
  <2> QED BY <2>2, <2>3, <2>4 DEF IInv
<1> QED BY <1>1, AcquireStep, ReleaseStep, ObserveStep, ControlStep, CloserStep
        DEF Next, Step

LEMMA Inductive == Spec => []IInv
BY InitIInv, NextIInv, PTL DEF Spec

----------------------------------------------------------------------------
\* Types: rttMin is always HighRTT or a sample, and the limit is never zero, so
\* that the limiter never shuts everybody out.
THEOREM TypeCorrect == Spec => []TypeOK
<1>1. IInv => TypeOK
  BY DEF IInv
<1> QED BY <1>1, Inductive, PTL

\* However the swaps of Acquire and Done race, inflight is the number of permits
\* that are out.
THEOREM PermitsConserved == Spec => []PermitsBalance
<1>1. IInv => PermitsBalance
  BY DEF IInv
<1> QED BY <1>1, Inductive, PTL

\* No more permits are ever out than some limit that was in force allowed,
\* however stale the limit an Acquire was decided on.
THEOREM PermitsBounded == Spec => []InflightBounded
<1>1. IInv => InflightBounded
  BY DEF IInv
<1> QED BY <1>1, Inductive, PTL

\* For a smoothing from 0 to 1024, as WithSmoothing asks for but does not enforce,
\* the average never falls below the minimum, whatever the rounding and the order
\* in which clients come to observe.
THEOREM QueueNeverNegative ==
  ASSUME Smoothing \in 0..1024
  PROVE  Spec => []AverageAboveMin
<1>1. IInv => AverageAboveMin
  BY DEF IInv, AverageInv, AverageAboveMin
<1> QED BY <1>1, Inductive, PTL

\* Of clients that race to lower the minimum each leaves it no higher than its
\* sample and no higher than it was: a swap compares with the value that the
\* sample was found to be below, and a lost one is decided again.
THEOREM RaceForMinimum == Spec => LowestWins
<1>1. ASSUME IInv, [Next]_vars, NEW c \in Clients, Measured(c)
      PROVE  rttMin' <= sample[c] /\ rttMin' <= rttMin
  <2>1. rttMin \in Nat /\ sample[c] \in Nat
    <3>1. rttMin \in Samples \cup {HighRTT} /\ sample[c] \in Samples \cup {0}
      BY <1>1 DEF IInv, TypeOK
    <3>2. HighRTT \in Nat /\ \A ns \in Samples : ns \in Nat
      BY SamplesAssumption
    <3> QED BY <3>1, <3>2
  <2>2. pc[c] \in {"loadMin", "swapMin"} /\ pc'[c] = "loadEMA"
    BY <1>1 DEF Measured
  <2>3. LoadMin(c) \/ SwapMin(c)
    <3>1. PICK d \in Clients : LoadInflight(d) \/ Step(d)
      BY <1>1, <2>2 DEF Next, Adjust, LoopTick, LoopLoadEMA, LoopStore,
                        LoopStops, Close, CloseReturns, vars, client
    <3>2. d = c
      <4>1. \E l : pc' = [pc EXCEPT ![d] = l]
        BY <3>1 DEF LoadInflight, Step, LoadLimit, Acquire, Execute,
                    LoadForRelease, Release, LoadMin, SwapMin, LoadEMA, SwapEMA,
                    Leave, Goto
      <4> QED BY <1>1, <2>2, <4>1 DEF IInv, TypeOK
    <3> QED BY <2>2, <3>1, <3>2
            DEF LoadInflight, Step, LoadLimit, Acquire, Execute,
                LoadForRelease, Release, LoadEMA, SwapEMA
  <2>4. CASE LoadMin(c)
    BY <1>1, <2>1, <2>2, <2>4 DEF LoadMin, Lower, Goto, model, IInv, TypeOK
  <2>5. CASE SwapMin(c)
    BY <1>1, <2>1, <2>2, <2>5
       DEF SwapMin, Unchanged, Goto, IInv, TypeOK, SampleInv
  <2> QED BY <2>3, <2>4, <2>5
<1>2. IInv /\ [Next]_vars =>
        [\A c \in Clients : Measured(c)
                            => rttMin' <= sample[c] /\ rttMin' <= rttMin]_vars
  BY <1>1
<1> QED BY <1>2, Inductive, PTL DEF Spec, LowestWins

\* The limiter implements Permits: a permit changes hands at the swap that
\* succeeds, and only while fewer are out than some limit allowed; a release that
\* lost its swap, or a new limit, gives or takes nobody's.
THEOREM ImplementsPermits == Spec => PermitSpec
<1> USE DEF Abstract!Next, Abstract!permitVars
<1>1. Init => Abstract!Init
  BY OptionsAssumption DEF Init, Holders, Abstract!Init
<1>2. ASSUME IInv, NEW c \in Clients, LoadInflight(c) \/ Step(c)
      PROVE  [Abstract!Next]_(Abstract!permitVars)
  <2>1. UNCHANGED peak
    BY <1>2 DEF LoadInflight, Step, LoadLimit, Acquire, Execute, LoadForRelease,
                Release, LoadMin, SwapMin, LoadEMA, SwapEMA, paced
  <2>2. pc \in [Clients -> {"idle", "loadLimit", "acquire", "executing", "done",
                            "release", "loadMin", "swapMin", "loadEMA",
                            "swapEMA"}]
    BY <1>2 DEF IInv, TypeOK
  <2>3. CASE Acquire(c) /\ Unchanged(c, inflight)
    <3>1. Holders' = Holders \cup {c} /\ c \notin Holders
      BY <2>2, <2>3 DEF Acquire, Goto, Holders
    <3>2. inflight < peak /\ inflight' = inflight + 1
      BY <1>2, <2>3 DEF Acquire, Unchanged, IInv, PermitInv
    <3> QED BY <2>1, <3>1, <3>2 DEF Abstract!Take
  <2>4. CASE Release(c) /\ Unchanged(c, inflight)
    <3>1. Holders' = Holders \ {c} /\ c \in Holders
      BY <2>2, <2>4 DEF Release, Leave, Goto, Holders
    <3>2. inflight' = inflight - 1
      BY <2>4 DEF Release, Unchanged
    <3> QED BY <2>1, <3>1, <3>2 DEF Abstract!Give
  <2>5. CASE /\ ~(Acquire(c) /\ Unchanged(c, inflight))
             /\ ~(Release(c) /\ Unchanged(c, inflight))
    <3>0. inflight > 0 \/ pc[c] # "done"
      BY <1>2, HolderCounted DEF IInv, Holders
    <3>1. \/ /\ pc[c] \in {"executing", "done", "release"}
             /\ \E l \in {"done", "release"} : pc' = [pc EXCEPT ![c] = l]
          \/ /\ pc[c] \notin {"executing", "done", "release"}
             /\ \E l \in {"idle", "loadLimit", "acquire", "loadMin", "swapMin",
                          "loadEMA", "swapEMA"} : pc' = [pc EXCEPT ![c] = l]
      BY <1>2, <2>5, <3>0
         DEF LoadInflight, Step, LoadLimit, Acquire, Execute, LoadForRelease,
             Release, LoadMin, SwapMin, LoadEMA, SwapEMA, Leave, Goto
    <3>2. Holders' = Holders
      BY <2>2, <3>1 DEF Holders
    <3>3. UNCHANGED inflight
      BY <1>2, <2>5
         DEF LoadInflight, Step, LoadLimit, Acquire, Execute, LoadForRelease,
             Release, LoadMin, SwapMin, LoadEMA, SwapEMA
    <3> QED BY <2>1, <3>2, <3>3
  <2> QED BY <2>3, <2>4, <2>5
<1>3. ASSUME IInv, UNCHANGED <<pc, inflight>>, peak' = peak \/ LoopStore
      PROVE  [Abstract!Next]_(Abstract!permitVars)
  <2>1. Holders' = Holders
    BY <1>3 DEF Holders
  <2>2. peak' = peak \/ (peak' \in Nat /\ peak' > peak)
    <3>1. CASE LoopStore
      <4>1. IInv'
        BY <1>3, <3>1, ControlStep DEF Adjust
      <4> QED BY <3>1, <4>1 DEF LoopStore, IInv, TypeOK
    <3> QED BY <1>3, <3>1
  <2> QED BY <1>3, <2>1, <2>2 DEF Abstract!Raise
<1>4. IInv /\ [Next]_vars => [Abstract!Next]_(Abstract!permitVars)
  <2>1. ASSUME IInv, [Next]_vars
        PROVE  \/ \E c \in Clients : LoadInflight(c) \/ Step(c)
               \/ UNCHANGED <<pc, inflight>> /\ (peak' = peak \/ LoopStore)
    BY <2>1 DEF Next, Adjust, LoopTick, LoopLoadEMA, LoopStore, LoopStops, Close,
                CloseReturns, vars, paced, client
  <2> QED BY <1>2, <1>3, <2>1
<1> QED BY <1>1, <1>4, Inductive, PTL DEF Spec, PermitSpec, Abstract!Spec
============================================================================
