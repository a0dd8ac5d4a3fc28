------------------------------ MODULE Limiter ------------------------------
(***************************************************************************)
(* limiter/brr.go and limiter.go: a concurrency limit that clients respect  *)
(* by a lock-free counter of permits, and a control loop that moves it by   *)
(* what the clients measure.  Every action is one atomic access; limit and  *)
(* cycleIndex are written by the control loop alone, so that its last loads *)
(* and its store are one action.                                            *)
(***************************************************************************)
EXTENDS Integers, FiniteSets, Sequences

CONSTANTS Clients,      \* goroutines in ExecuteWithResult
          Closers,      \* goroutines that call Close
          Samples,      \* round-trip times a request can take
          HighRTT,      \* rttMin before the first sample (an hour)
          InitialLimits, \* what Options.InitialLimit may be
          GainCycle, MinLimit, MaxLimit, Smoothing   \* the other Options

\* defaultOptions
DefaultCycle == <<1280, 1024, 768, 1024, 1024, 1024, 1024, 1024>>

ASSUME SamplesAssumption == Samples \subseteq Nat \ {0} /\ HighRTT \in Nat
\* What NewLimiter makes of its options: it takes any gains and any smoothing.
ASSUME OptionsAssumption == /\ GainCycle \in Seq(Int) /\ GainCycle # <<>>
                            /\ InitialLimits \subseteq Nat \ {0}
                            /\ MinLimit \in Nat \ {0}
                            /\ MaxLimit \in Nat /\ MaxLimit >= MinLimit
                            /\ Smoothing \in Int
ASSUME ClientsAssumption == IsFiniteSet(Clients)

VARIABLES limit, peak,          \* peak: the highest limit so far (history)
          inflight, rttMin, rttEMA, cycleIndex,
          stopCh,      \* whether stopCh is closed
          pc, seen,    \* per client: where it is, the value it has loaded
          sample,      \* end - start of its request
          loop,        \* where the control loop is ("gone": done is closed)
          minRTT, emaRTT,   \* locals of adjust
          closer       \* where each closer is

model    == <<rttMin, rttEMA>>
client   == <<pc, seen, sample>>
control  == <<loop, minRTT, emaRTT>>
paced    == <<limit, peak, cycleIndex>>
shutdown == <<stopCh, closer>>
vars     == <<paced, inflight, model, client, control, shutdown>>

TypeOK ==
  /\ limit \in Nat \ {0} /\ peak \in Nat \ {0}
  /\ inflight \in 0..Cardinality(Clients)
  /\ rttMin \in Samples \cup {HighRTT}
  /\ rttEMA \in Int
  /\ cycleIndex \in 0..(Len(GainCycle) - 1)
  /\ stopCh \in BOOLEAN
  /\ pc \in [Clients -> {"idle", "loadLimit", "acquire", "executing", "done",
                         "release", "loadMin", "swapMin", "loadEMA", "swapEMA"}]
  /\ seen \in [Clients -> Int]
  /\ sample \in [Clients -> Samples \cup {0}]
  /\ loop \in {"select", "loadEMA", "store", "gone"}
  /\ minRTT \in Nat /\ emaRTT \in Int
  /\ closer \in [Closers -> {"idle", "waiting", "returned"}]

Init ==
  /\ limit \in InitialLimits /\ peak = limit
  /\ inflight = 0
  /\ rttMin = HighRTT
  /\ rttEMA = 0
  /\ cycleIndex = 0
  /\ stopCh = FALSE
  /\ pc = [c \in Clients |-> "idle"]
  /\ seen = [c \in Clients |-> 0]
  /\ sample = [c \in Clients |-> 0]
  /\ loop = "select"
  /\ minRTT = 0 /\ emaRTT = 0
  /\ closer = [k \in Closers |-> "idle"]

Goto(c, l) == pc' = [pc EXCEPT ![c] = l]
See(c, n)  == seen' = [seen EXCEPT ![c] = n]
Leave(c)   == Goto(c, "idle") /\ See(c, 0) /\ sample' = [sample EXCEPT ![c] = 0]

\* Mutant: stores without comparing.
Blind(c, n) == TRUE

\* The comparison of a CompareAndSwap on an atomic that holds n.
Unchanged(c, n) == seen[c] = n

----------------------------------------------------------------------------
(* Acquire.                                                                 *)

LoadInflight(c) ==
  /\ pc[c] = "idle"
  /\ See(c, inflight)
  /\ Goto(c, "loadLimit")
  /\ UNCHANGED <<paced, inflight, model, sample, control, shutdown>>

\* Mutant: lets one more in.
BeyondLimit(n) == n > limit

AtLimit(n) == n >= limit

\* ErrLimited, or on to the swap.
LoadLimit(c) ==
  /\ pc[c] = "loadLimit"
  /\ IF AtLimit(seen[c])
       THEN Leave(c)
       ELSE Goto(c, "acquire") /\ UNCHANGED <<seen, sample>>
  /\ UNCHANGED <<paced, inflight, model, control, shutdown>>

\* A lost swap starts over with a new load of inflight.
Acquire(c) ==
  /\ pc[c] = "acquire"
  /\ IF Unchanged(c, inflight)
       THEN inflight' = seen[c] + 1 /\ Goto(c, "executing") /\ See(c, 0)
       ELSE Goto(c, "loadLimit") /\ See(c, inflight) /\ UNCHANGED inflight
  /\ UNCHANGED <<paced, model, sample, control, shutdown>>

----------------------------------------------------------------------------
(* Execute and Done.                                                        *)

\* The handler returns after ns; only a success is sampled.
Execute(c, ns, ok) ==
  /\ pc[c] = "executing"
  /\ sample' = [sample EXCEPT ![c] = IF ok THEN ns ELSE 0]
  /\ Goto(c, "done")
  /\ UNCHANGED <<paced, inflight, model, seen, control, shutdown>>

\* Done loads inflight, and returns if there is no permit to give back.
LoadForRelease(c) ==
  /\ pc[c] = "done"
  /\ IF inflight > 0
       THEN See(c, inflight) /\ Goto(c, "release") /\ UNCHANGED sample
       ELSE Leave(c)
  /\ UNCHANGED <<paced, inflight, model, control, shutdown>>

Release(c) ==
  /\ pc[c] = "release"
  /\ IF Unchanged(c, inflight)
       THEN /\ inflight' = seen[c] - 1
            /\ IF sample[c] = 0
                 THEN Leave(c)
                 ELSE Goto(c, "loadMin") /\ See(c, 0) /\ UNCHANGED sample
       ELSE Goto(c, "done") /\ See(c, 0) /\ UNCHANGED <<inflight, sample>>
  /\ UNCHANGED <<paced, model, control, shutdown>>

\* Mutant: never lowers the minimum.
NeverLower(c) == FALSE

Lower(c) == sample[c] < rttMin

LoadMin(c) ==
  /\ pc[c] = "loadMin"
  /\ IF Lower(c) THEN See(c, rttMin) /\ Goto(c, "swapMin")
                 ELSE Goto(c, "loadEMA") /\ UNCHANGED seen
  /\ UNCHANGED <<paced, inflight, model, sample, control, shutdown>>

SwapMin(c) ==
  /\ pc[c] = "swapMin"
  /\ IF Unchanged(c, rttMin)
       THEN rttMin' = sample[c] /\ Goto(c, "loadEMA")
       ELSE Goto(c, "loadMin") /\ UNCHANGED rttMin
  /\ See(c, 0)
  /\ UNCHANGED <<paced, inflight, rttEMA, sample, control, shutdown>>

LoadEMA(c) ==
  /\ pc[c] = "loadEMA"
  /\ See(c, rttEMA)
  /\ Goto(c, "swapEMA")
  /\ UNCHANGED <<paced, inflight, model, sample, control, shutdown>>

\* old * (1 - smoothing) + ns * smoothing, scaled by 1024
Average(old, ns) == IF old = 0 THEN ns
                    ELSE (old * (1024 - Smoothing) + ns * Smoothing) \div 1024

SwapEMA(c) ==
  /\ pc[c] = "swapEMA"
  /\ IF Unchanged(c, rttEMA)
       THEN rttEMA' = Average(seen[c], sample[c]) /\ Leave(c)
       ELSE Goto(c, "loadEMA") /\ See(c, 0) /\ UNCHANGED <<rttEMA, sample>>
  /\ UNCHANGED <<paced, inflight, rttMin, control, shutdown>>

----------------------------------------------------------------------------
(* The control loop.                                                        *)

\* case <-t.C: adjust loads rttMin.
LoopTick ==
  /\ loop = "select"
  /\ minRTT' = rttMin
  /\ loop' = "loadEMA"
  /\ UNCHANGED <<paced, inflight, model, client, emaRTT, shutdown>>

\* ... then rttEMA, and gives up if nothing was sampled yet.
LoopLoadEMA ==
  /\ loop = "loadEMA"
  /\ IF rttEMA = 0
       THEN loop' = "select" /\ minRTT' = 0 /\ UNCHANGED emaRTT
       ELSE loop' = "store" /\ emaRTT' = rttEMA /\ UNCHANGED minRTT
  /\ UNCHANGED <<paced, inflight, model, client, shutdown>>

\* Mutant: forgets the lower bound.
ClampedAbove(n) == IF n > MaxLimit THEN MaxLimit ELSE n

Clamped(n) == IF n < MinLimit THEN MinLimit
              ELSE IF n > MaxLimit THEN MaxLimit ELSE n

\* target = limit * gain, reduced by minRTT / emaRTT if there is a queue.
Target(gain) ==
  LET base == (limit * gain) \div 1024 IN
  IF emaRTT > minRTT THEN (base * ((minRTT * 1024) \div emaRTT)) \div 1024
                     ELSE base

LoopStore ==
  LET idx == (cycleIndex + 1) % Len(GainCycle) IN
  /\ loop = "store"
  /\ cycleIndex' = idx
  /\ limit' = Clamped(Target(GainCycle[idx + 1]))
  /\ peak' = IF limit' > peak THEN limit' ELSE peak
  /\ minRTT' = 0 /\ emaRTT' = 0
  /\ loop' = "select"
  /\ UNCHANGED <<inflight, model, client, shutdown>>

\* Mutant: the loop selects on its ticker alone.
StopIgnored == FALSE

StopSeen == stopCh

\* case <-l.stopCh: the loop closes done on its way out.
LoopStops ==
  /\ loop = "select"
  /\ StopSeen
  /\ loop' = "gone"
  /\ UNCHANGED <<paced, inflight, model, client, minRTT, emaRTT, shutdown>>

\* Close: closeOnce closes stopCh, every caller waits for done.
Close(k) ==
  /\ closer[k] = "idle"
  /\ stopCh' = TRUE
  /\ closer' = [closer EXCEPT ![k] = "waiting"]
  /\ UNCHANGED <<paced, inflight, model, client, control>>

CloseReturns(k) ==
  /\ closer[k] = "waiting"
  /\ loop = "gone"
  /\ closer' = [closer EXCEPT ![k] = "returned"]
  /\ UNCHANGED <<paced, inflight, model, stopCh, client, control>>

----------------------------------------------------------------------------
\* A call after its first load.
Step(c) == \/ LoadLimit(c) \/ Acquire(c)
           \/ \E ns \in Samples, ok \in BOOLEAN : Execute(c, ns, ok)
           \/ LoadForRelease(c) \/ Release(c)
           \/ LoadMin(c) \/ SwapMin(c) \/ LoadEMA(c) \/ SwapEMA(c)

Adjust == LoopTick \/ LoopLoadEMA \/ LoopStore

Next == \/ \E c \in Clients : LoadInflight(c) \/ Step(c)
        \/ Adjust \/ LoopStops
        \/ \E k \in Closers : Close(k) \/ CloseReturns(k)

Spec == Init /\ [][Next]_vars

\* The ticker ticks, and a select with two ready cases picks either sooner or
\* later (Go chooses at random), hence SF; closers and clients are scheduled.
Fairness == /\ WF_vars(Adjust)
            /\ SF_vars(LoopStops)
            /\ \A k \in Closers : WF_vars(CloseReturns(k))
            /\ \A c \in Clients : WF_vars(Step(c))

FairSpec == Spec /\ Fairness

----------------------------------------------------------------------------
(* Safety.                                                                  *)

\* Clients between their Acquire and their Done.
Holders == {c \in Clients : pc[c] \in {"executing", "done", "release"}}

\* The compare-and-swaps of Acquire and Done lose no permit: inflight is the
\* number of permits out, so that none leaks and none is given back twice.
PermitsBalance == inflight = Cardinality(Holders)

\* However stale the pair (inflight, limit) an Acquire was decided on, and though
\* the limit may have fallen below the permits that are out, there are never more
\* of them than some limit that was in force allowed.
InflightBounded == inflight <= peak

\* Acquire and Done, of several atomic accesses each, are single steps of Permits.
Abstract ==
  INSTANCE Permits WITH out <- Holders, used <- inflight, bound <- peak

PermitSpec == Abstract!Spec

\* adjust judges congestion by the distance of rttEMA from rttMin: every sample
\* is in the minimum before it is in the average, and rounding keeps the order,
\* for a smoothing from 0 to 1024 (WithSmoothing takes any).
AverageAboveMin == rttEMA = 0 \/ rttEMA >= rttMin

\* A client that has done its part on the minimum leaves it no higher than its
\* sample and no higher than it found it: of samples that race none is lost and
\* none replaces a lower one that was swapped in meanwhile (l.142-150).
Measured(c) == pc[c] \in {"loadMin", "swapMin"} /\ pc'[c] = "loadEMA"

LowestWins ==
  [][\A c \in Clients : Measured(c) => rttMin' <= sample[c] /\ rttMin' <= rttMin]_vars

----------------------------------------------------------------------------
(* Liveness, under FairSpec.                                                *)

\* Every Close returns, also when several race.
CloseEnds == \A k \in Closers : closer[k] = "waiting" ~> closer[k] = "returned"

\* Once a request was measured, a running control loop brings the limit within
\* WithLimits for good, also an InitialLimit that was outside.
LimitSettles ==
  <>(rttEMA > 0) => <>[](stopCh \/ limit \in MinLimit..MaxLimit)

----------------------------------------------------------------------------
(* What the repository says and the code does not keep.                     *)

\* brr.go: "We rotate through different gain values to discover extra capacity":
\* without a queue, a limit below its maximum is raised at some time.
Probes == (limit = MinLimit) ~> (limit > MinLimit \/ emaRTT > minRTT)
============================================================================
