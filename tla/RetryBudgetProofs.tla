------------------------- MODULE RetryBudgetProofs -------------------------
(***************************************************************************)
(* Theorems about RetryBudget for any number of callers and decayers and    *)
(* any ratio, proved from one inductive invariant.                          *)
(***************************************************************************)
EXTENDS RetryBudget, TLAPS

\* What is loaded was recorded, and a caller about to swap has found room in
\* the budget it has loaded.
LoadInv == /\ success <= recorded
           /\ \A c \in Callers : quota[c] <= recorded
           /\ \A c \in Callers : pc[c] = "grant" => seen[c] < Allowed(quota[c])

IInv == TypeOK /\ LoadInv /\ RetriesBounded

USE RatioAssumption, DisjointAssumption, BoundsAssumption

----------------------------------------------------------------------------
LEMMA ProductMonotone ==
  ASSUME NEW m \in Nat, NEW n \in Nat, NEW r \in Nat, m <= n
  PROVE  m * r <= n * r
<1>1. n * r = m * r + (n - m) * r
  OBVIOUS
<1>2. (n - m) * r >= 0
  OBVIOUS
<1> QED BY <1>1, <1>2

\* A larger number of successes never allows fewer retries.
LEMMA AllowedMonotone ==
  ASSUME NEW m \in Nat, NEW n \in Nat, m <= n
  PROVE  Allowed(m) \in Nat /\ Allowed(m) <= Allowed(n)
<1> DEFINE a == m * Ratio
           b == n * Ratio
<1>1. a \in Nat /\ b \in Nat /\ a <= b
  BY ProductMonotone
<1> HIDE DEF a, b
<1>2. a \div 1000 \in Nat /\ a \div 1000 <= b \div 1000
  BY <1>1
<1> QED BY <1>2 DEF a, b, Allowed

\* The budget never allows more retries than there were successes.
LEMMA AllowedBounded ==
  ASSUME NEW n \in Nat
  PROVE  Allowed(n) \in Nat /\ Allowed(n) <= n
<1> DEFINE a == n * Ratio
<1>1. a \in Nat /\ a <= n * 1000
  BY ProductMonotone
<1> HIDE DEF a
<1>2. a \div 1000 \in Nat /\ a \div 1000 <= n
  BY <1>1
<1> QED BY <1>2 DEF a, Allowed

LEMMA InitIInv == Init => IInv
<1> SUFFICES ASSUME Init PROVE IInv
  OBVIOUS
<1>1. TypeOK
  <2>1. 0 \in 0..MaxRecorded /\ 0 \in 0..MaxDecays /\ "idle" \in Locations
    BY DEF Locations
  <2> QED BY <2>1, Zenon DEF Init, TypeOK
<1>2. LoadInv
  BY DEF Init, LoadInv, Procs
<1>3. RetriesBounded
  BY AllowedBounded DEF Init, RetriesBounded
<1> QED BY <1>1, <1>2, <1>3 DEF IInv

----------------------------------------------------------------------------
\* A step of a caller preserves the invariant.
LEMMA CallerStep ==
  ASSUME IInv, NEW c \in Callers, RecordSuccess(c) \/ AllowRetry(c)
  PROVE  IInv'
<1> USE DEF IInv, TypeOK, Procs
<1>1. CASE RecordSuccess(c)
  <2>1. TypeOK'
    BY <1>1 DEF RecordSuccess, LoadInv
  <2>2. LoadInv'
    BY <1>1 DEF RecordSuccess, LoadInv, Allowed
  <2>3. RetriesBounded'
    <3>1. Allowed(recorded) \in Nat /\ Allowed(recorded + 1) \in Nat
          /\ Allowed(recorded) <= Allowed(recorded + 1)
      BY AllowedMonotone
    <3> HIDE DEF TypeOK
    <3>2. RetriesBounded' <=> retries <= Allowed(recorded + 1)
      BY <1>1 DEF RecordSuccess, RetriesBounded, Allowed
    <3> QED BY <3>1, <3>2 DEF RetriesBounded, TypeOK
  <2> QED BY <2>1, <2>2, <2>3
<1>2. CASE LoadSuccess(c)
  <2>1. TypeOK'
    BY <1>2 DEF LoadSuccess, Goto, Locations
  <2>2. LoadInv'
    BY <1>2 DEF LoadSuccess, Goto, LoadInv, Allowed
  <2>3. RetriesBounded'
    BY <1>2 DEF LoadSuccess, RetriesBounded, Allowed
  <2> QED BY <2>1, <2>2, <2>3
<1>3. CASE LoadRetries(c)
  <2>1. TypeOK'
    BY <1>3 DEF LoadRetries, Goto, See, Return, Locations
  <2>2. LoadInv'
    <3>1. Allowed(quota[c]) \in Nat
      BY AllowedBounded
    <3>2. CASE Exhausted(retries, quota[c])
      BY <1>3, <3>2 DEF LoadRetries, Goto, See, Return, LoadInv, Allowed
    <3>3. CASE ~Exhausted(retries, quota[c])
      BY <1>3, <3>1, <3>3 DEF LoadRetries, Exhausted, Goto, See, LoadInv,
                              Allowed
    <3> QED BY <3>2, <3>3
  <2>3. RetriesBounded'
    BY <1>3 DEF LoadRetries, RetriesBounded, Allowed
  <2> QED BY <2>1, <2>2, <2>3
<1>4. CASE Grant(c)
  <2>1. CASE Unchanged(c, retries)
    <3>1. retries' = retries + 1 /\ recorded' = recorded
      BY <1>4, <2>1 DEF Grant, Unchanged
    <3>2. retries < Allowed(quota[c]) /\ quota[c] <= recorded
      BY <1>4, <2>1 DEF Grant, Unchanged, LoadInv
    <3>3. /\ Allowed(quota[c]) <= Allowed(recorded)
          /\ Allowed(quota[c]) \in Nat /\ Allowed(recorded) \in Nat
          /\ Allowed(recorded) <= recorded
      BY <3>2, AllowedMonotone, AllowedBounded
    <3>4. retries + 1 <= Allowed(recorded)
      BY <3>2, <3>3
    <3>5. RetriesBounded'
      BY <3>1, <3>4 DEF RetriesBounded, Allowed
    <3>6. retries' \in 0..MaxRecorded
      BY <3>1, <3>3, <3>4
    <3>7. TypeOK'
      BY <1>4, <2>1, <3>6 DEF Grant, Goto, See, Return, Locations
    <3>8. LoadInv'
      BY <1>4, <2>1 DEF Grant, Goto, See, Return, LoadInv, Allowed
    <3> QED BY <3>5, <3>7, <3>8
  <2>2. CASE ~Unchanged(c, retries)
    <3>1. TypeOK'
      BY <1>4, <2>2 DEF Grant, LoopAgain, Goto, See, Locations
    <3>2. LoadInv'
      BY <1>4, <2>2 DEF Grant, LoopAgain, Goto, See, LoadInv, Allowed
    <3>3. RetriesBounded'
      BY <1>4, <2>2 DEF Grant, RetriesBounded, Allowed
    <3> QED BY <3>1, <3>2, <3>3
  <2> QED BY <2>1, <2>2
<1> QED BY <1>1, <1>2, <1>3, <1>4 DEF AllowRetry

LEMMA Halving == ASSUME NEW n \in Nat
                 PROVE  n \div 2 \in Nat /\ n \div 2 <= n
OBVIOUS

\* A step of a decayer preserves the invariant: halving a counter only lowers
\* it, and the locals of callers are not its business.
LEMMA DecayerStep ==
  ASSUME IInv, NEW d \in Decayers, DecayLoadSuccess(d) \/ Decay(d)
  PROVE  IInv'
<1> USE DEF IInv, TypeOK, Procs
<1>1. CASE DecayLoadSuccess(d)
  <2>1. TypeOK'
    BY <1>1 DEF DecayLoadSuccess, Goto, See, Locations
  <2>2. LoadInv'
    BY <1>1 DEF DecayLoadSuccess, Goto, See, LoadInv, Allowed
  <2>3. RetriesBounded'
    BY <1>1 DEF DecayLoadSuccess, RetriesBounded, Allowed
  <2> QED BY <2>1, <2>2, <2>3
<1>2. CASE DecaySwapSuccess(d)
  <2>1. success' \in Nat /\ success' <= success
    BY <1>2, Halving DEF DecaySwapSuccess, Unchanged
  <2>2. TypeOK'
    BY <1>2, <2>1 DEF DecaySwapSuccess, Goto, See, Locations
  <2>3. LoadInv'
    BY <1>2, <2>1 DEF DecaySwapSuccess, Goto, See, LoadInv, Allowed
  <2>4. RetriesBounded'
    BY <1>2 DEF DecaySwapSuccess, RetriesBounded, Allowed
  <2> QED BY <2>2, <2>3, <2>4
<1>3. CASE DecayLoadRetries(d)
  <2>1. TypeOK'
    BY <1>3 DEF DecayLoadRetries, Goto, See, Locations
  <2>2. LoadInv'
    BY <1>3 DEF DecayLoadRetries, Goto, See, LoadInv, Allowed
  <2>3. RetriesBounded'
    BY <1>3 DEF DecayLoadRetries, RetriesBounded, Allowed
  <2> QED BY <2>1, <2>2, <2>3
<1>4. CASE DecaySwapRetries(d)
  <2>1. retries' \in Nat /\ retries' <= retries
    BY <1>4, Halving DEF DecaySwapRetries, Unchanged
  <2>2. TypeOK'
    BY <1>4, <2>1 DEF DecaySwapRetries, Return, Goto, See, Locations
  <2>3. LoadInv'
    BY <1>4 DEF DecaySwapRetries, Return, Goto, See, LoadInv, Allowed
  <2>4. RetriesBounded'
    <3>1. Allowed(recorded) \in Nat /\ Allowed(recorded)' = Allowed(recorded)
      BY <1>4, AllowedBounded DEF DecaySwapRetries, Allowed
    <3> QED BY <2>1, <3>1 DEF RetriesBounded
  <2> QED BY <2>2, <2>3, <2>4
<1> QED BY <1>1, <1>2, <1>3, <1>4 DEF Decay

LEMMA NextIInv == IInv /\ [Next]_vars => IInv'
<1>1. ASSUME IInv, UNCHANGED vars PROVE IInv'
  BY <1>1 DEF IInv, TypeOK, LoadInv, RetriesBounded, Allowed, vars
<1> QED BY <1>1, CallerStep, DecayerStep DEF Next

LEMMA Inductive == Spec => []IInv
BY InitIInv, NextIInv, PTL DEF Spec

----------------------------------------------------------------------------
\* Types, and with them that neither counter ever passes MaxRecorded.
THEOREM TypeCorrect == Spec => []TypeOK
<1>1. IInv => TypeOK
  BY DEF IInv
<1> QED BY <1>1, Inductive, PTL

\* However calls of AllowRetry, RecordSuccess and Decay interleave, the retry
\* counter stays within the budget of all the successes ever recorded.
THEOREM RetriesWithinBudget == Spec => []RetriesBounded
<1>1. IInv => RetriesBounded
  BY DEF IInv
<1> QED BY <1>1, Inductive, PTL

\* The compare-and-swaps lose no update of either counter.
THEOREM UpdatesKept == Spec => NoLostUpdate
<1> DEFINE Kept == /\ success' \in {success, success + 1, success \div 2}
                   /\ retries' \in {retries, retries + 1, retries \div 2}
<1>1. [Next]_vars => [Kept]_vars
  <2> SUFFICES ASSUME Next PROVE Kept
    BY DEF vars
  <2>1. CASE \E c \in Callers : RecordSuccess(c) \/ AllowRetry(c)
    BY <2>1 DEF RecordSuccess, AllowRetry, LoadSuccess, LoadRetries, Grant,
                Unchanged
  <2>2. CASE \E d \in Decayers : DecayLoadSuccess(d) \/ Decay(d)
    BY <2>2 DEF DecayLoadSuccess, Decay, DecaySwapSuccess, DecayLoadRetries,
                DecaySwapRetries, Unchanged
  <2> QED BY <2>1, <2>2 DEF Next
<1> QED BY <1>1, PTL DEF Spec, NoLostUpdate

----------------------------------------------------------------------------
\* Until the first Decay begins, what a caller has loaded of success is never
\* too much.
QuotaInv == decays = 0 => /\ \A c \in Callers : quota[c] <= success
                          /\ \A d \in Decayers : pc[d] = "idle"

\* Concurrent callers cannot overshoot the budget before somebody decays it.
THEOREM NoOvershoot == Spec => GrantWithinBudget
<1>1. Init => QuotaInv
  BY DEF Init, QuotaInv, Procs
<1>2. ASSUME IInv, QuotaInv, [Next]_vars PROVE QuotaInv'
  <2>1. CASE UNCHANGED vars
    BY <1>2, <2>1 DEF QuotaInv, vars
  <2>2. ASSUME NEW c \in Callers, RecordSuccess(c) \/ AllowRetry(c)
        PROVE  QuotaInv'
    <3>1. /\ decays' = decays
          /\ success' \in {success, success + 1} /\ success \in Nat
          /\ \A d \in Decayers : pc'[d] = pc[d]
      BY <1>2, <2>2 DEF IInv, TypeOK, RecordSuccess, AllowRetry, LoadSuccess,
                        LoadRetries, Grant, LoopAgain, Return, Goto, Procs
    <3>2. \A b \in Callers : quota'[b] \in {quota[b], success, 0}
      BY <1>2, <2>2 DEF IInv, TypeOK, RecordSuccess, AllowRetry, LoadSuccess,
                        LoadRetries, Grant, LoopAgain, Return, Goto, See, Procs
    <3> QED BY <1>2, <3>1, <3>2 DEF QuotaInv, IInv, TypeOK, Procs
  <2>3. ASSUME NEW d \in Decayers, DecayLoadSuccess(d) \/ Decay(d)
        PROVE  QuotaInv'
    <3>1. CASE DecayLoadSuccess(d)
      BY <1>2, <3>1 DEF IInv, TypeOK, QuotaInv, DecayLoadSuccess
    <3>2. CASE Decay(d)
      BY <1>2, <3>2 DEF IInv, TypeOK, QuotaInv, Decay, DecaySwapSuccess,
                        DecayLoadRetries, DecaySwapRetries
    <3> QED BY <2>3, <3>1, <3>2
  <2> QED BY <1>2, <2>1, <2>2, <2>3 DEF Next
<1>3. ASSUME IInv, QuotaInv, Next, granted' > granted, decays = 0
      PROVE  retries < Allowed(success)
  <2>1. PICK c \in Callers : Grant(c) /\ Unchanged(c, retries)
    <3>1. \A d \in Decayers : ~ (DecayLoadSuccess(d) \/ Decay(d))
      BY <1>3 DEF DecayLoadSuccess, Decay, DecaySwapSuccess, DecayLoadRetries,
                  DecaySwapRetries, IInv, TypeOK
    <3> QED BY <1>3, <3>1 DEF Next, RecordSuccess, AllowRetry, LoadSuccess,
                              LoadRetries, Grant, IInv, TypeOK
  <2>2. /\ retries < Allowed(quota[c]) /\ quota[c] <= success
        /\ retries \in Nat /\ quota[c] \in Nat /\ success \in Nat
    BY <1>3, <2>1 DEF Grant, Unchanged, IInv, LoadInv, TypeOK, QuotaInv, Procs
  <2>3. /\ Allowed(quota[c]) <= Allowed(success)
        /\ Allowed(quota[c]) \in Nat /\ Allowed(success) \in Nat
    BY <2>2, AllowedMonotone
  <2> QED BY <2>2, <2>3
<1>4. IInv /\ QuotaInv /\ [Next]_vars
        => [granted' > granted /\ decays = 0 => retries < Allowed(success)]_vars
  BY <1>3
<1> QED BY <1>1, <1>2, <1>4, Inductive, PTL DEF Spec, GrantWithinBudget
============================================================================
