-------------------------- MODULE RetryCallProofs --------------------------
(***************************************************************************)
(* What every step of RetryCall preserves, for any number of requests and   *)
(* attempts, any deadlines, backoff and budget.  HttpPipelineProofs carries *)
(* it over to the pipeline, whose inner layers take these steps.            *)
(***************************************************************************)
EXTENDS RetryCall, FiniteSetTheorems, TLAPS

\* Requests that were granted a retry and have not begun it.
Sleepers == {r \in Requests : pc[r] = "asleep"}

\* Requests that have got past the judgement of the loop.
Judged == {"guard", "deliver", "done"}

\* Attempts are numbered from 1, and one that follows another is no later than
\* the last; the cached time is no later than the clock; a deadline is one
\* Timeout after a stamp.
CountInv ==
  \A r \in Requests :
    /\ now[r] <= clock /\ deadline[r] <= clock + Timeout
    /\ pc[r] \in {"idle", "stamped"} => attempt[r] = 0
    /\ pc[r] = "stamped" => now[r] + Timeout <= MaxTime
    /\ pc[r] \in Statuses \cup {"executing", "asleep"} => attempt[r] # 0

\* Whether there is a response at hand, and that its body is open and it is in
\* time if it is about to be the answer.
HandInv ==
  \A r \in Requests :
    /\ pc[r] \in {"idle", "stamped", "executing", "asleep"} => held[r] = 0
    /\ pc[r] \in Statuses \cup Judged =>
         IF err[r] = "none" THEN held[r] # 0 /\ body[r][held[r]] = "open"
                            ELSE held[r] = 0
    /\ pc[r] \in Statuses => (err[r] = "none" <=> pc[r] # "error")
    /\ pc[r] \in {"guard", "deliver"} /\ err[r] = "none" => ~Late(r)

\* Every repetition was granted, and every grant was paid for; what was granted and
\* not repeated is one grant at most of each request that has got that far.
PaidInv == /\ repeated + Cardinality(Sleepers) <= retries
           /\ retries <= Allowed
           /\ retries <= repeated + Cardinality(Unspent)

CallInv == /\ TypeOK /\ CountInv /\ HandInv /\ PaidInv
           /\ UsableAnswer /\ NoBodyForgotten

----------------------------------------------------------------------------
(* Arithmetic and finite sets.                                              *)

LEMMA QuotientMonotone ==
  ASSUME NEW m \in Int, NEW n \in Int, m <= n
  PROVE  m \div 1000 \in Int /\ m \div 1000 <= n \div 1000
OBVIOUS

\* One more success allows no fewer retries.
LEMMA AllowedGrows ==
  ASSUME success \in Nat, success' = success + 1
  PROVE  Allowed \in Int /\ Allowed' \in Int /\ Allowed <= Allowed'
<1> DEFINE m == success * Ratio
           n == (success + 1) * Ratio
<1>1. m \in Int /\ n \in Int /\ m <= n
  BY BudgetAssumption
<1> HIDE DEF m, n
<1>2. m \div 1000 \in Int /\ n \div 1000 \in Int /\ m \div 1000 <= n \div 1000
  BY <1>1, QuotientMonotone
<1> QED BY <1>2 DEF m, n, Allowed

LEMMA AllowedType == ASSUME success \in Nat PROVE Allowed \in Nat
<1> DEFINE m == success * Ratio
<1>1. m \in Nat
  BY BudgetAssumption
<1> HIDE DEF m
<1>2. m \div 1000 \in Nat
  BY <1>1
<1> QED BY <1>2 DEF m, Allowed

LEMMA SleepersFinite == IsFiniteSet(Sleepers) /\ Cardinality(Sleepers) \in Nat
BY RequestsAssumption, FS_Subset, FS_CardinalityType DEF Sleepers

\* A request falls asleep or is woken: one sleeper more or less.
LEMMA SleepersMove ==
  ASSUME TypeOK, NEW r \in Requests, NEW l, Goto(r, l)
  PROVE  /\ (pc[r] = "asleep" <=> l = "asleep") => Sleepers' = Sleepers
         /\ pc[r] = "asleep" /\ l # "asleep" =>
              Cardinality(Sleepers') = Cardinality(Sleepers) - 1
         /\ pc[r] # "asleep" /\ l = "asleep" =>
              Cardinality(Sleepers') = Cardinality(Sleepers) + 1
<1>1. /\ pc'[r] = l
      /\ \A s \in Requests : s # r => pc'[s] = pc[s]
  BY DEF TypeOK, Goto
<1>2. ASSUME pc[r] = "asleep" <=> l = "asleep" PROVE Sleepers' = Sleepers
  BY <1>1, <1>2 DEF Sleepers
<1>3. ASSUME pc[r] = "asleep", l # "asleep"
      PROVE  Cardinality(Sleepers') = Cardinality(Sleepers) - 1
  <2>1. Sleepers' = Sleepers \ {r} /\ r \in Sleepers
    BY <1>1, <1>3 DEF Sleepers
  <2> QED BY <2>1, SleepersFinite, FS_RemoveElement
<1>4. ASSUME pc[r] # "asleep", l = "asleep"
      PROVE  Cardinality(Sleepers') = Cardinality(Sleepers) + 1
  <2>1. Sleepers' = Sleepers \cup {r} /\ r \notin Sleepers
    BY <1>1, <1>4 DEF Sleepers
  <2> QED BY <2>1, SleepersFinite, FS_AddElement
<1> QED BY <1>2, <1>3, <1>4

\* Where a request may have a retry that it has not made.
Waiting == {"asleep"} \cup Judged

LEMMA UnspentFinite == IsFiniteSet(Unspent) /\ Cardinality(Unspent) \in Nat
BY RequestsAssumption, FS_Subset, FS_CardinalityType DEF Unspent

\* A request gets there, or begins an attempt.
LEMMA UnspentMove ==
  ASSUME TypeOK, NEW r \in Requests, NEW l, Goto(r, l)
  PROVE  /\ (pc[r] \in Waiting <=> l \in Waiting) => Unspent' = Unspent
         /\ pc[r] \in Waiting /\ l \notin Waiting =>
              Cardinality(Unspent') = Cardinality(Unspent) - 1
         /\ pc[r] \notin Waiting /\ l \in Waiting =>
              Cardinality(Unspent') = Cardinality(Unspent) + 1
<1>1. /\ pc'[r] = l
      /\ \A s \in Requests : s # r => pc'[s] = pc[s]
  BY DEF TypeOK, Goto
<1>2. /\ Unspent = {s \in Requests : pc[s] \in Waiting}
      /\ Unspent' = {s \in Requests : pc'[s] \in Waiting}
  BY DEF Unspent, Waiting, Judged
<1> HIDE DEF Waiting
<1>3. ASSUME pc[r] \in Waiting <=> l \in Waiting PROVE Unspent' = Unspent
  BY <1>1, <1>2, <1>3
<1>4. ASSUME pc[r] \in Waiting, l \notin Waiting
      PROVE  Cardinality(Unspent') = Cardinality(Unspent) - 1
  <2>1. Unspent' = Unspent \ {r} /\ r \in Unspent
    BY <1>1, <1>2, <1>4
  <2> QED BY <2>1, UnspentFinite, FS_RemoveElement
<1>5. ASSUME pc[r] \notin Waiting, l \in Waiting
      PROVE  Cardinality(Unspent') = Cardinality(Unspent) + 1
  <2>1. Unspent' = Unspent \cup {r} /\ r \notin Unspent
    BY <1>1, <1>2, <1>5
  <2> QED BY <2>1, UnspentFinite, FS_AddElement
<1> QED BY <1>3, <1>4, <1>5

----------------------------------------------------------------------------
LEMMA InitCallInv == Init => CallInv
<1> SUFFICES ASSUME Init PROVE CallInv
  OBVIOUS
<1>1. TypeOK
  <2>1. 0 \in 0..MaxTime /\ 0 \in 0..MaxAttempts
    BY TimeAssumption, PolicyAssumption
  <2>2. success \in Nat /\ retries \in Nat /\ repeated \in Nat
    BY BudgetAssumption DEF Init
  <2> QED BY <2>1, <2>2 DEF Init, TypeOK
<1>2. CountInv
  BY TimeAssumption DEF Init, CountInv, Statuses
<1>3. HandInv
  BY DEF Init, HandInv, Statuses, Judged
<1>4. PaidInv
  <2>1. Cardinality(Sleepers) = 0
    <3>1. Sleepers = {}
      BY DEF Init, Sleepers
    <3> QED BY <3>1, FS_EmptySet
  <2>2. success \in Nat /\ Allowed \in Nat
    BY <1>1, AllowedType DEF TypeOK
  <2> QED BY <2>1, <2>2, UnspentFinite DEF Init, PaidInv
<1>5. UsableAnswer /\ NoBodyForgotten
  BY DEF Init, UsableAnswer, NoBodyForgotten
<1> QED BY <1>1, <1>2, <1>3, <1>4, <1>5 DEF CallInv

----------------------------------------------------------------------------
(* Bodies.                                                                  *)

BodyType == [Requests -> [1..MaxAttempts -> {"none", "open", "closed"}]]

\* After a Discard no body of the request is open, and no other was touched.
LEMMA DiscardCloses ==
  ASSUME CallInv, NEW r \in Requests, pc[r] # "done", Discard(r)
  PROVE  /\ body' \in BodyType
         /\ \A s \in Requests : s # r => body'[s] = body[s]
         /\ \A i \in 1..MaxAttempts : body'[r][i] # "open"
<1>1. body \in BodyType /\ held[r] \in 0..MaxAttempts
  BY DEF CallInv, TypeOK, BodyType
<1>2. \A i \in 1..MaxAttempts : body[r][i] = "open" => held[r] = i
  BY DEF CallInv, NoBodyForgotten
<1>3. CASE held[r] = 0
  BY <1>1, <1>2, <1>3 DEF Discard
<1>4. CASE held[r] # 0
  <2>1. held[r] \in 1..MaxAttempts
    BY <1>1, <1>4, PolicyAssumption
  <2>2. body' = [body EXCEPT ![r][held[r]] = "closed"]
    BY <1>4 DEF Discard
  <2>3. body'[r] = [body[r] EXCEPT ![held[r]] = "closed"]
    BY <1>1, <2>2 DEF BodyType
  <2>4. body[r] \in [1..MaxAttempts -> {"none", "open", "closed"}]
    BY <1>1 DEF BodyType
  <2>5. body'[r] \in [1..MaxAttempts -> {"none", "open", "closed"}]
    BY <2>1, <2>3, <2>4
  <2>6. body' = [body EXCEPT ![r] = body'[r]]
    BY <1>1, <2>2, <2>3 DEF BodyType
  <2>7. body' \in BodyType
    BY <1>1, <2>5, <2>6 DEF BodyType
  <2>8. \A i \in 1..MaxAttempts : body'[r][i] # "open"
    BY <1>2, <2>1, <2>3, <2>4
  <2>9. \A s \in Requests : s # r => body'[s] = body[s]
    BY <1>1, <2>2 DEF BodyType
  <2> QED BY <2>7, <2>8, <2>9
<1> QED BY <1>3, <1>4

\* Requests without an open body have forgotten none.
LEMMA NothingOpen ==
  ASSUME CallInv, NEW r \in Requests,
         \A i \in 1..MaxAttempts : body'[r][i] # "open",
         \A s \in Requests : s # r => /\ body'[s] = body[s] /\ pc'[s] = pc[s]
                                      /\ held'[s] = held[s] /\ err'[s] = err[s]
  PROVE  NoBodyForgotten'
BY DEF CallInv, NoBodyForgotten

\* An exit of the loop without a response: the error is on its way out.
LEMMA GivesUp ==
  ASSUME CallInv, NEW r \in Requests, NEW e \in {"network", "retry", "timeout"},
         pc[r] \in Statuses \cup {"asleep"},
         Goto(r, "guard"), Pass(r, 0, e),
         Discard(r) \/ (held[r] = 0 /\ UNCHANGED body),
         now'[r] <= clock, now' \in [Requests -> 0..MaxTime],
         \A s \in Requests : s # r => now'[s] = now[s],
         wake' \in [Requests -> Nat],
         UNCHANGED <<clock, success, repeated, deadline, attempt, tryDeadline>>,
         \/ UNCHANGED retries
         \/ pc[r] # "asleep" /\ retries' = retries + 1 /\ retries' <= Allowed
  PROVE  CallInv'
<1> USE DEF CallInv
<1>1. /\ pc'[r] = "guard" /\ held'[r] = 0 /\ err'[r] = e
      /\ \A s \in Requests : s # r => /\ pc'[s] = pc[s] /\ held'[s] = held[s]
                                      /\ err'[s] = err[s]
  BY DEF TypeOK, Goto, Pass
<1>2. /\ body' \in BodyType
      /\ \A s \in Requests : s # r => body'[s] = body[s]
      /\ \A i \in 1..MaxAttempts : body'[r][i] # "open"
  <2>1. pc[r] # "done"
    BY DEF Statuses
  <2>2. CASE Discard(r)
    BY <2>1, <2>2, DiscardCloses
  <2>3. CASE held[r] = 0 /\ UNCHANGED body
    BY <2>1, <2>3 DEF TypeOK, NoBodyForgotten, BodyType
  <2> QED BY <2>2, <2>3
<1>3. TypeOK'
  <2>1. /\ pc' \in [Requests -> Statuses \cup {"idle", "stamped", "executing",
                                 "asleep", "guard", "deliver", "done"}]
        /\ err' \in [Requests -> {"none", "network", "retry", "timeout"}]
    BY DEF TypeOK, Goto, Pass
  <2>2. held' \in [Requests -> 0..MaxAttempts]
    BY PolicyAssumption DEF TypeOK, Pass
  <2>3. retries' \in Nat
    BY DEF TypeOK
  <2> QED BY <1>2, <2>1, <2>2, <2>3 DEF TypeOK, BodyType
<1>4. CountInv'
  BY <1>1 DEF CountInv, Statuses
<1>5. HandInv'
  <2> SUFFICES ASSUME NEW s \in Requests, s # r
               PROVE  HandInv!(s)'
    BY <1>1 DEF HandInv, Statuses, Judged
  <2> QED BY <1>1, <1>2 DEF HandInv, Late
<1>6. PaidInv'
  <2>1. Allowed' = Allowed /\ Allowed \in Nat
    BY AllowedType DEF Allowed, TypeOK
  <2>2. Cardinality(Sleepers') <= Cardinality(Sleepers)
    BY SleepersMove, SleepersFinite
  <2>3. pc[r] # "asleep" => Cardinality(Sleepers') = Cardinality(Sleepers)
    BY SleepersMove
  <2>4. Cardinality(Sleepers') \in Nat
    <3>1. IsFiniteSet(Sleepers')
      BY RequestsAssumption, FS_Subset DEF Sleepers
    <3> QED BY <3>1, FS_CardinalityType
  <2>5. retries' <= repeated' + Cardinality(Unspent')
    <3>1. CASE pc[r] = "asleep"
      BY <3>1, UnspentMove DEF Waiting, Judged, PaidInv
    <3>2. CASE pc[r] # "asleep"
      <4>1. Cardinality(Unspent') = Cardinality(Unspent) + 1
        BY <3>2, UnspentMove DEF Waiting, Judged, Statuses
      <4> QED BY <4>1, UnspentFinite DEF PaidInv, TypeOK
    <3> QED BY <3>1, <3>2
  <2> QED BY <2>1, <2>2, <2>3, <2>4, <2>5, SleepersFinite DEF PaidInv, TypeOK
<1>7. UsableAnswer'
  BY <1>1, <1>2 DEF UsableAnswer
<1>8. NoBodyForgotten'
  BY <1>1, <1>2, NothingOpen
<1> QED BY <1>3, <1>4, <1>5, <1>6, <1>7, <1>8

----------------------------------------------------------------------------
(* The steps that lead out of the loop.                                     *)

LEMMA ExitStep ==
  ASSUME CallInv, NEW r \in Requests,
         \/ TryExpired(r) \/ Deny(r) \/ Exhaust(r) \/ WakeLate(r)
         \/ Grant(r) /\ now[r] >= deadline[r]
  PROVE  CallInv'
<1>1. /\ now[r] <= clock /\ clock \in 0..MaxTime
      /\ now \in [Requests -> 0..MaxTime] /\ wake \in [Requests -> Nat]
      /\ pc[r] = "asleep" => held[r] = 0
  BY DEF CallInv, CountInv, HandInv, TypeOK
<1>2. CASE TryExpired(r) \/ Deny(r)
  <2>1. PICK e \in {"retry", "timeout"} : Pass(r, 0, e)
    BY <1>2 DEF TryExpired, Deny
  <2>2. /\ pc[r] \in Statuses /\ Goto(r, "guard") /\ Discard(r)
        /\ UNCHANGED <<clock, budget, repeated, times>>
    BY <1>2, PolicyAssumption DEF TryExpired, Deny, Judging, WantsRetry, InTime
  <2> QED BY <1>1, <2>1, <2>2, GivesUp DEF budget, times
<1>3. CASE Exhaust(r) \/ WakeLate(r)
  <2>1. PICK e \in {"retry", "timeout"} : Pass(r, 0, e)
    BY <1>3 DEF Exhaust, WakeLate
  <2>2. /\ pc[r] = "asleep" /\ Goto(r, "guard")
        /\ now' = [now EXCEPT ![r] = clock] /\ wake' = [wake EXCEPT ![r] = 0]
        /\ UNCHANGED <<clock, budget, repeated, deadline, attempt, tryDeadline,
                       body>>
    BY <1>3 DEF Exhaust, WakeLate, Awake, WakeUp
  <2>3. /\ now'[r] <= clock /\ now' \in [Requests -> 0..MaxTime]
        /\ \A s \in Requests : s # r => now'[s] = now[s]
        /\ wake' \in [Requests -> Nat]
    BY <1>1, <2>2
  <2> QED BY <1>1, <2>1, <2>2, <2>3, GivesUp DEF budget
<1>4. CASE Grant(r) /\ now[r] >= deadline[r]
  <2>1. /\ pc[r] \in Statuses /\ Goto(r, "guard") /\ Discard(r)
        /\ Pass(r, 0, "timeout")
        /\ retries' = retries + 1
        /\ UNCHANGED <<clock, success, repeated, times>>
    BY <1>4, PolicyAssumption DEF Grant, WantsRetry, InTime, times
  <2>2. retries' <= Allowed /\ pc[r] # "asleep"
    <3>1. retries < Allowed
      BY <1>4, AllowedType DEF Grant, Overdrawn, CallInv, TypeOK
    <3>2. Allowed \in Nat /\ retries \in Nat
      BY AllowedType DEF CallInv, TypeOK
    <3> QED BY <2>1, <3>1, <3>2 DEF Statuses
  <2> QED BY <1>1, <2>1, <2>2, GivesUp DEF times
<1> QED BY <1>2, <1>3, <1>4

\* The response or the error of the last attempt is on its way out as it is.
LEMMA PassOnStep ==
  ASSUME CallInv, NEW r \in Requests, Succeed(r) \/ Refuse(r)
  PROVE  CallInv'
<1> USE DEF CallInv
<1>1. /\ pc[r] \in Statuses /\ ~Late(r) /\ Goto(r, "guard")
      /\ UNCHANGED <<clock, retries, repeated, times, held, err, body>>
      /\ success' \in {success, success + 1}
  BY DEF Succeed, Refuse, InTime, Statuses, budget
<1>2. pc'[r] = "guard" /\ (\A s \in Requests : s # r => pc'[s] = pc[s])
  BY <1>1 DEF TypeOK, Goto
<1>3. TypeOK'
  BY <1>1 DEF TypeOK, Goto, times
<1>4. CountInv'
  BY <1>1, <1>2 DEF CountInv, times, Statuses
<1>5. HandInv'
  BY <1>1, <1>2 DEF HandInv, Late, times, Statuses, Judged
<1>6. PaidInv'
  <2>1. Sleepers' = Sleepers
    BY <1>1, SleepersMove DEF Statuses
  <2>2. Allowed \in Int /\ Allowed' \in Int /\ Allowed <= Allowed'
    <3>1. CASE success' = success
      BY <3>1, AllowedType DEF Allowed, TypeOK
    <3>2. CASE success' = success + 1
      BY <3>2, AllowedGrows DEF TypeOK
    <3> QED BY <1>1, <3>1, <3>2
  <2>3. Cardinality(Unspent') = Cardinality(Unspent) + 1
    BY <1>1, UnspentMove DEF Waiting, Judged, Statuses
  <2> QED BY <1>1, <2>1, <2>2, <2>3, UnspentFinite DEF PaidInv, TypeOK
<1>7. UsableAnswer' /\ NoBodyForgotten'
  BY <1>1, <1>2 DEF UsableAnswer, NoBodyForgotten, times, Statuses
<1> QED BY <1>3, <1>4, <1>5, <1>6, <1>7

----------------------------------------------------------------------------
(* The wait between two attempts.                                           *)

\* The wait is no longer than what is left of the deadline, and not negative.
LEMMA DelayType ==
  ASSUME CallInv, NEW r \in Requests, now[r] < deadline[r], attempt[r] # 0
  PROVE  now[r] + Delay(r) \in Nat
<1>1. now[r] \in Nat /\ deadline[r] \in Nat /\ attempt[r] \in Nat
  BY PolicyAssumption, TimeAssumption DEF CallInv, TypeOK
<1>2. Backoff(r) \in Nat
  <2>1. Second \in Nat /\ attempt[r] - 1 \in Nat
    BY <1>1, TimeAssumption
  <2> QED BY <2>1 DEF Backoff
<1> QED BY <1>1, <1>2 DEF Delay

LEMMA SleepStep ==
  ASSUME CallInv, NEW r \in Requests, Grant(r), now[r] < deadline[r]
  PROVE  CallInv'
<1> USE DEF CallInv
<1>1. /\ pc[r] \in Statuses /\ Goto(r, "asleep") /\ Discard(r)
      /\ Pass(r, 0, err[r])
      /\ wake' = [wake EXCEPT ![r] = now[r] + Delay(r)]
      /\ retries' = retries + 1 /\ retries < Allowed
      /\ UNCHANGED <<clock, success, repeated, deadline, attempt, now,
                     tryDeadline>>
  <2>1. ~(now[r] >= deadline[r])
    BY TimeAssumption DEF TypeOK
  <2>2. retries < Allowed
    BY AllowedType DEF Grant, Overdrawn, TypeOK
  <2> QED BY <2>1, <2>2, PolicyAssumption DEF Grant, WantsRetry, InTime
<1>2. /\ pc'[r] = "asleep" /\ held'[r] = 0 /\ err' = err
      /\ \A s \in Requests : s # r => pc'[s] = pc[s] /\ held'[s] = held[s]
  BY <1>1 DEF TypeOK, Goto, Pass
<1>3. /\ body' \in BodyType
      /\ \A s \in Requests : s # r => body'[s] = body[s]
      /\ \A i \in 1..MaxAttempts : body'[r][i] # "open"
  BY <1>1, DiscardCloses DEF Statuses
<1>4. attempt[r] # 0
  BY <1>1 DEF CountInv
<1>5. TypeOK'
  <2>1. wake' \in [Requests -> Nat]
    BY <1>1, <1>4, DelayType DEF TypeOK
  <2>2. held' \in [Requests -> 0..MaxAttempts]
    BY <1>1, PolicyAssumption DEF TypeOK, Pass
  <2> QED BY <1>1, <1>2, <1>3, <2>1, <2>2 DEF TypeOK, BodyType, Goto
<1>6. CountInv'
  BY <1>1, <1>2, <1>4 DEF CountInv, Statuses
<1>7. HandInv'
  BY <1>1, <1>2, <1>3 DEF HandInv, Late, Statuses, Judged
<1>8. PaidInv'
  <2>1. Cardinality(Sleepers') = Cardinality(Sleepers) + 1
    BY <1>1, SleepersMove DEF Statuses
  <2>2. Allowed' = Allowed /\ Allowed \in Nat
    BY <1>1, AllowedType DEF Allowed, TypeOK
  <2>3. Cardinality(Unspent') = Cardinality(Unspent) + 1
    BY <1>1, UnspentMove DEF Waiting, Judged, Statuses
  <2> QED BY <1>1, <2>1, <2>2, <2>3, SleepersFinite, UnspentFinite
          DEF PaidInv, TypeOK
<1>9. UsableAnswer' /\ NoBodyForgotten'
  <2>1. UsableAnswer'
    BY <1>1, <1>2, <1>3 DEF UsableAnswer
  <2> QED BY <1>2, <1>3, <2>1, NothingOpen
<1> QED BY <1>5, <1>6, <1>7, <1>8, <1>9

----------------------------------------------------------------------------
(* The steps that begin and end an attempt.                                 *)

\* A request is stamped, and the first attempt begins by the stamp.
LEMMA BeginStep ==
  ASSUME CallInv, NEW r \in Requests, Do(r) \/ Arrive(r)
  PROVE  CallInv'
<1> USE DEF CallInv
<1>1. /\ UNCHANGED <<clock, budget, repeated, wake, held, err, body>>
      /\ pc[r] \in {"idle", "stamped"} /\ held[r] = 0 /\ attempt[r] = 0
      /\ \A i \in 1..MaxAttempts : body[r][i] # "open"
  <2>1. /\ UNCHANGED <<clock, budget, repeated, wake, held, err, body>>
        /\ pc[r] \in {"idle", "stamped"}
    BY DEF Do, Arrive
  <2>2. held[r] = 0 /\ attempt[r] = 0
    BY <2>1 DEF CountInv, HandInv
  <2> QED BY <2>1, <2>2 DEF NoBodyForgotten
<1>2. /\ pc'[r] \in {"stamped", "executing"}
      /\ \A s \in Requests : s # r => pc'[s] = pc[s]
  BY DEF Do, Arrive, Begin, Goto, TypeOK
<1>3. clock \in Nat /\ Timeout \in Nat /\ MaxTime \in Nat /\ TryTimeout \in Nat
      /\ MaxAttempts \in Nat \ {0}
  BY TimeAssumption, PolicyAssumption DEF TypeOK
<1>4. CASE Do(r)
  <2>1. now' = [now EXCEPT ![r] = clock] /\ clock + Timeout <= MaxTime
        /\ pc' = [pc EXCEPT ![r] = "stamped"]
        /\ UNCHANGED <<deadline, attempt, tryDeadline>>
    BY <1>4 DEF Do, Goto
  <2>2. TypeOK'
    BY <1>1, <1>3, <2>1 DEF TypeOK, budget
  <2>3. CountInv'
    BY <1>1, <1>2, <1>3, <2>1 DEF CountInv, TypeOK, Statuses
  <2>4. HandInv'
    BY <1>1, <1>2, <2>1 DEF HandInv, TypeOK, Late, Statuses, Judged
  <2>5. UsableAnswer' /\ NoBodyForgotten'
    BY <1>1, <1>2, <2>1 DEF UsableAnswer, NoBodyForgotten, TypeOK
  <2>6. PaidInv'
    <3>1. Sleepers' = Sleepers /\ Unspent' = Unspent
      BY <1>1, <1>2, <2>1 DEF Sleepers, Unspent, TypeOK
    <3> QED BY <1>1, <3>1 DEF PaidInv, Allowed, budget
  <2> QED BY <2>2, <2>3, <2>4, <2>5, <2>6
<1>5. CASE Arrive(r)
  <2>1. /\ pc[r] = "stamped" /\ pc' = [pc EXCEPT ![r] = "executing"]
        /\ deadline' = [deadline EXCEPT ![r] = now[r] + Timeout]
        /\ attempt' = [attempt EXCEPT ![r] = 1]
        /\ now' = now
        /\ tryDeadline' = [tryDeadline EXCEPT ![r] = now[r] + TryTimeout]
    <3>1. now' = [now EXCEPT ![r] = now[r]]
          /\ attempt' = [attempt EXCEPT ![r] = attempt[r] + 1]
      BY <1>5 DEF Arrive, Begin
    <3> QED BY <1>1, <1>5, <3>1 DEF Arrive, Begin, Goto, TypeOK
  <2>2. now[r] \in 0..MaxTime /\ now[r] <= clock /\ now[r] + Timeout <= MaxTime
    BY <2>1 DEF CountInv, TypeOK
  <2>3. TypeOK'
    BY <1>1, <1>3, <2>1, <2>2 DEF TypeOK, budget
  <2>4. CountInv'
    BY <1>1, <1>2, <1>3, <2>1, <2>2 DEF CountInv, TypeOK, Statuses
  <2>5. HandInv'
    BY <1>1, <1>2, <2>1 DEF HandInv, TypeOK, Late, Statuses, Judged
  <2>6. UsableAnswer' /\ NoBodyForgotten'
    BY <1>1, <1>2, <2>1 DEF UsableAnswer, NoBodyForgotten, TypeOK
  <2>7. PaidInv'
    <3>1. Sleepers' = Sleepers /\ Unspent' = Unspent
      BY <1>1, <1>2, <2>1 DEF Sleepers, Unspent, TypeOK
    <3> QED BY <1>1, <3>1 DEF PaidInv, Allowed, budget
  <2> QED BY <2>3, <2>4, <2>5, <2>6, <2>7
<1> QED BY <1>4, <1>5

\* What an attempt got is at hand, and nothing else is open.
LEMMA ReturnStep ==
  ASSUME CallInv, NEW r \in Requests, NEW s \in Statuses, Returns(r, s)
  PROVE  CallInv'
<1> USE DEF CallInv
<1>1. /\ UNCHANGED <<clock, budget, repeated, deadline, attempt, tryDeadline,
                     wake>>
      /\ pc[r] = "executing" /\ pc' = [pc EXCEPT ![r] = s]
      /\ now' = [now EXCEPT ![r] = clock]
  BY DEF Returns, Goto
<1>2. /\ pc'[r] = s
      /\ \A q \in Requests : q # r => pc'[q] = pc[q]
  BY <1>1 DEF TypeOK
<1>3. held[r] = 0 /\ attempt[r] \in 1..MaxAttempts
      /\ \A i \in 1..MaxAttempts : body[r][i] # "open"
  <2>1. held[r] = 0 /\ attempt[r] # 0
    BY <1>1 DEF CountInv, HandInv
  <2> QED BY <1>1, <2>1, PolicyAssumption DEF TypeOK, NoBodyForgotten
<1>4. /\ held' \in [Requests -> 0..MaxAttempts]
      /\ err' \in [Requests -> {"none", "network", "retry", "timeout"}]
      /\ body' \in BodyType
      /\ IF s = "error" THEN err'[r] = "network" /\ held'[r] = 0
                        ELSE err'[r] = "none" /\ held'[r] = attempt[r]
      /\ \A i \in 1..MaxAttempts :
           body'[r][i] = "open" <=> s # "error" /\ i = attempt[r]
      /\ \A q \in Requests : q # r => /\ held'[q] = held[q] /\ err'[q] = err[q]
                                      /\ body'[q] = body[q]
  <2>1. CASE s = "error"
    <3>1. held' = [held EXCEPT ![r] = 0] /\ err' = [err EXCEPT ![r] = "network"]
          /\ body' = body
      BY <2>1 DEF Returns, Pass
    <3> QED BY <1>3, <2>1, <3>1, PolicyAssumption DEF TypeOK, BodyType
  <2>2. CASE s # "error"
    <3>1. /\ held' = [held EXCEPT ![r] = attempt[r]]
          /\ err' = [err EXCEPT ![r] = "none"]
          /\ body' = [body EXCEPT ![r][attempt[r]] = "open"]
      BY <2>2 DEF Returns, Pass
    <3>2. body'[r] = [body[r] EXCEPT ![attempt[r]] = "open"]
      BY <3>1 DEF TypeOK
    <3>3. body[r] \in [1..MaxAttempts -> {"none", "open", "closed"}]
      BY DEF TypeOK
    <3>4. body'[r] \in [1..MaxAttempts -> {"none", "open", "closed"}]
      BY <1>3, <3>2, <3>3
    <3>5. body' = [body EXCEPT ![r] = body'[r]]
      BY <3>1, <3>2 DEF TypeOK
    <3>6. body' \in BodyType
      BY <3>4, <3>5 DEF TypeOK, BodyType
    <3>7. \A i \in 1..MaxAttempts :
             body'[r][i] = "open" <=> s # "error" /\ i = attempt[r]
      BY <1>3, <2>2, <3>2, <3>3
    <3>8. /\ held' \in [Requests -> 0..MaxAttempts]
          /\ err' \in [Requests -> {"none", "network", "retry", "timeout"}]
          /\ err'[r] = "none" /\ held'[r] = attempt[r]
      BY <3>1 DEF TypeOK
    <3>9. \A q \in Requests : q # r => /\ held'[q] = held[q] /\ err'[q] = err[q]
                                       /\ body'[q] = body[q]
      BY <3>1 DEF TypeOK
    <3> QED BY <2>2, <3>6, <3>7, <3>8, <3>9
  <2> QED BY <2>1, <2>2
<1>5. TypeOK'
  BY <1>1, <1>4 DEF TypeOK, BodyType, budget
<1>6. CountInv'
  BY <1>1, <1>2, <1>3 DEF CountInv, TypeOK, Statuses
<1>7. HandInv'
  BY <1>1, <1>2, <1>3, <1>4 DEF HandInv, TypeOK, Late, Statuses, Judged
<1>8. PaidInv'
  <2>1. Sleepers' = Sleepers /\ Unspent' = Unspent
    BY <1>1, <1>2 DEF Sleepers, Unspent, Statuses
  <2> QED BY <1>1, <2>1 DEF PaidInv, Allowed, budget
<1>9. UsableAnswer'
  BY <1>1, <1>2, <1>4 DEF UsableAnswer, TypeOK, Statuses
<1>10. NoBodyForgotten'
  BY <1>1, <1>2, <1>4 DEF NoBodyForgotten, Statuses
<1> QED BY <1>5, <1>6, <1>7, <1>8, <1>9, <1>10

\* A granted attempt begins: one sleeper less, one repetition more.
LEMMA RepeatStep ==
  ASSUME CallInv, NEW r \in Requests, Repeat(r)
  PROVE  CallInv'
<1> USE DEF CallInv
<1>1. /\ UNCHANGED <<clock, budget, deadline, held, err, body>>
      /\ pc[r] = "asleep" /\ pc' = [pc EXCEPT ![r] = "executing"]
      /\ now' = [now EXCEPT ![r] = clock]
      /\ attempt' = [attempt EXCEPT ![r] = attempt[r] + 1]
      /\ tryDeadline' = [tryDeadline EXCEPT ![r] = clock + TryTimeout]
      /\ wake' = [wake EXCEPT ![r] = 0]
      /\ repeated' = repeated + 1
      /\ attempt[r] # MaxAttempts
  BY DEF Repeat, Begin, Goto, Awake, WakeUp, LastAttempt
<1>2. attempt[r] \in Nat /\ attempt[r] < MaxAttempts /\ TryTimeout \in Nat
      /\ clock \in Nat
  BY <1>1, PolicyAssumption, TimeAssumption DEF TypeOK
<1>3. /\ pc'[r] = "executing"
      /\ \A s \in Requests : s # r => pc'[s] = pc[s]
  BY <1>1 DEF TypeOK
<1>4. TypeOK'
  <2>1. attempt' \in [Requests -> 0..MaxAttempts]
    <3>1. attempt[r] + 1 \in 0..MaxAttempts
      BY <1>2, PolicyAssumption
    <3> QED BY <1>1, <3>1 DEF TypeOK
  <2>2. tryDeadline' \in [Requests -> Nat] /\ wake' \in [Requests -> Nat]
        /\ now' \in [Requests -> 0..MaxTime] /\ repeated' \in Nat
    BY <1>1, <1>2 DEF TypeOK
  <2>3. pc' \in [Requests -> Statuses \cup {"idle", "stamped", "executing",
                                "asleep", "guard", "deliver", "done"}]
    BY <1>1 DEF TypeOK
  <2> QED BY <1>1, <2>1, <2>2, <2>3 DEF TypeOK, budget
<1>5. CountInv'
  BY <1>1, <1>2, <1>3 DEF CountInv, TypeOK, Statuses
<1>6. HandInv'
  BY <1>1, <1>3 DEF HandInv, TypeOK, Late, Statuses, Judged
<1>7. PaidInv'
  <2>1. Cardinality(Sleepers') = Cardinality(Sleepers) - 1
    <3>1. Goto(r, "executing")
      BY <1>1 DEF Goto
    <3> QED BY <1>1, <3>1, SleepersMove
  <2>2. Cardinality(Unspent') = Cardinality(Unspent) - 1
    <3>1. Goto(r, "executing")
      BY <1>1 DEF Goto
    <3>2. pc[r] \in Waiting /\ "executing" \notin Waiting
      BY <1>1 DEF Waiting, Judged
    <3> QED BY <3>1, <3>2, UnspentMove
  <2>3. Allowed' = Allowed /\ Allowed \in Nat
    BY <1>1, AllowedType DEF Allowed, budget, TypeOK
  <2> QED BY <1>1, <2>1, <2>2, <2>3, SleepersFinite, UnspentFinite
          DEF PaidInv, budget, TypeOK
<1>8. UsableAnswer' /\ NoBodyForgotten'
  BY <1>1, <1>3 DEF UsableAnswer, NoBodyForgotten, TypeOK
<1> QED BY <1>4, <1>5, <1>6, <1>7, <1>8

----------------------------------------------------------------------------
(* The timeout layer.                                                       *)

LEMMA GuardStep ==
  ASSUME CallInv, NEW r \in Requests, Guard(r)
  PROVE  CallInv'
<1> USE DEF CallInv
<1>1. /\ UNCHANGED <<clock, budget, repeated, times>>
      /\ pc[r] = "guard" /\ pc' = [pc EXCEPT ![r] = "deliver"]
  BY DEF Guard, Goto
<1>2. /\ pc'[r] = "deliver"
      /\ \A s \in Requests : s # r => pc'[s] = pc[s]
  BY <1>1 DEF TypeOK
<1>3. CountInv'
  BY <1>1, <1>2 DEF CountInv, times, Statuses
<1>4. PaidInv'
  <2>1. Sleepers' = Sleepers /\ Unspent' = Unspent
    BY <1>1, <1>2 DEF Sleepers, Unspent
  <2> QED BY <1>1, <2>1 DEF PaidInv, Allowed, budget
<1>5. CASE UNCHANGED <<body, held, err>>
  <2>1. TypeOK'
    BY <1>1, <1>5 DEF TypeOK, budget, times
  <2>2. HandInv'
    BY <1>1, <1>2, <1>5 DEF HandInv, Late, times, Statuses, Judged
  <2>3. UsableAnswer' /\ NoBodyForgotten'
    BY <1>1, <1>2, <1>5 DEF UsableAnswer, NoBodyForgotten, times
  <2> QED BY <1>3, <1>4, <2>1, <2>2, <2>3
<1>6. CASE Discard(r) /\ Pass(r, 0, "timeout")
  <2>1. /\ body' \in BodyType
        /\ \A s \in Requests : s # r => body'[s] = body[s]
        /\ \A i \in 1..MaxAttempts : body'[r][i] # "open"
    BY <1>1, <1>6, DiscardCloses
  <2>2. /\ held'[r] = 0 /\ err'[r] = "timeout"
        /\ held' \in [Requests -> 0..MaxAttempts]
        /\ err' \in [Requests -> {"none", "network", "retry", "timeout"}]
        /\ \A s \in Requests : s # r => held'[s] = held[s] /\ err'[s] = err[s]
    BY <1>6, PolicyAssumption DEF TypeOK, Pass
  <2>3. TypeOK'
    BY <1>1, <2>1, <2>2 DEF TypeOK, BodyType, budget, times
  <2>4. HandInv'
    BY <1>1, <1>2, <2>1, <2>2 DEF HandInv, Late, times, Statuses, Judged
  <2>5. UsableAnswer'
    BY <1>1, <1>2, <2>1, <2>2 DEF UsableAnswer, times
  <2>6. NoBodyForgotten'
    BY <1>2, <2>1, <2>2, NothingOpen
  <2> QED BY <1>3, <1>4, <2>3, <2>4, <2>5, <2>6
<1> QED BY <1>5, <1>6 DEF Guard

\* The answer: what was in time for the guard may be late by now, and is dropped
\* as it is.
LEMMA DeliverStep ==
  ASSUME CallInv, NEW r \in Requests, Deliver(r)
  PROVE  CallInv'
<1> USE DEF CallInv
<1>1. /\ UNCHANGED <<clock, budget, repeated, times, body>>
      /\ pc[r] = "deliver" /\ pc' = [pc EXCEPT ![r] = "done"]
  BY DEF Deliver, Goto
<1>2. /\ pc'[r] = "done"
      /\ \A s \in Requests : s # r => pc'[s] = pc[s]
  BY <1>1 DEF TypeOK
<1>3. /\ held' \in [Requests -> 0..MaxAttempts]
      /\ err' \in [Requests -> {"none", "network", "retry", "timeout"}]
      /\ \A s \in Requests : s # r => held'[s] = held[s] /\ err'[s] = err[s]
      /\ IF Overdue(r) THEN held'[r] = 0 /\ err'[r] = "timeout"
                       ELSE held'[r] = held[r] /\ err'[r] = err[r]
  <2>1. CASE Overdue(r)
    <3>1. held' = [held EXCEPT ![r] = 0] /\ err' = [err EXCEPT ![r] = "timeout"]
      BY <2>1 DEF Deliver, Pass
    <3> QED BY <2>1, <3>1, PolicyAssumption DEF TypeOK
  <2>2. CASE ~Overdue(r)
    <3>1. held' = held /\ err' = err
      BY <2>2 DEF Deliver
    <3> QED BY <2>2, <3>1 DEF TypeOK
  <2> QED BY <2>1, <2>2
<1>4. TypeOK'
  BY <1>1, <1>3 DEF TypeOK, budget, times
<1>5. CountInv'
  BY <1>1, <1>2 DEF CountInv, times, Statuses
<1>6. HandInv'
  BY <1>1, <1>2, <1>3 DEF HandInv, Late, times, Statuses, Judged
<1>7. PaidInv'
  <2>1. Sleepers' = Sleepers /\ Unspent' = Unspent
    BY <1>1, <1>2 DEF Sleepers, Unspent
  <2> QED BY <1>1, <2>1 DEF PaidInv, Allowed, budget
<1>8. UsableAnswer'
  <2>1. ASSUME err'[r] = "none"
        PROVE  /\ held[r] # 0 /\ body[r][held[r]] = "open" /\ ~Late(r)
               /\ now[r] <= deadline[r] /\ held'[r] = held[r]
    <3>1. ~Overdue(r) /\ err[r] = "none" /\ held'[r] = held[r]
      BY <1>3, <2>1
    <3>2. now[r] <= clock /\ now[r] \in Nat /\ clock \in Nat
          /\ deadline[r] \in Nat
      BY TimeAssumption DEF CountInv, TypeOK
    <3> QED BY <1>1, <3>1, <3>2 DEF HandInv, Judged, Overdue
  <2>2. err'[r] # "none" => held'[r] = 0
    BY <1>1, <1>3 DEF HandInv, Judged
  <2>3. now[r] \in Nat /\ tryDeadline[r] \in Nat /\ TryTimeout \in Nat
    BY TimeAssumption DEF TypeOK
  <2> QED BY <1>1, <1>2, <1>3, <2>1, <2>2, <2>3
          DEF UsableAnswer, Late, times
<1>9. NoBodyForgotten'
  BY <1>1, <1>2, <1>3 DEF NoBodyForgotten
<1> QED BY <1>4, <1>5, <1>6, <1>7, <1>8, <1>9

LEMMA TickStep == ASSUME CallInv, Tick PROVE CallInv'
<1> USE DEF CallInv
<1>1. /\ clock' = clock + 1 /\ clock < MaxTime
      /\ UNCHANGED <<budget, repeated, pc, times, held, err, body>>
  BY DEF Tick
<1>2. TypeOK'
  BY <1>1, TimeAssumption DEF TypeOK, budget, times
<1>3. CountInv'
  BY <1>1, TimeAssumption DEF CountInv, TypeOK, times
<1>4. HandInv' /\ UsableAnswer' /\ NoBodyForgotten'
  BY <1>1 DEF HandInv, UsableAnswer, NoBodyForgotten, Late, times
<1>5. PaidInv'
  BY <1>1 DEF PaidInv, Sleepers, Unspent, Allowed, budget
<1> QED BY <1>2, <1>3, <1>4, <1>5

\* What the layers do with one request.
LEMMA StepCallInv ==
  ASSUME CallInv, NEW r \in Requests, Step(r)
  PROVE  CallInv'
<1>1. CASE Grant(r)
  <2>1. now[r] \in Nat /\ deadline[r] \in Nat
    BY TimeAssumption DEF CallInv, TypeOK
  <2> QED BY <1>1, <2>1, ExitStep, SleepStep
<1>2. CASE Judge(r) /\ ~Grant(r)
  BY <1>2, ExitStep, PassOnStep DEF Judge
<1>3. CASE \E s \in Statuses : Returns(r, s)
  BY <1>3, ReturnStep
<1>4. CASE Arrive(r) \/ Repeat(r) \/ Guard(r) \/ Deliver(r)
  BY <1>4, BeginStep, RepeatStep, GuardStep, DeliverStep
<1>5. CASE Exhaust(r) \/ WakeLate(r)
  BY <1>5, ExitStep
<1> QED BY <1>1, <1>2, <1>3, <1>4, <1>5 DEF Step

LEMMA StutterCallInv == ASSUME CallInv, UNCHANGED vars PROVE CallInv'
BY DEF CallInv, TypeOK, CountInv, HandInv, PaidInv, Sleepers, Unspent, Allowed,
       Late, UsableAnswer, NoBodyForgotten, vars, budget, times

\* Grants are paid for, and so are the repetitions that follow them.
LEMMA PaidRepetitions == CallInv => NoRetryStorm
<1> SUFFICES ASSUME CallInv PROVE NoRetryStorm
  OBVIOUS
<1>1. repeated \in Nat /\ retries \in Nat /\ Allowed \in Nat
  BY AllowedType DEF CallInv, TypeOK
<1> QED BY <1>1, SleepersFinite DEF CallInv, PaidInv, NoRetryStorm

----------------------------------------------------------------------------
\* A request between its stamp and its answer, for any number of attempts and
\* any deadlines: whatever exit it takes, its answer is usable, no body is
\* forgotten on the way, its retries were paid for and one at most was in vain.
THEOREM CallsCorrect ==
  Spec => [](TypeOK /\ UsableAnswer /\ NoBodyForgotten /\ NoRetryStorm)
<1>1. CallInv /\ [Next]_vars => CallInv'
  BY BeginStep, StepCallInv, TickStep, StutterCallInv DEF Next
<1>2. CallInv => TypeOK /\ UsableAnswer /\ NoBodyForgotten /\ NoRetryStorm
  BY PaidRepetitions DEF CallInv
<1> QED BY InitCallInv, <1>1, <1>2, PTL DEF Spec
============================================================================
