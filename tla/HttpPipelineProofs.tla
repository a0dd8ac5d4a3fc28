------------------------- MODULE HttpPipelineProofs -------------------------
(***************************************************************************)
(* Theorems about HttpPipeline for any number of requests, any limits,      *)
(* deadlines, backoff, budget and cooldown.  The inner layers take the      *)
(* steps of RetryCall, so that its invariant holds here too; the outer ones *)
(* add the permits, what is known of an answer on its way out, and the age  *)
(* of what is still inside when the circuit opens.                          *)
(***************************************************************************)
EXTENDS HttpPipeline, RetryCallProofs

\* inflight counts the permits.
PermitInv == inflight = Cardinality(PermitHolders)

\* A request enters with a stamp alone; what comes out of the inner layers
\* without an error has a status; nobody is sampled before it returns.
OuterInv ==
  \A r \in Requests :
    /\ layer[r] \in {"breaker", "slow"} => pc[r] = "stamped"
    /\ layer[r] = "inside" => pc[r] # "idle"
    /\ layer[r] # "returned" => r \notin sampled
    /\ layer[r] = "inside" /\ pc[r] \in Statuses \cup Judged /\ err[r] = "none"
         => status[r] \in Statuses \ {"error"}
    /\ layer[r] = "classifier" =>
         \/ verdict[r] \in {"failed", "circuit"} /\ held[r] = 0
         \/ /\ verdict[r] = "none" /\ status[r] \in Statuses \ {"error"}
            /\ Readable(r)

\* Who is inside while the circuit is open was stamped before it opened.
OpenInv ==
  circuit = "open" =>
    \A r \in Requests : layer[r] = "inside" =>
      IF pc[r] = "stamped" THEN now[r] <= lastFailTime
                           ELSE deadline[r] <= lastFailTime + Timeout

IInv == /\ CallInv /\ PipelineTypeOK /\ PermitInv
        /\ OuterInv /\ OpenInv /\ SampledAnswers

----------------------------------------------------------------------------
LEMMA HoldersFinite ==
  IsFiniteSet(PermitHolders) /\ Cardinality(PermitHolders) \in Nat
BY RequestsAssumption, FS_Subset, FS_CardinalityType DEF PermitHolders

LEMMA InitIInv == PipelineInit => IInv
<1> SUFFICES ASSUME PipelineInit PROVE IInv
  OBVIOUS
<1>1. CallInv
  BY InitCallInv DEF PipelineInit
<1>2. PipelineTypeOK
  <2>1. 0 \in 0..MaxLimit /\ 0 \in 0..MaxTime
    BY LimitAssumption, TimeAssumption
  <2> QED BY <1>1, <2>1 DEF PipelineInit, PipelineTypeOK, CallInv
<1>3. PermitInv
  <2>1. PermitHolders = {}
    BY DEF PipelineInit, PermitHolders
  <2> QED BY <2>1, FS_EmptySet DEF PipelineInit, PermitInv
<1>4. OuterInv /\ OpenInv /\ SampledAnswers
  BY DEF PipelineInit, OuterInv, OpenInv, SampledAnswers
<1> QED BY <1>1, <1>2, <1>3, <1>4 DEF IInv

----------------------------------------------------------------------------
(* The inner layers.                                                        *)

\* A step of a request touches no other request, sets its deadline once, by its
\* stamp, and its status when an attempt returns.
Local(r) ==
  /\ \A s \in Requests : s # r =>
       /\ pc'[s] = pc[s] /\ now'[s] = now[s] /\ deadline'[s] = deadline[s]
       /\ held'[s] = held[s] /\ err'[s] = err[s] /\ body'[s] = body[s]
  /\ pc[r] # "idle" /\ pc'[r] \notin {"idle", "stamped"}
  /\ deadline'[r] = IF pc[r] = "stamped" THEN now[r] + Timeout ELSE deadline[r]
  /\ IF pc[r] = "executing"
       THEN pc'[r] \in Statuses
       ELSE pc'[r] \in Statuses \cup Judged /\ err'[r] = "none" =>
              pc[r] \in Statuses \cup Judged /\ err[r] = "none"

LEMMA StepLocal ==
  ASSUME CallInv, NEW r \in Requests, Step(r)
  PROVE  Local(r)
<1> USE DEF CallInv, TypeOK, Local
<1>1. CASE Arrive(r)
  BY <1>1 DEF Arrive, Begin, Goto, Statuses, Judged
<1>2. ASSUME NEW s \in Statuses, Returns(r, s) PROVE Local(r)
  BY <1>2 DEF Returns, Pass, Goto, Statuses
<1>3. CASE TryExpired(r) \/ Deny(r) \/ Grant(r)
  <2>1. body' = body \/ body' = [body EXCEPT ![r][held[r]] = "closed"]
    BY <1>3 DEF TryExpired, Deny, Grant, Discard
  <2>2. \A s \in Requests : s # r => body'[s] = body[s]
    BY <2>1
  <2>3. pc[r] \in Statuses
    BY <1>3, PolicyAssumption
       DEF TryExpired, Deny, Grant, Judging, WantsRetry, InTime
  <2>4. \/ /\ \E e \in {"retry", "timeout"} : Pass(r, 0, e)
           /\ Goto(r, "guard")
        \/ Pass(r, 0, err[r]) /\ Goto(r, "asleep")
    BY <1>3 DEF TryExpired, Deny, Grant
  <2>5. now' = now /\ deadline' = deadline
    BY <1>3 DEF TryExpired, Deny, Grant, times
  <2> QED BY <2>2, <2>3, <2>4, <2>5 DEF Pass, Goto, Statuses, Judged
<1>4. CASE Succeed(r) \/ Refuse(r)
  <2>1. pc[r] \in Statuses
    BY <1>4 DEF Succeed, Refuse, InTime, Statuses
  <2> QED BY <1>4, <2>1 DEF Succeed, Refuse, Goto, times, Statuses, Judged
<1>5. CASE Exhaust(r) \/ WakeLate(r)
  BY <1>5 DEF Exhaust, WakeLate, Awake, Pass, Goto, Statuses, Judged
<1>6. CASE Repeat(r)
  BY <1>6 DEF Repeat, Begin, Awake, Goto, Statuses, Judged
<1>7. CASE Guard(r)
  <2>1. \/ UNCHANGED <<body, held, err>>
        \/ /\ body' = body \/ body' = [body EXCEPT ![r][held[r]] = "closed"]
           /\ Pass(r, 0, "timeout")
    BY <1>7 DEF Guard, Discard
  <2>2. \A s \in Requests : s # r => body'[s] = body[s]
    BY <2>1
  <2> QED BY <1>7, <2>1, <2>2 DEF Guard, Pass, Goto, times, Statuses, Judged
<1>8. CASE Deliver(r)
  BY <1>8 DEF Deliver, Pass, Goto, times, Statuses, Judged
<1> QED BY <1>1, <1>2, <1>3, <1>4, <1>5, <1>6, <1>7, <1>8 DEF Step, Judge

LEMMA InsideStep ==
  ASSUME IInv, NEW r \in Requests, Inside(r)
  PROVE  IInv'
<1> USE DEF IInv
<1>1. /\ layer[r] = "inside" /\ Step(r)
      /\ status' = [status EXCEPT ![r] = IF pc[r] = "executing" THEN pc'[r]
                                                                ELSE status[r]]
      /\ UNCHANGED <<layer, verdict, limiter, breaker>>
  BY DEF Inside
<1>2. CallInv'
  BY <1>1, StepCallInv
<1>3. Local(r)
  BY <1>1, StepLocal
<1>4. PipelineTypeOK'
  <2>1. status' \in [Requests -> Statuses \cup {"none"}]
    BY <1>1, <1>3 DEF PipelineTypeOK, Local
  <2>2. TypeOK'
    BY <1>2 DEF CallInv
  <2> QED BY <1>1, <2>1, <2>2 DEF PipelineTypeOK, limiter, breaker, machine
<1>5. PermitInv'
  BY <1>1 DEF PermitInv, PermitHolders, limiter
<1>6. OuterInv'
  <2>1. pc'[r] \in Statuses => (err'[r] = "none" <=> pc'[r] # "error")
    BY <1>2 DEF CallInv, HandInv
  <2>2. status'[r] = (IF pc[r] = "executing" THEN pc'[r] ELSE status[r])
        /\ \A s \in Requests : s # r => status'[s] = status[s]
    BY <1>1 DEF PipelineTypeOK
  <2>3. pc'[r] \in Statuses \cup Judged /\ err'[r] = "none"
          => status'[r] \in Statuses \ {"error"}
    BY <1>1, <1>3, <2>1, <2>2 DEF OuterInv, Local
  <2> QED BY <1>1, <1>3, <2>2, <2>3 DEF OuterInv, Readable, Local, limiter
<1>7. OpenInv'
  <2>1. circuit' = circuit /\ lastFailTime' = lastFailTime
    BY <1>1 DEF breaker, machine
  <2>2. lastFailTime \in Nat /\ now[r] \in Nat /\ Timeout \in Nat
    BY TimeAssumption DEF PipelineTypeOK, TypeOK
  <2>3. ASSUME circuit = "open"
        PROVE  deadline'[r] <= lastFailTime + Timeout
    <3>1. CASE pc[r] = "stamped"
      BY <1>1, <1>3, <2>2, <2>3, <3>1 DEF OpenInv, Local
    <3>2. CASE pc[r] # "stamped"
      BY <1>1, <1>3, <2>3, <3>2 DEF OpenInv, Local
    <3> QED BY <3>1, <3>2
  <2> QED BY <1>1, <1>3, <2>1, <2>3 DEF OpenInv, Local
<1>8. SampledAnswers'
  <2>1. \A s \in Requests : s # r => status'[s] = status[s]
    BY <1>1 DEF PipelineTypeOK
  <2> QED BY <1>1, <1>3, <2>1 DEF SampledAnswers, Readable, Local, limiter
<1> QED BY <1>2, <1>4, <1>5, <1>6, <1>7, <1>8

----------------------------------------------------------------------------
(* The outer layers on the way in.                                          *)

LEMMA EnterStep ==
  ASSUME IInv, NEW r \in Requests, Enter(r)
  PROVE  IInv'
<1> USE DEF IInv
<1>1. UNCHANGED <<vars, status, sampled, failed>>
  BY DEF Enter, Shed, Acquire, FastPath, SlowPath, AdmitSlow, Reject, limiter,
         breaker
<1>2. CallInv'
  BY <1>1, StutterCallInv
<1>3. /\ pc[r] = "stamped" /\ held[r] = 0 /\ now[r] \in Nat /\ now[r] <= clock
      /\ layer[r] \in {"limiter", "breaker", "slow"} /\ r \notin sampled
  <2>1. layer[r] \in {"limiter", "breaker", "slow"}
    BY DEF Enter, Shed, Acquire, FastPath, SlowPath, AdmitSlow, Reject,
           Entering
  <2>2. pc[r] = "stamped"
    BY <2>1 DEF Enter, Shed, Acquire, FastPath, SlowPath, AdmitSlow, Reject,
                Entering, OuterInv
  <2> QED BY <2>1, <2>2, TimeAssumption
          DEF CallInv, HandInv, CountInv, TypeOK, OuterInv
<1>4. PICK l \in {"breaker", "slow", "inside", "classifier", "returned"} :
        layer' = [layer EXCEPT ![r] = l]
  BY DEF Enter, Shed, Acquire, FastPath, SlowPath, AdmitSlow, Reject, Layer,
         Admit
<1>5. /\ layer'[r] = l
      /\ \A s \in Requests : s # r => layer'[s] = layer[s]
  BY <1>4 DEF PipelineTypeOK
<1>6. /\ verdict' \in [Requests -> {"none", "limited", "circuit", "failed",
                                     "classified"}]
      /\ \A s \in Requests : s # r => verdict'[s] = verdict[s]
      /\ l = "classifier" => verdict'[r] = "circuit"
      /\ l = "returned" => verdict'[r] = "limited"
  <2>1. CASE Shed(r)
    BY <1>5, <2>1 DEF Shed, Answer, Layer, PipelineTypeOK
  <2>2. CASE Reject(r)
    BY <1>5, <2>2 DEF Reject, Answer, Layer, PipelineTypeOK
  <2>3. CASE Acquire(r) \/ FastPath(r) \/ SlowPath(r) \/ AdmitSlow(r)
    BY <1>5, <2>3
       DEF Acquire, FastPath, SlowPath, AdmitSlow, Admit, Layer, PipelineTypeOK
  <2> QED BY <2>1, <2>2, <2>3 DEF Enter
<1>7. \/ UNCHANGED machine
      \/ /\ circuit' = "halfOpen" /\ halfOpenInFlight' = TRUE
         /\ UNCHANGED lastFailTime
  <2>1. CASE AdmitSlow(r)
    BY <2>1 DEF AdmitSlow
  <2>2. CASE Shed(r) \/ Acquire(r) \/ FastPath(r) \/ SlowPath(r) \/ Reject(r)
    BY <2>2 DEF Shed, Acquire, FastPath, SlowPath, Reject, breaker, machine
  <2> QED BY <2>1, <2>2 DEF Enter
<1>8. l = "inside" => circuit' # "open"
  BY <1>5 DEF Enter, Shed, Acquire, FastPath, SlowPath, AdmitSlow, Reject,
              Layer, Admit, PipelineTypeOK, machine
<1>9. inflight' \in 0..MaxLimit /\ PermitInv'
  <2>1. CASE Acquire(r)
    <3>1. inflight' = inflight + 1 /\ inflight < MaxLimit /\ l = "breaker"
          /\ layer[r] = "limiter"
      BY <1>5, <2>1 DEF Acquire, Entering, Layer, PipelineTypeOK
    <3>2. PermitHolders' = PermitHolders \cup {r} /\ r \notin PermitHolders
      BY <1>5, <3>1 DEF PermitHolders
    <3>3. Cardinality(PermitHolders') = Cardinality(PermitHolders) + 1
      BY <3>2, HoldersFinite, FS_AddElement
    <3> QED BY <3>1, <3>3, LimitAssumption DEF PermitInv, PipelineTypeOK
  <2>2. CASE Shed(r)
    <3>1. inflight' = inflight /\ layer[r] = "limiter" /\ l = "returned"
      BY <1>5, <2>2 DEF Shed, Entering, Layer, limiter, PipelineTypeOK
    <3>2. PermitHolders' = PermitHolders
      BY <1>5, <3>1 DEF PermitHolders
    <3> QED BY <3>1, <3>2 DEF PermitInv, PipelineTypeOK
  <2>3. CASE FastPath(r) \/ SlowPath(r) \/ AdmitSlow(r) \/ Reject(r)
    <3>1. /\ inflight' = inflight /\ layer[r] \in {"breaker", "slow"}
          /\ l \in {"slow", "inside", "classifier"}
      BY <1>5, <2>3 DEF FastPath, SlowPath, AdmitSlow, Reject, Layer, Admit,
                        limiter, PipelineTypeOK
    <3>2. PermitHolders' = PermitHolders
      BY <1>5, <3>1 DEF PermitHolders
    <3> QED BY <3>1, <3>2 DEF PermitInv, PipelineTypeOK
  <2> QED BY <2>1, <2>2, <2>3 DEF Enter
<1>10. PipelineTypeOK'
  <2>1. role' \in [Requests -> {"none", "fast", "slow"}]
    BY DEF Enter, Shed, Acquire, FastPath, SlowPath, AdmitSlow, Reject, Admit,
           breaker, PipelineTypeOK
  <2>2. layer' \in [Requests -> {"limiter", "breaker", "slow", "inside",
                                 "classifier", "returned"}]
    BY <1>4 DEF PipelineTypeOK
  <2>3. circuit' \in {"closed", "open", "halfOpen"}
        /\ lastFailTime' \in 0..MaxTime /\ halfOpenInFlight' \in BOOLEAN
    BY <1>7 DEF PipelineTypeOK, machine
  <2>4. TypeOK'
    BY <1>2 DEF CallInv
  <2> QED BY <1>1, <1>6, <1>9, <2>1, <2>2, <2>3, <2>4 DEF PipelineTypeOK
<1>11. OuterInv'
  <2>1. UNCHANGED <<pc, held, err, body, status, sampled>>
    BY <1>1 DEF vars
  <2>2. pc[r] \notin Statuses \cup Judged
    BY <1>3 DEF Statuses, Judged
  <2> QED BY <1>3, <1>5, <1>6, <2>1, <2>2 DEF OuterInv, Readable
<1>12. OpenInv'
  BY <1>1, <1>5, <1>7, <1>8 DEF OpenInv, vars, times, machine
<1>13. SampledAnswers'
  <2>1. UNCHANGED <<held, body, status, sampled>>
    BY <1>1 DEF vars
  <2> QED BY <1>3, <1>5, <1>6, <2>1 DEF SampledAnswers, Readable
<1> QED BY <1>2, <1>9, <1>10, <1>11, <1>12, <1>13

----------------------------------------------------------------------------
(* The outer layers on the way out.                                         *)

\* The invariant of RetryCall does not need the locals of who has its answer.
LEMMA ForgetStep ==
  ASSUME CallInv, NEW r \in Requests, pc[r] = "done", Forget(r),
         UNCHANGED <<clock, budget, repeated, pc, held, err, body>>
  PROVE  CallInv'
<1> USE DEF CallInv
<1>1. /\ deadline' = [deadline EXCEPT ![r] = 0]
      /\ attempt' = [attempt EXCEPT ![r] = 0]
      /\ now' = [now EXCEPT ![r] = 0]
      /\ tryDeadline' = [tryDeadline EXCEPT ![r] = 0]
      /\ wake' = [wake EXCEPT ![r] = 0]
  BY DEF Forget
<1>2. clock \in Nat /\ {Timeout, TryTimeout, MaxTime} \subseteq Nat
  BY TimeAssumption DEF TypeOK
<1>3. TypeOK'
  <2>1. 0 \in 0..MaxTime /\ 0 \in 0..MaxAttempts
    BY <1>2, PolicyAssumption
  <2> QED BY <1>1, <2>1 DEF TypeOK, budget
<1>4. CountInv'
  BY <1>1, <1>2 DEF CountInv, TypeOK, Statuses
<1>5. HandInv'
  BY <1>1 DEF HandInv, Late, TypeOK
<1>6. PaidInv'
  BY DEF PaidInv, Sleepers, Unspent, Allowed, budget
<1>7. UsableAnswer'
  <2>1. /\ now'[r] <= deadline'[r] /\ now'[r] <= tryDeadline'[r]
        /\ \A s \in Requests : s # r => /\ now'[s] = now[s]
                                        /\ deadline'[s] = deadline[s]
                                        /\ tryDeadline'[s] = tryDeadline[s]
    BY <1>1 DEF TypeOK
  <2> QED BY <2>1 DEF UsableAnswer
<1>8. NoBodyForgotten'
  BY DEF NoBodyForgotten
<1> QED BY <1>3, <1>4, <1>5, <1>6, <1>7, <1>8

\* When the circuit opens nothing inside has a deadline later than a Timeout
\* from now.
LEMMA BreakerStep ==
  ASSUME IInv, NEW r \in Requests, BreakerReturns(r)
  PROVE  IInv'
<1> USE DEF IInv
<1>1. /\ layer[r] = "inside" /\ pc[r] = "done"
      /\ verdict' = [verdict EXCEPT ![r] = IF err[r] # "none" THEN "failed"
                                                              ELSE "none"]
      /\ layer' = [layer EXCEPT ![r] = "classifier"]
      /\ Forget(r)
      /\ UNCHANGED <<clock, budget, repeated, pc, held, err, body, status,
                     limiter, role>>
  BY DEF BreakerReturns, Answer, Layer, IsFailure
<1>2. CallInv'
  BY <1>1, ForgetStep
<1>3. /\ \/ UNCHANGED machine
         \/ circuit' = "open" /\ lastFailTime' = clock
         \/ circuit' = "closed" /\ UNCHANGED lastFailTime
      /\ halfOpenInFlight' \in {halfOpenInFlight, FALSE}
      /\ failed' \in {failed, failed \cup {r}}
  <2>1. CASE JudgeFast(r)
    BY <2>1 DEF JudgeFast, machine
  <2>2. CASE JudgeSlow(r)
    BY <2>2 DEF JudgeSlow, Decide, machine
  <2> QED BY <2>1, <2>2 DEF BreakerReturns
<1>4. /\ layer'[r] = "classifier"
      /\ verdict'[r] = IF err[r] # "none" THEN "failed" ELSE "none"
      /\ \A s \in Requests : s # r => /\ layer'[s] = layer[s]
                                      /\ verdict'[s] = verdict[s]
                                      /\ now'[s] = now[s]
                                      /\ deadline'[s] = deadline[s]
  BY <1>1 DEF PipelineTypeOK, CallInv, TypeOK, Forget
<1>5. PipelineTypeOK'
  <2>1. TypeOK'
    BY <1>2 DEF CallInv
  <2>2. clock \in 0..MaxTime
    BY DEF CallInv, TypeOK
  <2>3. verdict' \in [Requests -> {"none", "limited", "circuit", "failed",
                                   "classified"}]
        /\ layer' \in [Requests -> {"limiter", "breaker", "slow", "inside",
                                    "classifier", "returned"}]
    BY <1>1 DEF PipelineTypeOK
  <2>4. /\ circuit' \in {"closed", "open", "halfOpen"}
        /\ lastFailTime' \in 0..MaxTime /\ halfOpenInFlight' \in BOOLEAN
        /\ failed' \subseteq Requests
    BY <1>3, <2>2 DEF PipelineTypeOK, machine
  <2> QED BY <1>1, <2>1, <2>3, <2>4 DEF PipelineTypeOK, limiter
<1>6. PermitInv'
  <2>1. PermitHolders' = PermitHolders
    BY <1>1, <1>4 DEF PermitHolders
  <2> QED BY <1>1, <2>1 DEF PermitInv, limiter
<1>7. IF err[r] = "none" THEN Readable(r) /\ status[r] \in Statuses \ {"error"}
                         ELSE held[r] = 0
  BY <1>1 DEF CallInv, HandInv, OuterInv, Readable, Judged
<1>8. OuterInv'
  BY <1>1, <1>4, <1>7 DEF OuterInv, Readable, limiter
<1>9. OpenInv'
  <2>1. ASSUME UNCHANGED machine PROVE OpenInv'
    BY <1>1, <1>4, <2>1 DEF OpenInv, machine
  <2>2. ASSUME circuit' = "open", lastFailTime' = clock PROVE OpenInv'
    BY <1>1, <1>4, <2>2 DEF OpenInv, CallInv, CountInv
  <2> QED BY <1>3, <2>1, <2>2 DEF OpenInv
<1>10. SampledAnswers'
  BY <1>1, <1>4 DEF SampledAnswers, Readable, limiter
<1> QED BY <1>2, <1>5, <1>6, <1>8, <1>9, <1>10

LEMMA ReleaseStep ==
  ASSUME IInv, NEW r \in Requests, Release(r)
  PROVE  IInv'
<1> USE DEF IInv
<1> DEFINE answer == ClassifyError(r)
<1>1. /\ layer[r] = "classifier"
      /\ verdict' = [verdict EXCEPT ![r] = answer]
      /\ layer' = [layer EXCEPT ![r] = "returned"]
      /\ inflight' = inflight - 1
      /\ sampled' = IF answer = "none" THEN sampled \cup {r} ELSE sampled
      /\ UNCHANGED <<vars, status, breaker>>
  BY DEF Release, Answer, Layer
<1>2. CallInv'
  BY <1>1, StutterCallInv
<1>3. /\ answer \in {"none", "failed", "circuit", "classified"}
      /\ answer = "none" <=> Readable(r) /\ status[r] \in {"ok", "final"}
      /\ answer = "classified"
           <=> Readable(r) /\ status[r] \in {"transient", "limited"}
      /\ answer \in {"failed", "circuit"} => held[r] = 0
  BY <1>1 DEF OuterInv, ClassifyError, Readable, Statuses
<1> HIDE DEF answer
<1>4. /\ layer'[r] = "returned" /\ verdict'[r] = answer
      /\ \A s \in Requests : s # r => /\ layer'[s] = layer[s]
                                      /\ verdict'[s] = verdict[s]
                                      /\ (s \in sampled' <=> s \in sampled)
      /\ r \in sampled' <=> answer = "none"
  BY <1>1 DEF PipelineTypeOK, OuterInv
<1>5. PermitInv' /\ inflight' \in 0..MaxLimit
  <2>1. PermitHolders' = PermitHolders \ {r} /\ r \in PermitHolders
    BY <1>1, <1>4 DEF PermitHolders
  <2>2. /\ Cardinality(PermitHolders') = Cardinality(PermitHolders) - 1
        /\ IsFiniteSet(PermitHolders')
    BY <2>1, HoldersFinite, FS_RemoveElement
  <2>3. Cardinality(PermitHolders') \in Nat
    BY <2>2, FS_CardinalityType
  <2> QED BY <1>1, <2>2, <2>3, LimitAssumption DEF PermitInv, PipelineTypeOK
<1>6. PipelineTypeOK'
  <2>1. TypeOK'
    BY <1>2 DEF CallInv
  <2>2. verdict' \in [Requests -> {"none", "limited", "circuit", "failed",
                                   "classified"}]
        /\ layer' \in [Requests -> {"limiter", "breaker", "slow", "inside",
                                    "classifier", "returned"}]
        /\ sampled' \subseteq Requests
    BY <1>1, <1>3 DEF PipelineTypeOK
  <2> QED BY <1>1, <1>5, <2>1, <2>2 DEF PipelineTypeOK, breaker, machine
<1>7. UNCHANGED <<pc, held, err, body, status, now, deadline, circuit,
                  lastFailTime>>
  BY <1>1 DEF vars, times, breaker, machine
<1>8. OuterInv'
  BY <1>4, <1>7 DEF OuterInv, Readable
<1>9. OpenInv'
  BY <1>4, <1>7 DEF OpenInv
<1>10. SampledAnswers'
  BY <1>3, <1>4, <1>7 DEF SampledAnswers, Readable
<1> QED BY <1>2, <1>5, <1>6, <1>8, <1>9, <1>10

----------------------------------------------------------------------------
\* A stamp, a tick, or nothing: the outer layers see none of it.
LEMMA OuterStutter ==
  ASSUME IInv, UNCHANGED outer,
         (\E r \in Requests : Do(r)) \/ Tick \/ UNCHANGED vars
  PROVE  IInv'
<1> USE DEF IInv
<1>1. CallInv'
  BY BeginStep, TickStep, StutterCallInv
<1>2. UNCHANGED <<layer, status, verdict, inflight, sampled, machine, role,
                  failed>>
  BY DEF outer, limiter, breaker
<1>3. /\ UNCHANGED <<held, err, body, deadline>>
      /\ \A s \in Requests : pc[s] # "idle" => pc'[s] = pc[s] /\ now'[s] = now[s]
      /\ \A s \in Requests : pc[s] = "idle" => pc'[s] \in {"idle", "stamped"}
  <2>1. ASSUME NEW r \in Requests, Do(r) PROVE <1>3!:
    BY <2>1 DEF Do, Goto, CallInv, TypeOK
  <2>2. CASE Tick \/ UNCHANGED vars
    BY <2>2 DEF Tick, vars, times
  <2> QED BY <2>1, <2>2
<1>4. PipelineTypeOK' /\ PermitInv'
  <2>1. TypeOK'
    BY <1>1 DEF CallInv
  <2> QED BY <1>2, <2>1 DEF PipelineTypeOK, PermitInv, PermitHolders, machine
<1>5. OuterInv'
  BY <1>2, <1>3 DEF OuterInv, Readable, Statuses, Judged
<1>6. OpenInv' /\ SampledAnswers'
  BY <1>2, <1>3 DEF OpenInv, OuterInv, SampledAnswers, Readable, machine
<1> QED BY <1>1, <1>4, <1>5, <1>6

LEMMA NextIInv == IInv /\ [PipelineNext]_pipeline => IInv'
<1> SUFFICES ASSUME IInv, [PipelineNext]_pipeline PROVE IInv'
  OBVIOUS
<1>1. CASE \E r \in Requests : Proceed(r)
  BY <1>1, EnterStep, InsideStep, BreakerStep, ReleaseStep DEF Proceed
<1>2. CASE \/ \E r \in Requests : Do(r) /\ UNCHANGED outer
           \/ Tick /\ UNCHANGED outer
           \/ UNCHANGED pipeline
  BY <1>2, OuterStutter DEF pipeline
<1> QED BY <1>1, <1>2 DEF PipelineNext

LEMMA Inductive == PipelineSpec => []IInv
BY InitIInv, NextIInv, PTL DEF PipelineSpec

----------------------------------------------------------------------------
\* Types, and with them that no more permits are out than the highest limit.
THEOREM TypeCorrect == PipelineSpec => []PipelineTypeOK
<1>1. IInv => PipelineTypeOK
  BY DEF IInv
<1> QED BY <1>1, Inductive, PTL

\* What leaves the timeout layer, by whichever exit, and the breaker judges: no
\* error and a response that can be read and came in time, or an error and no
\* response.  What the classifier makes of it is in SamplesAreAnswers.
THEOREM AnswersUsable == PipelineSpec => []UsableAnswer
<1>1. IInv => UsableAnswer
  BY DEF IInv, CallInv
<1> QED BY <1>1, Inductive, PTL

\* No retry and no exit of the inner layers leaves a body behind.
THEOREM BodiesKept == PipelineSpec => []NoBodyForgotten
<1>1. IInv => NoBodyForgotten
  BY DEF IInv, CallInv
<1> QED BY <1>1, Inductive, PTL

\* All the requests of a client together repeat no more attempts than their
\* budget has been paid for, and waste no more than one retry each.
THEOREM RetriesPaid == PipelineSpec => []NoRetryStorm
<1>1. IInv => NoRetryStorm
  BY PaidRepetitions DEF IInv
<1> QED BY <1>1, Inductive, PTL

\* What the caller gets, through all layers: a readable response alone, which the
\* limiter has learnt from; the error of the classifier and the response to close;
\* or another error alone.
THEOREM SamplesAreAnswers == PipelineSpec => []SampledAnswers
<1>1. IInv => SampledAnswers
  BY DEF IInv
<1> QED BY <1>1, Inductive, PTL

\* An open circuit is retried against for a Timeout at most.
THEOREM RetriesEndInTime == PipelineSpec => RetriesEnd
<1> DEFINE InTimeStep == repeated' # repeated =>
                       circuit # "open" \/ clock <= lastFailTime + Timeout
<1>1. IInv /\ [PipelineNext]_pipeline => [InTimeStep]_pipeline
  <2> SUFFICES ASSUME IInv, PipelineNext, repeated' # repeated,
                      circuit = "open"
               PROVE  clock <= lastFailTime + Timeout
    BY DEF pipeline, vars
  <2>1. PICK r \in Requests : Repeat(r) /\ layer[r] = "inside"
    <3>1. PICK r \in Requests : Inside(r)
      BY DEF PipelineNext, Proceed, Enter, Shed, Acquire, FastPath, SlowPath,
             AdmitSlow, Reject, BreakerReturns, Release, Do, Tick, vars
    <3> QED BY <3>1 DEF Inside, Step, Arrive, Returns, Judge, TryExpired,
                        Succeed, Refuse, Deny, Grant, Exhaust, WakeLate, Guard,
                        Deliver
  <2>2. pc[r] = "asleep" /\ ~Expired(r)
    BY <2>1 DEF Repeat, Awake
  <2>3. deadline[r] <= lastFailTime + Timeout
    BY <2>1, <2>2 DEF IInv, OpenInv
  <2>4. {clock, deadline[r], lastFailTime, Timeout} \subseteq Int
    BY TimeAssumption DEF IInv, PipelineTypeOK, CallInv, TypeOK
  <2> QED BY <2>2, <2>3, <2>4 DEF Expired
<1> QED BY <1>1, Inductive, PTL DEF PipelineSpec, RetriesEnd

\* The breaker that the pipeline shows is the circuit of BreakerMachine: who
\* fails in the layers inside does not open it twice or before its cooldown.
THEOREM ImplementsMachine == PipelineSpec => Machine!Safety
<1> USE DEF Machine!Next, Machine!machineVars
<1>1. PipelineInit => Machine!Init
  BY DEF PipelineInit, Init, Machine!Init
<1>2. ASSUME PipelineNext PROVE [Machine!Next]_(Machine!machineVars)
  <2>1. CASE Tick /\ UNCHANGED outer
    BY <2>1 DEF Tick, outer, breaker, machine, Machine!Tick
  <2>2. ASSUME NEW r \in Requests, Enter(r)
        PROVE  [Machine!Next]_(Machine!machineVars)
    <3>1. CASE AdmitSlow(r)
      BY <3>1 DEF AdmitSlow, CooledDown, vars, machine, Machine!HalfOpen
    <3>2. CASE Enter(r) /\ ~AdmitSlow(r)
      BY <3>2 DEF Enter, Shed, Acquire, FastPath, SlowPath, Reject, vars,
                  breaker, machine
    <3> QED BY <2>2, <3>1, <3>2
  <2>3. ASSUME NEW r \in Requests, Inside(r) \/ Release(r)
        PROVE  UNCHANGED Machine!machineVars
    BY <2>3 DEF Inside, Release, Step, Arrive, Returns, Judge, TryExpired,
                Succeed, Refuse, Deny, Grant, Exhaust, WakeLate, Repeat, Guard,
                Deliver, vars, breaker, machine
  <2>4. ASSUME NEW r \in Requests, BreakerReturns(r)
        PROVE  [Machine!Next]_(Machine!machineVars)
    <3>1. UNCHANGED clock
      BY <2>4 DEF BreakerReturns
    <3>2. CASE JudgeFast(r)
      BY <3>1, <3>2 DEF JudgeFast, StillClosed, machine, Machine!Open
    <3>3. CASE JudgeSlow(r)
      BY <3>1, <3>3
         DEF JudgeSlow, Decide, machine, Machine!Reopen, Machine!Close
    <3> QED BY <2>4, <3>2, <3>3 DEF BreakerReturns
  <2>5. ASSUME NEW r \in Requests, Do(r) /\ UNCHANGED outer
        PROVE  UNCHANGED Machine!machineVars
    BY <2>5 DEF Do, outer, breaker, machine
  <2> QED BY <1>2, <2>1, <2>2, <2>3, <2>4, <2>5 DEF PipelineNext, Proceed
<1>3. [PipelineNext]_pipeline => [Machine!Next]_(Machine!machineVars)
  BY <1>2 DEF pipeline, vars, outer, breaker, machine
<1> QED BY <1>1, <1>3, PTL DEF PipelineSpec, Machine!Safety

\* The limiter of the pipeline keeps to Permits: no request passes it when the
\* highest limit is reached, and whether it is rejected by the breaker, times out,
\* or is served, it gives back the permit it took and no other.
THEOREM ImplementsPermits == PipelineSpec => PermitSpec
<1> USE DEF Permit!Next, Permit!permitVars
<1>1. PipelineInit => Permit!Init
  BY LimitAssumption DEF PipelineInit, PermitHolders, Permit!Init
<1>2. ASSUME IInv, NEW r \in Requests, Proceed(r)
      PROVE  [Permit!Next]_(Permit!permitVars)
  <2>1. layer \in [Requests -> {"limiter", "breaker", "slow", "inside",
                                "classifier", "returned"}]
    BY <1>2 DEF IInv, PipelineTypeOK
  <2>2. CASE Acquire(r)
    <3>1. PermitHolders' = PermitHolders \cup {r} /\ r \notin PermitHolders
      BY <2>1, <2>2 DEF Acquire, Entering, Layer, PermitHolders
    <3>2. inflight < MaxLimit /\ inflight' = inflight + 1
      BY <2>2 DEF Acquire
    <3> QED BY <3>1, <3>2 DEF Permit!Take
  <2>3. CASE Release(r)
    <3>1. PermitHolders' = PermitHolders \ {r} /\ r \in PermitHolders
      BY <2>1, <2>3 DEF Release, Layer, PermitHolders
    <3>2. inflight' = inflight - 1
      BY <2>3 DEF Release
    <3> QED BY <3>1, <3>2 DEF Permit!Give
  <2>4. CASE ~Acquire(r) /\ ~Release(r)
    <3>1. \/ layer' = layer
          \/ /\ layer[r] = "limiter" /\ layer' = [layer EXCEPT ![r] = "returned"]
          \/ /\ layer[r] \in {"breaker", "slow", "inside"}
             /\ \E l \in {"slow", "inside", "classifier"} :
                  layer' = [layer EXCEPT ![r] = l]
      BY <1>2, <2>4 DEF Proceed, Enter, Shed, Entering, FastPath, SlowPath,
                        AdmitSlow, Admit, Reject, Inside, BreakerReturns, Layer
    <3>2. PermitHolders' = PermitHolders
      BY <2>1, <3>1 DEF PermitHolders
    <3>3. UNCHANGED inflight
      BY <1>2, <2>4 DEF Proceed, Enter, Shed, FastPath, SlowPath, AdmitSlow, Admit,
                        Reject, Inside, BreakerReturns, limiter
    <3> QED BY <3>2, <3>3
  <2> QED BY <2>2, <2>3, <2>4
<1>3. ASSUME UNCHANGED <<layer, inflight>> PROVE UNCHANGED Permit!permitVars
  BY <1>3 DEF PermitHolders
<1>4. IInv /\ [PipelineNext]_pipeline => [Permit!Next]_(Permit!permitVars)
  BY <1>2, <1>3 DEF PipelineNext, pipeline, outer, limiter
<1> QED BY <1>1, <1>4, Inductive, PTL DEF PipelineSpec, PermitSpec, Permit!Spec
============================================================================
