---------------------------- MODULE HttpPipeline ----------------------------
(***************************************************************************)
(* The HTTP client as rhttp/client.go assembles it: a request passes the    *)
(* limiter and the circuit breaker, then the timeout layer and the retry    *)
(* loop, which RetryCall describes; on the way back the breaker judges what *)
(* came of it, the classifier turns statuses into errors, and the limiter   *)
(* takes its permit back.  The limiter and the breaker are what Limiter and *)
(* CircuitBreaker show of them: a limit that moves between its bounds, and  *)
(* a machine of three states that opens after failures.                     *)
(***************************************************************************)
EXTENDS RetryCall

CONSTANTS MinLimit, MaxLimit,   \* bounds of the concurrency limit
          OpenTimeout           \* cooldown of the breaker

ASSUME LimitAssumption == /\ {MinLimit, MaxLimit} \subseteq Nat \ {0}
                          /\ MinLimit <= MaxLimit
ASSUME CooldownAssumption == OpenTimeout \in Nat

VARIABLES layer,      \* where each request is among the outer layers
          status,     \* of its last attempt
          verdict,    \* the error that the client returns
          inflight,   \* permits out
          circuit, lastFailTime, halfOpenInFlight,   \* the breaker
          role,       \* how the breaker let each request through
          failed,     \* requests counted as failures of a closed circuit
          sampled     \* requests whose time was sampled by the limiter (history)

machine  == <<circuit, lastFailTime, halfOpenInFlight>>
breaker  == <<machine, role, failed>>
limiter  == <<inflight, sampled>>
outer    == <<layer, status, verdict, limiter, breaker>>
pipeline == <<vars, outer>>

PipelineTypeOK ==
  /\ TypeOK
  /\ layer \in [Requests -> {"limiter", "breaker", "slow", "inside",
                             "classifier", "returned"}]
  /\ status \in [Requests -> Statuses \cup {"none"}]
  /\ verdict \in [Requests -> {"none", "limited", "circuit", "failed",
                               "classified"}]
  /\ inflight \in 0..MaxLimit
  /\ circuit \in {"closed", "open", "halfOpen"}
  /\ lastFailTime \in 0..MaxTime
  /\ halfOpenInFlight \in BOOLEAN
  /\ role \in [Requests -> {"none", "fast", "slow"}]
  /\ failed \subseteq Requests
  /\ sampled \subseteq Requests

\* The circuit may have been opened by earlier requests.
PipelineInit ==
  /\ Init
  /\ layer = [r \in Requests |-> "limiter"]
  /\ status = [r \in Requests |-> "none"]
  /\ verdict = [r \in Requests |-> "none"]
  /\ inflight = 0 /\ sampled = {}
  /\ circuit \in {"closed", "open"} /\ lastFailTime = 0
  /\ halfOpenInFlight = FALSE
  /\ role = [r \in Requests |-> "none"]
  /\ failed = {}

----------------------------------------------------------------------------
Layer(r, l)  == layer' = [layer EXCEPT ![r] = l]
Answer(r, e) == verdict' = [verdict EXCEPT ![r] = e]

Entering(r) == pc[r] = "stamped" /\ layer[r] = "limiter"

\* ErrLimited: the limit, wherever it is now, is reached.
Shed(r) ==
  /\ Entering(r) /\ inflight >= MinLimit
  /\ Answer(r, "limited")
  /\ Layer(r, "returned")
  /\ UNCHANGED <<vars, status, limiter, breaker>>

Acquire(r) ==
  /\ Entering(r) /\ inflight < MaxLimit
  /\ inflight' = inflight + 1
  /\ Layer(r, "breaker")
  /\ UNCHANGED <<vars, status, verdict, sampled, breaker>>

\* Through the breaker by path p.
Admit(r, p) == role' = [role EXCEPT ![r] = p] /\ Layer(r, "inside")

FastPath(r) ==
  /\ layer[r] = "breaker" /\ circuit = "closed"
  /\ Admit(r, "fast")
  /\ UNCHANGED <<vars, status, verdict, limiter, machine, failed>>

\* The circuit was not closed; the state is looked at again under the lock.
SlowPath(r) ==
  /\ layer[r] = "breaker" /\ circuit # "closed"
  /\ Layer(r, "slow")
  /\ UNCHANGED <<vars, status, verdict, limiter, breaker>>

CooledDown == clock - lastFailTime >= OpenTimeout

\* A probe starts a half-open round; who finds the circuit closed again goes
\* through as it is.
AdmitSlow(r) ==
  /\ layer[r] = "slow"
  /\ \/ circuit = "closed" /\ UNCHANGED machine
     \/ /\ circuit = "open" /\ CooledDown
        /\ circuit' = "halfOpen" /\ halfOpenInFlight' = TRUE
        /\ UNCHANGED lastFailTime
  /\ Admit(r, "slow")
  /\ UNCHANGED <<vars, status, verdict, limiter, failed>>

\* ErrCircuitOpen, which the classifier leaves as it is.
Reject(r) ==
  /\ layer[r] = "slow"
  /\ \/ circuit = "open" /\ ~CooledDown
     \/ circuit = "halfOpen" /\ halfOpenInFlight
  /\ Answer(r, "circuit")
  /\ Layer(r, "classifier")
  /\ UNCHANGED <<vars, status, limiter, breaker>>

----------------------------------------------------------------------------
\* The layers of RetryCall.
Inside(r) ==
  /\ layer[r] = "inside"
  /\ Step(r)
  /\ status' = [status EXCEPT ![r] = IF pc[r] = "executing" THEN pc'[r] ELSE @]
  /\ UNCHANGED <<layer, verdict, limiter, breaker>>

----------------------------------------------------------------------------
\* The breaker sees an error, or none.
IsFailure(r) == err[r] # "none"

\* Mutant: whoever finds the window failing opens the circuit.
AlwaysOpens == TRUE

StillClosed == circuit = "closed"

\* A request of the fast path counts its failure and opens the circuit, if it is
\* still closed and the window calls for it.
JudgeFast(r) ==
  /\ role[r] = "fast"
  /\ failed' = IF IsFailure(r) THEN failed \cup {r} ELSE failed
  /\ \/ UNCHANGED machine
     \/ /\ StillClosed /\ failed' # {}
        /\ circuit' = "open" /\ lastFailTime' = clock
        /\ UNCHANGED halfOpenInFlight

\* Whoever returns from the slow path decides the round there is.
Decide(r) ==
  IF circuit = "halfOpen"
    THEN /\ halfOpenInFlight' = FALSE
         /\ IF IsFailure(r) THEN circuit' = "open" /\ lastFailTime' = clock
                            ELSE circuit' = "closed" /\ UNCHANGED lastFailTime
    ELSE UNCHANGED machine

JudgeSlow(r) == role[r] = "slow" /\ Decide(r) /\ UNCHANGED failed

\* The locals of the inner layers are gone.
Forget(r) == /\ deadline' = [deadline EXCEPT ![r] = 0]
             /\ attempt' = [attempt EXCEPT ![r] = 0]
             /\ now' = [now EXCEPT ![r] = 0]
             /\ tryDeadline' = [tryDeadline EXCEPT ![r] = 0]
             /\ wake' = [wake EXCEPT ![r] = 0]

BreakerReturns(r) ==
  /\ layer[r] = "inside" /\ pc[r] = "done"
  /\ JudgeFast(r) \/ JudgeSlow(r)
  /\ Answer(r, IF IsFailure(r) THEN "failed" ELSE "none")
  /\ Forget(r)
  /\ Layer(r, "classifier")
  /\ UNCHANGED <<clock, budget, repeated, pc, held, err, body>>
  /\ UNCHANGED <<status, limiter, role>>

\* Mutant: passes every response.
Unclassified(r) == verdict[r]

\* ClassifyError: 408, 425, 429 and the 5xx that matter become errors; the
\* response goes with them.
ClassifyError(r) == IF verdict[r] = "none" /\ status[r] \in {"transient", "limited"}
                      THEN "classified" ELSE verdict[r]

\* The classifier, and Done: only a request without error is a sample.
Release(r) ==
  /\ layer[r] = "classifier"
  /\ Answer(r, ClassifyError(r))
  /\ inflight' = inflight - 1
  /\ sampled' = IF ClassifyError(r) = "none" THEN sampled \cup {r} ELSE sampled
  /\ Layer(r, "returned")
  /\ UNCHANGED <<vars, status, breaker>>

----------------------------------------------------------------------------
Enter(r) == \/ Shed(r) \/ Acquire(r)
            \/ FastPath(r) \/ SlowPath(r) \/ AdmitSlow(r) \/ Reject(r)

Proceed(r) == Enter(r) \/ Inside(r) \/ BreakerReturns(r) \/ Release(r)

PipelineNext == \/ \E r \in Requests : Proceed(r) \/ (Do(r) /\ UNCHANGED outer)
                \/ Tick /\ UNCHANGED outer

PipelineSpec == PipelineInit /\ [][PipelineNext]_pipeline

\* Goroutines are scheduled, handlers return and time passes.
FairPipelineSpec == /\ PipelineSpec
                    /\ WF_pipeline(Tick /\ UNCHANGED outer)
                    /\ \A r \in Requests : WF_pipeline(Proceed(r))
----------------------------------------------------------------------------
(* Safety.                                                                  *)

\* The response that comes with the answer has a body to be read, and closed.
Readable(r) == held[r] # 0 /\ body[r][held[r]] = "open"

\* What the caller gets through all layers, and what the limiter learns from it:
\* no error exactly with a readable response whose status the classifier lets
\* pass, which is the sample; the error of the classifier exactly with a readable
\* response of the other statuses, which the caller still has to close; and with
\* every other error (shed, rejected, timed out, retries at an end) nothing.
SampledAnswers ==
  \A r \in Requests : layer[r] = "returned" =>
    /\ r \in sampled <=> verdict[r] = "none"
    /\ verdict[r] = "none" <=> Readable(r) /\ status[r] \in {"ok", "final"}
    /\ verdict[r] = "classified"
         <=> Readable(r) /\ status[r] \in {"transient", "limited"}
    /\ verdict[r] \in {"limited", "circuit", "failed"} => held[r] = 0

\* Requests between Acquire and Done.
PermitHolders ==
  {r \in Requests : layer[r] \in {"breaker", "slow", "inside", "classifier"}}

\* The limiter keeps to Permits around the other layers as it does alone, with
\* the highest limit for a bound: whatever way a request comes out, its permit is
\* given back once.
Permit == INSTANCE Permits
            WITH Clients <- Requests, out <- PermitHolders, used <- inflight,
                 bound <- MaxLimit

PermitSpec == Permit!Spec

\* Requests that were inside when the circuit opened go on retrying, but not for
\* longer than the timeout: after that an open circuit is left alone.
RetriesEnd ==
  [][repeated' # repeated => circuit # "open" \/ clock <= lastFailTime + Timeout]_pipeline

----------------------------------------------------------------------------
(* Liveness, under FairPipelineSpec.                                        *)

\* No request is under way for ever, through all layers: by its deadline no wait
\* is left, so that only the handler can hold it up.
Served == \A r \in Requests : []<>(pc[r] = "idle" \/ layer[r] = "returned")

\* Seen through all layers the breaker is still that of BreakerMachine: it opens
\* from closed, is left alone for its cooldown, and no half-open round lasts for
\* ever, whatever becomes of the probe inside: an answer, a refused retry, a
\* timeout.
Machine == INSTANCE BreakerMachine
             WITH now <- clock, state <- circuit, opened <- lastFailTime

CircuitSpec == Machine!Spec
=============================================================================
