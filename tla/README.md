# A verification model of resili7

resili7 is a Go library of resilience middlewares for HTTP, gRPC and WebSocket
clients: circuit breaker, retries with a shared budget, hedged requests, an
adaptive concurrency limiter and timeouts. Its core packages are generic over
the transport, shared by all requests of a client, and mostly lock-free. This
directory holds TLA+ models of that core, configurations that check them with
TLC, and proofs that TLAPS checks.

Paths and line numbers below refer to the repository, without the `src/` prefix
under which it is found.

## 1. The system

| Component | State | Operations | Modelled by |
|---|---|---|---|
| Circuit breaker, `breaker/breaker.go` | `state`, `lastFailTime`, `halfOpenInFlight` under `mu`; `window`, a pointer to a `windowStats` with atomic counters | `ExecuteWithResult`, with `rotateWindow` and `currentWindow` | `CircuitBreaker`; abstractly `BreakerMachine` |
| Retry budget, `retry/budget.go` | two atomic counters, `success` and `retries` | `RecordSuccess`, `AllowRetry`, `Decay` | `RetryBudget` |
| Hedge, `hedge/hedge.go` | pooled `hedgeState`: one-place channel, reference count; child context | `ExecuteWithResultCtx`, `hedgeAttemptCtx`, `drainPending`, `recycleState` | `Hedge`; abstractly `Race` |
| Limiter, `limiter/brr.go`, `limiter.go`, `brr_options.go` | atomics `inflight`, `limit`, `rttMin`, `rttEMA`, `cycleIndex`; `stopCh`, `done` | `Acquire`, `Done`, `observeRTT`, `controlLoop`, `adjust`, `Close` | `Limiter`; abstractly `Permits` |
| Retry loop, `retry/retry.go`, `policy.go`, and timeout, `timeout/timeout.go`, with their HTTP adapters `rhttp/retry.go`, `rhttp/timeout.go` | locals of a request: attempt, cached time, deadlines, the response at hand; bodies of responses | `ExecuteWithResult` of both, `DiscardAttempt`, the guard of the timeout adapter | `RetryCall` |
| HTTP pipeline, `rhttp/client.go`, `classifier.go`, `handler.go`, with the adapters for breaker and limiter | what each layer holds of a request: a permit, its way through the breaker, its error | `NewClient`, `Do` | `HttpPipeline`, over `RetryCall` and `BreakerMachine` |
| WebSocket hedged dial, `rws/hedge.go` | pooled `dialState`; a connection per dial that succeeds | `NewHedgeMiddleware`, `hedgeDialAttempt`, `recycleDialState` | `WsHedge` |
| WebSocket persistent connection, `rws/client.go`, `handler.go`, with the layers for retry and timeout | the shared `conn` under `mu`; read deadlines | `Execute`, `invalidate`, one round trip | `WsClient`, over `WsHedge` |
| gRPC pipeline and adapters, `rgrpc/` | the chain; the reply message of the request | the interceptor | no, see 6 |
| Examples, build files | none of the library's | | no |

**How they interact.** A request passes, from the outside in, limiter,
classifier, breaker, timeout, retry and hedge (`rhttp/client.go:53`; gRPC has no
classifier, WebSocket dials in its hedge and puts the handler behind it). Every
layer is a function that calls the next one through an `action`. The layers of
one request share its stamp (`Request.Now`, the time of its arrival) and its
deadline, both copied by value. Different requests meet only in the objects the
layers share: the breaker, the budget, the limiter, the pool of hedge states,
and the connection of a `PersistentHandler`. A hedge is the one layer that starts
goroutines; the limiter has one of its own, its control loop.

**What is hard.** Most shared state is read in one atomic access, judged, and
changed in a later one: a swap may have lost, the value it was judged by may
have been halved, replaced or lowered meanwhile. The breaker mixes lock-free
counters with a locked state machine, and a request decided in one round of the
machine may return in another. Hedge attempts outlive the request they belong
to and share a recycled object with the next one; those that dial own a
connection. Deadlines are checked against cached times, and a read deadline
belongs to a connection that others use too. A layer that turns a response into
an error, or drops one, decides what the layers outside it learn. `PROJECT.json`
lists these hazards at their lines.

**What makes each component correct.**

* Breaker: it implements a three-state machine; it opens on evidence only; a
  half-open circuit is always decided, so that the breaker never rejects
  everybody for ever; counts are not lost to window rotation.
* Budget: no more retries than the budget allows; no lost updates; its loops
  end.
* Hedge: a request gets a result of its own, the first there is, as if it raced
  alone; pooled states are clean, used by nobody and never lost; a request is
  answered if one attempt is.
* Limiter: permits balance, each taken and given back in one step; the limit is respected as well as a lock-free limit
  can be, and settles within its bounds; `Close` returns.
* Retry and timeout: the answer is usable and in time; no body is forgotten;
  retries are paid for; every request is answered.
* HTTP pipeline: the same through all layers; what the limiter samples is what
  the caller can use; nobody retries for long against an open circuit; the
  breaker is still the machine it is alone, so that every probe decides.
* WebSocket: every connection that is not closed is in somebody's hands; round
  trips are on the connection there is, or will fail; the handler keeps no dead
  connection; a silent server holds up nobody who has set a deadline.

## 2. Modules

A process is a goroutine, an action is one atomic access or one critical
section that nobody can look into. Two kinds of definition are not translated
from the code: bounds (`MaxTime`, `MaxCalls`, `MaxRecorded`, `MaxDecays`,
`Credit`) and history variables that only remember (`recorded`, `granted`,
`decays`, `repeated`, `peak`, `sampled`, `drained`, `mingled`, `ignored`). A
definition whose comment begins with "Mutant" is a plausible bug: putting it in
the place of its neighbour makes the property named in `PROJECT.json` fail.

### BreakerMachine, CircuitBreaker, MCCircuitBreaker

`BreakerMachine` is what users of the breaker see: closed, open, half-open, who
may follow whom, the cooldown, and that a half-open circuit is decided.

`CircuitBreaker` follows `ExecuteWithResult` access by access:

| Action | Code |
|---|---|
| `Enter` | the load of `state` that picks the fast or the slow path, l.178 |
| `LoadWindow`, `SwapWindow` | `rotateWindow`: load, compare the age, compare-and-swap |
| `CurrentWindow`, `CountRequest` | the window is loaded again; `requests.Add` |
| `Execute` | the handler returns; a failure is counted in the window the request was counted in |
| `LoadTotal`, `LoadFail` | the two loads the rate is judged by, and the judgement |
| `Trip` | the locked section that opens a circuit that is still closed |
| `Admit` | the locked section of the slow path: reject, probe, or let through as a bystander (the circuit was closed meanwhile) |
| `Settle`, `StoreWindow` | the locked section after the handler; closing publishes Closed first and the new window later, with the lock held in between |

The windows are cells of a finite heap. A cell that neither `window` nor a
goroutine points to may be allocated again, so one cell more than goroutines is
always enough (`HeapAssumption`). A request's stamp is any time up to now:
requests sleep and retry before they reach the breaker in some pipelines. It is
chosen at the rotation that uses it.

### RetryBudget, MCRetryBudget

One action per atomic access of `RecordSuccess`, `AllowRetry` and `Decay`.
A failed compare-and-swap goes back to the load the code goes back to. The ratio
is the code's own thousandths.

### Race, Hedge, MCHedge

`Race` is what the caller of a hedged request sees, and none of what it is built
from: attempts race, the first to report while the caller waits has won (`won`),
and nothing that another attempt or another request does changes the answer.
`RaceSpec` maps `Hedge` to it: `won` is what is in the channel while the
coordinator waits and what it has received afterwards, and an attempt is over
once it has sent its result or dropped it.


`Start` takes a state from the pool (an old one or a new one: `sync.Pool`
promises neither) and fires the primary attempt. The coordinator waits:
`Receive`, `TimerFires` (one more attempt; never more than `MaxAttempts`),
`GiveUp` (the caller's context). It then cancels the child context, drops its
reference, and recycles the state if it was the last (`CancelLosers` or `Drain`,
`CoordinatorLeaves`, `CoordinatorRecycles`). An attempt runs (`Finish`), sends
unless the channel is full (`Send`), drops its reference and perhaps recycles
(`AttemptLeaves`, `AttemptRecycles`). `PutBack` drains and pools.

### Permits, Limiter, MCLimiter

`Permits` is what the limiter promises the layers around it: a client takes a
permit in one step (`Take`), only while fewer than `bound` are out, and gives
back the one it has (`Give`). `bound` is the highest limit there was, not the
limit: that one may be lowered (`Raise` is all that is left of the control loop)
below the number of permits out, and an `Acquire` may be decided on the limit
of a moment ago. `PermitSpec` maps `Limiter` to it.


Clients run `Acquire` (`LoadInflight`, `LoadLimit`, `Acquire`), the handler
(`Execute`), `Done` (`LoadForRelease`, `Release`) and `observeRTT` (`LoadMin`,
`SwapMin`, `LoadEMA`, `SwapEMA`). The control loop runs `LoopTick`,
`LoopLoadEMA`, `LoopStore`: it alone writes `limit` and `cycleIndex`, so its
last loads and its store are one action. `Close` and `CloseReturns` race with
it (`LoopStops`). The arithmetic keeps the fixed point of the code (10 bits).

### RetryCall, MCRetryCall

A request as the timeout layer and the retry loop see it. `Do` stamps it;
`Arrive`, some time later (the outer layers come in between), is the timeout
layer on the way in together with the begin of the first attempt, both by the
stamp. The predicates of `rhttp/retry.go` and `retry/policy.go` are sets of
`Statuses`; the run uses `ShouldRetryDefault`. The handler below `Returns`
something of `Statuses`, then the loop judges: `TryExpired`, `Succeed`,
`Refuse`, `Deny` and `Grant` are lines 105 to 153 of `retry/retry.go`, in that
order of precedence. After the backoff, `Exhaust`, `WakeLate` or `Repeat`. On
the way out `Guard` (`rhttp/timeout.go:26`) and `Deliver`
(`timeout/timeout.go:51`) read the clock one after the other. A response is a
number, that of the attempt that got it, and `body` tells whether its body is
open. `AllowRetry` is one action here: without `Decay` its loop grants exactly
as if it were (`GrantWithinBudget`, proved for `RetryBudget`). `Second` is the
second in which a `Retry-After` of 1 is measured: the time unit of the model is
not one second.

### HttpPipeline, MCHttpPipeline

The client as `NewClient` assembles it, but for the hedge. It extends
`RetryCall`, whose steps are those of the two inner layers.

| Action | Code |
|---|---|
| `Shed`, `Acquire` | the limiter on the way in |
| `FastPath`, `SlowPath` | the load of the breaker's state |
| `AdmitSlow`, `Reject` | its locked section on the slow path |
| `Inside` | a step of `RetryCall`; remembers the status of the last attempt |
| `BreakerReturns` | what the breaker makes of the outcome, by `JudgeFast` (a failure is counted and may open the circuit) or `JudgeSlow` (`Decide`: the round there is, is settled) |
| `Release` | `ClassifyError`, then `Done`, which samples successes only |

What `Limiter` and `CircuitBreaker` show of the outer layers alone is not
repeated: the limit is anywhere between its bounds whenever it is looked at; any
request that returns on the fast path may find the window calling for an open
circuit, once one failure has been counted; the circuit may be open when the
model starts. After the breaker nothing reads the locals of the inner layers,
which `Forget` sets back to spare states. `CircuitSpec` is the refinement: seen
through the pipeline, the breaker is `BreakerMachine`, its liveness included.
`PermitSpec` is that of the limiter to `Permits`, which is proved.

### WsHedge, WsClient, MCWsClient

`WsHedge` is the dial variant of the hedge: `Start`, `TimerFires`, `Receive`
for the coordinator, `Dial` for an attempt. A connection is named by who opened
it: `<<r, i>>` by attempt i of request r, `<<r, 0>>` by the Connector, `<<r, -1>>`
by the Connector when r is retried, `<<r, -2>>` by the caller. What `Hedge` shows of the pool is used: the state is private to
its request, and dropping a reference is part of the step before it. The last
attempt to go drops what is in the channel, as `recycleDialState` does.

`WsClient` composes it with the persistent handler (`Reuse`, `Adopt`, `Connect`
and `Connected` or `NotConnected` with `mu` held in between, `AfterError` for
`invalidate`), the round trip (`Write`, `Read`, `Fail`, `TimeOut`), one retry
(`Retry`) and the timeout layer (`InTime`, `SessionOver`; with the caller's own
connection it sets one more read deadline, `SendConn`). A read that failed once
fails for ever, as in gorilla/websocket. Connections break only while a request
is on them (`Lose`), because nobody would notice earlier. Whether the session is
over is a free choice, since nothing ties it to the time of a read.

## 3. Runs

| Run | Checks | Instance |
|---|---|---|
| `breaker` | `TypeOK`, `InFlightIffHalfOpen`, `HalfOpenHasProbe`, `FailuresHaveRequests`, `WindowMovesForward`, `OpenEvidence`, `MachineSpec`, `CallsReturn` | 2 goroutines, 5 calls, 2 ticks, 3 windows; 640 000 states |
| `breaker_single_probe` | violation of `SingleProbe` | 3 goroutines |
| `budget` | `TypeOK`, `RetriesBounded`, `GrantWithinBudget`, `NoLostUpdate`, `CallsReturn` | 2 callers, 2 decayers, 3 successes, 2 decays; 83 000 states |
| `budget_decay` | violation of `RetriesWithinRatio` | 1 caller, 1 decayer, ratio 1 |
| `hedge` | `TypeOK`, `OwnResult`, `PooledClean`, `CountsUsers`, `NothingLeaks`, `RaceSpec`, `AnsweredDespiteHangs` | 2 requests with 3 attempts, one state; 420 000 states |
| `limiter` | `TypeOK`, `PermitsBalance`, `AverageAboveMin`, `PermitSpec`, `LowestWins`, `CloseEnds`, `LimitSettles` | 2 clients, 2 closers, samples 2 and 3, limits 1 and 2, initially 1 or 3; 295 000 states |
| `limiter_probes` | violation of `Probes` | 1 client, the default gain cycle |
| `http_pipeline` | `PipelineTypeOK`, `UsableAnswer`, `NoBodyForgotten`, `NoRetryStorm`, `SampledAnswers`, `RetriesEnd`, `Served`, `CircuitSpec` | 2 requests with 2 attempts, 3 ticks; 1.1 million states |
| `retry_body` | violation of `NoBodyLeaks` | 1 request |
| `ws_client` | `TypeOK`, `Accounted`, `OneConnection`, `NoDeadHandle`, `Returns` | 2 requests with 2 attempts; 81 000 states |
| `ws_leak` | violation of `OthersClosed` | 2 requests with 2 attempts |
| `ws_deadline` | violation of `ReadsEnd` | 2 requests with 2 attempts |

**Why the bounds are enough for the interesting cases.**

* Breaker: five calls are enough to open the circuit, to probe, reopen and probe
  again while a probe or a bystander of an earlier round is still in its
  handler. Two goroutines are a prober and a late or rotating one; the third
  that a second probe takes is in the run that looks for one. Two ticks let
  windows expire and a cooldown pass twice.
* Budget: ratio 1 makes the allowance change with every success and every
  halving. Two callers race for the last retry; two decays overlap.
* Hedge: the requests take the one state in turn, so that every user of a state
  that lingers is a straggler of the earlier request. A second state would only
  let them run apart. Three attempts give the winner, a loser that sends in
  time and one that finds the channel full.
* Limiter: a limit that moves between 1 and 2 and starts at 1 or above the
  maximum, so that both clients hold a permit, one waits for the other, and a
  limit is lowered under a permit that was granted; one fast and one slow round
  trip, so that the average is above the minimum or equal to it; the gain cycle
  of the run doubles and halves, as the default goes up and down.
* HTTP pipeline: a first and a last attempt; with a deadline after two ticks, a
  per-try deadline of one, and waits of none, one and two, a request runs into
  each of them before, at and after its time. Two permits at most and a cooldown
  of one tick let one request probe while the other, from before the circuit
  opened, still retries; three ticks let both orders of their deadlines happen.
* WebSocket: two requests are enough to adopt, share, break and replace a
  connection under each other; two dials are a winner and a loser. Each request
  has its own five connections, one for every way to open one, so that a new one
  is never mistaken for an old one.

**Deadlock.** The breaker, the hedge, the pipeline and the WebSocket client turn
the deadlock check off: their bounds on calls, requests and time let every
process come to rest, and their liveness properties say that it is not too
early. The runs of the budget and the limiter keep it on.

**Fairness.** Always weak fairness of the steps of a call that is under way:
goroutines are scheduled, `sync.Mutex` starves nobody, timers fire and handlers
return. Nothing obliges a request to arrive, a caller to cancel, a closer to
close, or (except in `HttpPipeline`, whose sleeps need it) the clock to advance.
`AnsweredDespiteHangs` assumes less: of the attempts of a request only the last
one must return. `Returns` of `WsClient` assumes less as well: a server need
never answer (`Read` is not fair), dials and the Connector must return.
`LoopStops` is strongly fair: the control loop selects among a
ticker and the closed channel again and again, and Go picks among ready cases at
random. The compare-and-swap loops of the budget need no more than weak
fairness of a whole call, because a failed swap is somebody else's progress,
which the recorded successes and the decays bound. The library does not bound
them: without bounds, a caller could in principle lose every race.

## 4. What the code does not keep

Six runs expect a violation: there the code does other than a comment, a test
or a document of the repository says.

* **A second probe** (`breaker_single_probe`). Any slow-path request that
  returns settles the round if the circuit is half-open, whoever the probe is.
  A request admitted as a bystander, or a probe of an earlier round, reopens the
  circuit and clears the flag while the probe is still in its handler; after the
  cooldown a second probe joins it. `breaker/halfopen_test.go:28` says only one
  may be in flight. What holds nevertheless is that a half-open circuit has a
  probe at all (`HalfOpenHasProbe`).
* **Retries beyond the ratio** (`budget_decay`). `retry/budget.go:38` says that
  concurrent callers cannot overshoot the budget. A caller that loads `success`
  before `Decay` halves both counters and `retries` after it judges a new count by
  an old allowance. The run has one caller and a ratio of 1, at which no halving
  can round in the caller's favour: the interleaving does it alone. What is kept
  is `RetriesBounded`, on the counters, and `GrantWithinBudget` until the first
  `Decay`.
* **Probes that never probe** (`limiter_probes`). The gain is applied to the
  limit itself and the limit is stored, so that a cycle of the default gains
  (1.25, 0.75, 1, ...) shrinks it by 0.9375 without any queue; at 1 the step up
  is rounded away.
* **A body nobody closes** (`retry_body`). The guard and the timeout layer read
  the clock one after the other; a response in time for the first and late for
  the second is dropped open.
* **A connection nobody closes** (`ws_leak`). `rws/hedge.go:76` says the losers
  are cleanly closed. A loser does so if it finds the channel full; once the
  winner has been received the channel is empty, the loser reports, and
  `recycleDialState` drops its connection open. `OthersClosed` leaves out the
  winner that nobody uses (below); `Accounted` shows that these two are the only
  ways to lose an open connection.
* **A read without a limit** (`ws_deadline`). `rws/client.go:17` sets a deadline
  per request, but a read deadline belongs to the connection. A caller brings a
  connection, the handler adopts it, another request uses it too: when the first
  returns, its timeout layer clears the deadline (`rws/timeout.go:64`) that the
  other reads under, which a silent server then holds up for ever. `ReadsEnd`
  asks for this only of requests that do not read at once, which gorilla/websocket
  forbids; if they do, the deferred call of `rws/client.go:22` does the same.
  `Returns` is what is left for requests that did not share.

Read in the code while modelling it, without a run of their own:

* All attempts of a hedge share one child context (`hedge/hedge.go:172`), and it is
  cancelled before the result is returned, in every order of steps: the body of an
  HTTP response is then read under a cancelled context. `rhttp/hedge.go:15` says
  that each attempt has its own and that losers are cancelled.
* `CONTRIBUTING.md:314` places the classifier before the breaker, so that statuses
  are errors when the breaker judges them. `NewClient` wraps the breaker first and
  the classifier around it (`rhttp/client.go:75`): a status that the inner layers
  let pass is a success for the breaker, and an error for the caller.
* `limiter/brr.go:18` calls `rttMin` the lowest round trip of the current window.
  There is no window: nothing ever raises it, and after a lasting slowdown every
  sample looks like a queue. `LowestWins` promises nothing about a window, only
  that of racing samples none is lost.
* The first WebSocket dial to succeed is used, says `rws/hedge.go:76`. A
  `PersistentHandler` that has a connection ignores the one a hedge dialled for
  the request (`rws/client.go:57`), and nobody closes it.
* A retry is a reconnection, says `rws/retry.go:14`. A request that brought its own
  connection still has it in `req.Conn` when it is retried, and the handler, which
  has just closed and forgotten it, adopts it again and writes to it.
  `NoDeadHandle` says how far this goes: the handler holds a closed connection
  only if a caller brought it, and while somebody is on it or its session is over.
* A comment in `hedge/hedge.go:211` says that a result is dropped if the context
  was cancelled first; the select below it does not look at the context. It is
  harmless: `OwnResult` holds all the same.
* The first successful WebSocket dial is to be used; the first to report is, a
  failure too.
* `TimeoutConfig.Dial` (`rws/timeout.go:22`) is read by nobody.
* The classifier returns the response together with an error; `README.md:95`
  says callers must not use it then, so nobody closes its body.
* The first result wins a hedge, a failure too (`hedge/hedge.go:129`), also
  before a second attempt is fired; `rhttp/hedge.go:13` says the first
  successful response or the last failure is returned.
* A window may be judged when the circuit was closed, and open it after it was
  opened, recovered and closed again (`breaker/breaker.go:200` looks at the
  state alone). `requests` and `failures` are two loads (l.190), so the rate is
  not that of any one moment; `OpenEvidence` states what is true of it.
* `InitialLimit` is not clamped to the bounds (`limiter/brr.go:59`); the first
  adjustment brings it there (`LimitSettles`).
* The budget is charged for the last attempt, after which none follows
  (`retry/retry.go:126`): of all grants at most one per request is spent for
  nothing (the second half of `NoRetryStorm`). A deadline that passes in the wait
  after it is reported as `ErrRetry`, not as `ErrTimeout` (l.153, against l.55).
* `Pipeline.Retry429Policy` (`rhttp/client.go:29`) is read by nobody: the
  predicate must be given to the policy.
* Neither `NewLimiter` nor `WithSmoothing` (`limiter/brr_options.go:64`) looks at
  the smoothing: outside 0 to 1024 the average is none, and can fall below the
  minimum.

## 5. Proofs

Seven modules hold proofs: `CircuitBreakerProofs`, `RetryBudgetProofs`,
`HedgeProofs`, `LimiterProofs`, `RetryCallProofs`, building on it
`HttpPipelineProofs`, and `WsClientProofs`. They hold for any number of
goroutines, clients, requests and attempts. They assume what the `ASSUME`s of the
modules say: finite sets of processes; for the breaker a heap with a cell to spare and
natural numbers as options; for the budget a ratio between 1 and 1000
thousandths, as `NewBudget` enforces; for the limiter positive samples, and bounds that are positive and in order, but any gains and any smoothing; for
the WebSocket client that `None` is no request, connection or result.

**CircuitBreaker.** The invariants alone are not inductive. A goroutine that is
about to trip the circuit has judged a window some steps ago, and nothing in
`OpenEvidence` says the cell still is that window. `IInv` adds

* `LockInv`: the lock is held across actions by the closing goroutine only;
* `PointerInv`: a goroutine that works on a window points to one, and that keeps
  the cell from being allocated again;
* `TimeInv`: no time lies in the future, and a rotation is decided on a stamp
  that is no older than the window found (this is what keeps a stale swap from
  moving the window back);
* `JudgeInv`: counters only grow while somebody points to them, so what was
  loaded is a lower bound.

From `Spec => []IInv` follow `TypeCorrect`, `FlagCorrect`, `NeverWedged`,
`FailuresBounded`, `OpensOnEvidence` and `WindowForward`, and by a step
simulation `ImplementsMachine`: every behaviour is one of the safety part of
`BreakerMachine`. `NeverWedged` rests on the fact that only a step to half-open
creates a probe's duty, and every step by which a probe leaves its handler
settles the state. `FailuresBounded` needs the cardinality of the set of pending
requests, hence the lemmas on finite sets.

**RetryBudget.** `IInv` adds `LoadInv`: what was loaded was recorded, and a
caller about to swap has seen room in the budget it loaded. `RetriesWithinBudget`
follows with the monotonicity of `Allowed`. `NoOvershoot` needs a second
invariant that holds as long as nobody has decayed: `success` is then no less
than any quota loaded from it. `UpdatesKept` is the action property that no
update is lost.

**Hedge.** None of the five invariants is inductive: that a count is exact says
nothing about who will recycle. `IInv` tells the two lives of a state apart.
`Resting`: fresh or in the pool, without users, its channel empty. `Engaged`:
out of the pool, all its users of one request, what is in the channel from one
of them, and once the last has left exactly one goroutine that recycles it.
`FiredInv` keeps attempts behind `fired`, so that a request that starts has
none. `FirstWins` rests on `Engaged` too: whoever else could empty the channel
of a waiting coordinator would be a second request in its state, or the last one
to leave it. The proof has one lemma for each thing that may happen to a state
(nobody moves, a user joins, a user leaves, the recycler puts it back), which
coordinator and attempts share.

`ImplementsRace` says the most of the hedge: requests share states, and still
each is a race of its own. A step that only counts references, recycles or pools
must be a stutter of `Race`, and `Send` of a straggler must not put its result
where another request waits. That is the lemma `WaiterAlone`: of all coordinators
and attempts that use the state of a waiting coordinator, all are of its request,
and none recycles it. `RaceInv` adds that a request has received nothing before
it stops waiting.

**Limiter.** `PermitsBalance` needs the set of clients that hold a permit, and
its cardinality; `InflightBounded` needs `PermitInv`: a client about to swap has
seen a value below the highest limit so far (`peak`), and the swap succeeds only
if it is still that value. `AverageAboveMin` is true of a smoothing from 0 to 1024
only, which the code does not enforce: `QueueNeverNegative` has it as a
hypothesis, and so has the conjunct `AverageInv` of `IInv`. It rests on one fact of
arithmetic, that an integer mean of two values is between them, and on
`SampleInv`: a client that smooths has already pulled the minimum down to its
sample. `RaceForMinimum`, that of racing samples the lowest wins, is an action
property from the same invariant. `ImplementsPermits` is a step simulation
into `Permits`: the swap that succeeds is the step, all loads and lost swaps are
stutters. With `PermitInv` it follows that the permit is taken below the bound.

**RetryCall.** `CallInv` adds to the checked invariants `CountInv` (cached times
are not ahead of the clock, deadlines not further than `Timeout`), `HandInv`
(there is a response at hand exactly if there is no error, its body is open, and
past the guard it is in time) and `PaidInv`: repetitions and those who sleep
before one are together no more than the grants, and the grants no more than the
repetitions and the requests that have one left, asleep or returned. This is what
makes both halves of `NoRetryStorm` hold at the moment a sleeper wakes.

**HttpPipeline.** Its inner steps are those of `RetryCall` and keep `CallInv` by
its lemmas. `IInv` adds `PermitInv` (inflight is the number of requests between
the limiter and the classifier), `OuterInv` (which layer goes with which part of
the call: whoever is outside has begun nothing or is done) and `OpenInv`: while
the circuit is open, nobody inside has a deadline later than the moment it opened
plus `Timeout`, because nobody gets in without a half-open round before. From it
follows `RetriesEndInTime`. Two theorems speak of the answer, of two places:
`AnswersUsable` is about what leaves the timeout layer, a response or an error
alone; `SamplesAreAnswers` is about what the caller gets through all layers, the
classifier's response with an error included, and what the limiter makes of it. `ImplementsMachine` is a step simulation into
`BreakerMachine`, and `ImplementsPermits` one into `Permits`: so the outer layers
of the pipeline keep to the same two abstract specifications that `CircuitBreaker`
and `Limiter` implement alone.

**WsClient.** `OneConnection` and `NoDeadHandle` speak of connections by their
state, and a step that closes one is safe only for who else has it in hand.
`IInv` therefore says of every connection who may still use it:

* `StagesInv`: what a request has in hand at each stage; `LockInv`: who calls the
  Connector has the lock, and then there is no connection;
* `UnbornInv`: a connection that is not open yet is in nobody's hands, and the
  next one a request would open is such a one. Names are never used twice: this
  is why a Connector that is called again for a retry opens `<<r, -1>>`. If it
  opened `<<r, 0>>` again, a connection that others still think closed would come
  back to life under them, in the model only;
* `TransitInv`: from the dial to the handler a dialled connection is in the
  channel or with its request, open, and nobody else's;
* `AccountInv`: `Accounted` by these references alone. The others `Accounted`
  names are implied by them;
* `SharedInv`: the history variable `mingled` knows of everybody whose deferred
  call may clear the deadline somebody else reads under.

The conjuncts need each other: that an adopted connection is alive
(`NoDeadHandle`) is `TransitInv`, which needs `UnbornInv` at the dial. There is
one lemma for each action. What follows is `TypeCorrect`, `ConnectionsAccounted`,
`OneAtATime`, `NoDeadConnection`, and two theorems no run states:
`ReadersAreTimed`, which is the safety half of `Returns` (a reader has a deadline,
or a broken connection, or has shared it), and `HandlerCloses` (the handler lets go of a connection only in the step that
closes it, and never swaps one for another).

**Model-checked only.** All liveness (`MachineSpec` and `CircuitSpec` with their
fairness, `CallsReturn`, `AnsweredDespiteHangs`, `CloseEnds`, `LimitSettles`,
`Served`, `Returns`): the prover has no rules for fairness and `ENABLED`.
Induction over data and `RECURSIVE` operators are beyond the prover as well; no
module uses the latter. All invariants, action properties and safety refinements
of the passing runs are theorems. `WsHedge` is not shown to implement `Race`: it
keeps no result after `Receive`, the connection moves on to `WsClient`.

## 6. What is not modelled

* Panics of handlers: a panicking probe leaves the circuit half-open for ever
  (`breaker/breaker.go:240`), a panicking handler of the limiter keeps its
  permit (`limiter/limiter.go:35`).
* A handler that returns neither a response nor an error. The retry loop takes it
  for a failure to be retried (`rhttp/retry.go:60`), the classifier for an unknown
  error (`rhttp/classifier.go:35`).
* A half-open circuit with a clear flag, for which `breaker/breaker.go:229` has a
  branch: in `CircuitBreaker`, which has the branch, `InFlightIffHalfOpen` shows
  that no step gets there; `HttpPipeline` leaves it out.
* Wrapping of 64-bit counters, and clocks that step back.
* The copies of the counters in `CircuitBreaker` that nothing reads.
* The hedge without hedging (one plain call), and the pool of timers.
* `Acquire` and `Done` called by hand and not by `ExecuteWithResult`; the
  finalizer of the limiter and the recovery of its loop from a panic.
* Policies without a budget, backoffs other than `LinearBackoff`
  (`ExponentialBackoff` overflows from attempt 34 on, `retry/policy.go:72`),
  and a retry loop outside a timeout layer.
* In the HTTP pipeline the hedge, whose responses would multiply the states of
  every attempt; a chain with layers left out; the body of a hedged loser, which
  nobody closes.
* gRPC. Its chain is the HTTP one without classifier and bodies, over the same
  core packages. What is its own is a reply that hedged attempts share
  (`rgrpc/hedge.go:24`): several write one message at once, a data race whose
  outcome is any mixture, so that a model would promise nothing of it.
* WebSocket: one connection that several callers bring; a session that is over
  when the request comes (`rws/timeout.go:55`, which returns at once); more than
  one retry, and one that dials again because the hedge is inside the retry.
* WebSocket: two writes or two reads at the same time on one connection, which
  gorilla/websocket forbids and the handler does not prevent
  (`rws/client.go:27`); breaker and limiter around the client; what messages say.
* Logging, formatting, examples and build files.

## 7. Plan

The order is that of what can go wrong and is shared by most requests.

1. Done: breaker, budget, hedge, limiter, retry call, HTTP pipeline, WebSocket
   dial and persistent connection; the abstract machine, race and permits they
   implement; proofs of all invariants and safety refinements.
2. `WsHedge` as a race whose prize is a connection, with what becomes of those
   that lose.
3. The hedge inside the HTTP pipeline: which responses it drops, and that
   `NoBodyForgotten` fails by exactly those.
4. Handlers that panic, in breaker and limiter.
