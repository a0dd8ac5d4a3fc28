-------------------------- MODULE CircuitBreaker --------------------------
(***************************************************************************)
(* breaker/breaker.go: a circuit breaker shared by concurrent requests.     *)
(* The closed circuit is lock-free: a request counts itself in the window   *)
(* it finds and judges that window when its handler has returned.  The      *)
(* other two states are handled under cb.mu.                                *)
(*                                                                          *)
(* A process of Procs is a goroutine in ExecuteWithResult; each action is   *)
(* one access to shared memory, or one critical section of cb.mu where no   *)
(* lock-free reader can tell its inside apart.  The section that closes the *)
(* circuit is not such a one (it publishes Closed before it replaces the    *)
(* window), so it is two actions and mu names its owner in between.         *)
(*                                                                          *)
(* A window is a cell of the finite heap Windows; a cell nobody refers to   *)
(* is garbage and may be allocated again.  The copies of the counters in    *)
(* cb.requests, cb.failures and cb.windowStart are written and never read   *)
(* by the breaker, and are left out.                                        *)
(***************************************************************************)
EXTENDS Integers, FiniteSets

CONSTANTS Procs,            \* goroutines that share the breaker
          Windows,          \* heap of windowStats
          None,             \* no process, no window
          OpenTimeout,      \* WithTimeout
          WindowDuration,   \* WithWindow
          MinRequests,      \* WithMinRequests
          ErrorThreshold,   \* WithErrorThreshold, scaled by 1024
          MaxTime,          \* bound on the clock
          MaxCalls          \* bound on the calls of ExecuteWithResult

ASSUME NoneAssumption == None \notin Procs /\ None \notin Windows
ASSUME HeapAssumption == /\ IsFiniteSet(Procs) /\ IsFiniteSet(Windows)
                         /\ Cardinality(Windows) > Cardinality(Procs)
ASSUME OptionsAssumption == /\ OpenTimeout \in Nat /\ WindowDuration \in Nat
                            /\ MinRequests \in Nat /\ ErrorThreshold \in Nat
ASSUME BoundsAssumption == MaxTime \in Nat /\ MaxCalls \in Nat

VARIABLES
  now,                \* the clock
  state,              \* cb.state
  lastFailTime,       \* cb.lastFailTime
  halfOpenInFlight,   \* cb.halfOpenInFlight
  mu,                 \* owner of cb.mu between two actions, or None
  window,             \* cb.window
  start,              \* windowStats.start
  requests,           \* windowStats.requests
  failures,           \* windowStats.failures
  pc,                 \* where each goroutine is
  stamp,              \* action.Now(), while rotateWindow still needs it
  win,                \* the windowStats it holds a pointer to, or None
  total,              \* its local total
  calls               \* calls made so far

circuit == <<state, lastFailTime, halfOpenInFlight, mu>>
heap    == <<window, start, requests, failures>>
locals  == <<stamp, win, total>>
vars    == <<now, circuit, heap, pc, locals, calls>>

Locations == {"idle", "load", "swap", "current", "count", "execute",
              "loadTotal", "loadFail", "trip",
              "admit", "probe", "bystander", "storeWindow"}

TypeOK ==
  /\ now \in 0..MaxTime
  /\ state \in {"closed", "open", "halfOpen"}
  /\ lastFailTime \in 0..MaxTime
  /\ halfOpenInFlight \in BOOLEAN
  /\ mu \in Procs \cup {None}
  /\ window \in Windows
  /\ start \in [Windows -> 0..MaxTime]
  /\ requests \in [Windows -> Nat]
  /\ failures \in [Windows -> Nat]
  /\ pc \in [Procs -> Locations]
  /\ stamp \in [Procs -> 0..MaxTime]
  /\ win \in [Procs -> Windows \cup {None}]
  /\ total \in [Procs -> Nat]
  /\ calls \in 0..MaxCalls

Init ==
  /\ now = 0
  /\ state = "closed"
  /\ lastFailTime = 0
  /\ halfOpenInFlight = FALSE
  /\ mu = None
  /\ window \in Windows
  /\ start = [w \in Windows |-> 0]
  /\ requests = [w \in Windows |-> 0]
  /\ failures = [w \in Windows |-> 0]
  /\ pc = [p \in Procs |-> "idle"]
  /\ stamp = [p \in Procs |-> 0]
  /\ win = [p \in Procs |-> None]
  /\ total = [p \in Procs |-> 0]
  /\ calls = 0

----------------------------------------------------------------------------
Goto(p, l) == pc' = [pc EXCEPT ![p] = l]

\* The goroutine leaves ExecuteWithResult and its locals die.
Return(p) ==
  /\ Goto(p, "idle")
  /\ win' = [win EXCEPT ![p] = None]
  /\ total' = [total EXCEPT ![p] = 0]
  /\ UNCHANGED stamp

\* windowStats nothing points to.
Free == {w \in Windows : w # window /\ \A p \in Procs : win[p] # w}

\* cb.window = &windowStats{start: t}, in the cell w.
Publish(w, t) ==
  /\ window' = w
  /\ start' = [start EXCEPT ![w] = t]
  /\ requests' = [requests EXCEPT ![w] = 0]
  /\ failures' = [failures EXCEPT ![w] = 0]

Expired(w, t) == t - start[w] >= WindowDuration

EnoughRequests(n) == n >= MinRequests

\* The fixed-point comparison (f / n) >= threshold.
RateReached(f, n) == f * 1024 >= ErrorThreshold * n

\* Mutant: judges without the rate.
AnyRate(p) == EnoughRequests(total[p])

\* The pair a goroutine has loaded calls for opening the circuit.
Exceeded(p) == /\ EnoughRequests(total[p])
               /\ RateReached(failures[win[p]], total[p])

CooledDown == now - lastFailTime >= OpenTimeout

----------------------------------------------------------------------------
(* The fast path: a request that loads Closed.                              *)

\* A request arrives and loads cb.state.
Enter(p) ==
  /\ pc[p] = "idle"
  /\ calls < MaxCalls
  /\ calls' = calls + 1
  /\ Goto(p, IF state = "closed" THEN "load" ELSE "admit")
  /\ UNCHANGED <<now, circuit, heap, locals>>

\* rotateWindow: current := cb.window.Load(), and whether it has expired at t,
\* the time the request was stamped with (possibly long ago: a request is
\* stamped once at its entry point and its retries keep the stamp).
LoadWindow(p, t) ==
  /\ pc[p] = "load"
  /\ IF Expired(window, t)
       THEN /\ win' = [win EXCEPT ![p] = window]
            /\ stamp' = [stamp EXCEPT ![p] = t]
            /\ Goto(p, "swap")
       ELSE Goto(p, "current") /\ UNCHANGED <<win, stamp>>
  /\ UNCHANGED <<now, circuit, heap, total, calls>>

\* Mutant: stores the new window without comparing.
AlwaysSwaps(p) == TRUE

\* The comparison of CompareAndSwap(current, newWindow).
Unswapped(p) == window = win[p]

\* rotateWindow: the swap; who loses it goes on with the winner's window.
SwapWindow(p) ==
  /\ pc[p] = "swap"
  /\ IF Unswapped(p)
       THEN \E w \in Free : Publish(w, stamp[p])
       ELSE UNCHANGED heap
  /\ win' = [win EXCEPT ![p] = None]
  /\ stamp' = [stamp EXCEPT ![p] = 0]
  /\ Goto(p, "current")
  /\ UNCHANGED <<now, circuit, total, calls>>

\* currentWindow: the second cb.window.Load().
CurrentWindow(p) ==
  /\ pc[p] = "current"
  /\ win' = [win EXCEPT ![p] = window]
  /\ Goto(p, "count")
  /\ UNCHANGED <<now, circuit, heap, stamp, total, calls>>

CountRequest(p) ==
  /\ pc[p] = "count"
  /\ requests' = [requests EXCEPT ![win[p]] = @ + 1]
  /\ Goto(p, "execute")
  /\ UNCHANGED <<now, circuit, window, start, failures, locals, calls>>

\* Mutant: counts the failure in the active window, not in the request's.
CountFailureInActive(p) == failures' = [failures EXCEPT ![window] = @ + 1]

CountFailure(p) == failures' = [failures EXCEPT ![win[p]] = @ + 1]

\* action.Execute() returns; err is whether isFailure counts its error.
Execute(p, err) ==
  /\ pc[p] = "execute"
  /\ IF err THEN CountFailure(p) ELSE UNCHANGED failures
  /\ Goto(p, "loadTotal")
  /\ UNCHANGED <<now, circuit, window, start, requests, locals, calls>>

LoadTotal(p) ==
  /\ pc[p] = "loadTotal"
  /\ total' = [total EXCEPT ![p] = requests[win[p]]]
  /\ Goto(p, "loadFail")
  /\ UNCHANGED <<now, circuit, heap, stamp, win, calls>>

\* Loads fail and judges the pair.
LoadFail(p) ==
  /\ pc[p] = "loadFail"
  /\ IF Exceeded(p) THEN Goto(p, "trip") /\ UNCHANGED locals ELSE Return(p)
  /\ UNCHANGED <<now, circuit, heap, calls>>

\* Mutant: does not look at the state again once it has the lock.
AlwaysTrips == TRUE

StillClosed == state = "closed"

\* Mutant: remembers when the cooldown ends instead of when it began.
OpenWithDeadline == state' = "open" /\ lastFailTime' = now + OpenTimeout

\* state.Store(Open), lastFailTime = time.Now().
Open == state' = "open" /\ lastFailTime' = now

\* The critical section that opens a circuit that is still closed.
Trip(p) ==
  /\ pc[p] = "trip"
  /\ mu = None
  /\ IF StillClosed THEN Open ELSE UNCHANGED <<state, lastFailTime>>
  /\ Return(p)
  /\ UNCHANGED <<now, halfOpenInFlight, mu, heap, calls>>

----------------------------------------------------------------------------
(* The slow path: a request that loaded Open or HalfOpen.                   *)

\* Open with its cooldown over counts as HalfOpen.
MayProbe == state = "halfOpen" \/ (state = "open" /\ CooledDown)

\* The request is turned away with ErrCircuitOpen.
Reject(p) ==
  /\ pc[p] = "admit"
  /\ mu = None
  /\ \/ state = "open" /\ ~CooledDown /\ UNCHANGED state
     \/ MayProbe /\ halfOpenInFlight /\ state' = "halfOpen"
  /\ Return(p)
  /\ UNCHANGED <<now, lastFailTime, halfOpenInFlight, mu, heap, calls>>

\* The request is let through as the probe.
AdmitProbe(p) ==
  /\ pc[p] = "admit"
  /\ mu = None
  /\ MayProbe /\ ~halfOpenInFlight
  /\ state' = "halfOpen"
  /\ halfOpenInFlight' = TRUE
  /\ Goto(p, "probe")
  /\ UNCHANGED <<now, lastFailTime, mu, heap, locals, calls>>

\* The circuit closed since the request loaded Open: neither branch applies,
\* and the request executes without being counted anywhere.
AdmitBystander(p) ==
  /\ pc[p] = "admit"
  /\ mu = None
  /\ state = "closed"
  /\ Goto(p, "bystander")
  /\ UNCHANGED <<now, circuit, heap, locals, calls>>

Admit(p) == Reject(p) \/ AdmitProbe(p) \/ AdmitBystander(p)

\* After the handler of a slow-path request, with cb.mu locked.
AfterHandler(p) == pc[p] \in {"probe", "bystander"} /\ mu = None

\* The state is not half-open any more: nothing to decide.
SettleLate(p) ==
  /\ AfterHandler(p)
  /\ state # "halfOpen"
  /\ Return(p)
  /\ UNCHANGED <<now, circuit, heap, calls>>

\* Mutant: forgets to clear the flag.
ReopenKeepingFlag == Open /\ UNCHANGED halfOpenInFlight

\* Mutant: leaves it to a next request to decide the round.
ReopenLater == UNCHANGED <<state, lastFailTime, halfOpenInFlight>>

Reopen == Open /\ halfOpenInFlight' = FALSE

\* The handler failed: back to Open.
SettleFailure(p) ==
  /\ AfterHandler(p)
  /\ state = "halfOpen"
  /\ Reopen
  /\ Return(p)
  /\ UNCHANGED <<now, mu, heap, calls>>

\* The handler succeeded: Closed is published first, the new window follows
\* with cb.mu still held.
SettleSuccess(p) ==
  /\ AfterHandler(p)
  /\ state = "halfOpen"
  /\ halfOpenInFlight' = FALSE
  /\ state' = "closed"
  /\ mu' = p
  /\ Goto(p, "storeWindow")
  /\ UNCHANGED <<now, lastFailTime, heap, locals, calls>>

Settle(p) == SettleLate(p) \/ SettleFailure(p) \/ SettleSuccess(p)

\* Mutant: returns without the deferred unlock.
KeepLock == UNCHANGED mu

Unlock == mu' = None

\* cb.window.Store of a window that starts now.
StoreWindow(p) ==
  /\ pc[p] = "storeWindow"
  /\ \E w \in Free : Publish(w, now)
  /\ Unlock
  /\ Return(p)
  /\ UNCHANGED <<now, state, lastFailTime, halfOpenInFlight, calls>>

----------------------------------------------------------------------------
Tick ==
  /\ now < MaxTime
  /\ now' = now + 1
  /\ UNCHANGED <<circuit, heap, pc, locals, calls>>

\* The steps of a call under way.
Step(p) ==
  \/ \E t \in 0..now : LoadWindow(p, t)
  \/ SwapWindow(p) \/ CurrentWindow(p) \/ CountRequest(p)
  \/ \E err \in BOOLEAN : Execute(p, err)
  \/ LoadTotal(p) \/ LoadFail(p) \/ Trip(p)
  \/ Admit(p) \/ Settle(p) \/ StoreWindow(p)

Next == (\E p \in Procs : Enter(p) \/ Step(p)) \/ Tick

\* Goroutines are scheduled, handlers return, and sync.Mutex starves nobody;
\* nothing obliges a request to arrive or the clock to advance.
Fairness == \A p \in Procs : WF_vars(Step(p))

Spec == Init /\ [][Next]_vars

FairSpec == Spec /\ Fairness

----------------------------------------------------------------------------
(* Safety.                                                                  *)

\* halfOpenInFlight is set by the step that makes the circuit half-open and
\* cleared by every step that ends it, so a half-open circuit never admits a
\* second request and no other circuit carries a forgotten flag (l.218-246).
InFlightIffHalfOpen == halfOpenInFlight <=> state = "halfOpen"

\* A half-open circuit turns everybody away, so it must have a probe in its
\* handler whose return will decide it: without one it is wedged for ever,
\* whatever bystanders and late probes of earlier rounds do (l.229-260).
HalfOpenHasProbe == state = "halfOpen" => \E p \in Procs : pc[p] = "probe"

\* Requests that are counted in w and may yet count a failure there.
Pending(w) == {p \in Procs : win[p] = w /\ pc[p] = "execute"}

\* A failure is counted in the very window its request was counted in, however
\* often cb.window was swapped meanwhile (l.179-186).
FailuresHaveRequests ==
  \A w \in Windows : failures[w] + Cardinality(Pending(w)) <= requests[w]

\* The circuit opens only for a goroutine whose window holds, at that moment,
\* at least MinRequests requests and ErrorThreshold of that many failures,
\* although it was judged from two loads some time earlier (l.190-203).
OpenEvidence ==
  [][state = "closed" /\ state' = "open"
       => \E p \in Procs : /\ pc[p] = "trip"
                           /\ EnoughRequests(requests[win[p]])
                           /\ RateReached(failures[win[p]], MinRequests)]_vars

\* Rotation is decided on a stale stamp and a stale pointer, and races with the
\* store of the closing section; the active window never gets older for it
\* (l.134-146, l.258).
WindowMovesForward == [][start'[window'] >= start[window]]_vars

----------------------------------------------------------------------------
(* Liveness, under FairSpec.                                                *)

\* Every call returns, whoever holds cb.mu or swaps the window meanwhile,
\* provided the handlers return.
CallsReturn == \A p \in Procs : pc[p] # "idle" ~> pc[p] = "idle"

\* The circuit its users see is that of BreakerMachine: it opens from Closed
\* only, stays open for OpenTimeout, and a half-open one is always decided
\* (opened is lastFailTime).
Machine == INSTANCE BreakerMachine WITH opened <- lastFailTime

MachineSpec == Machine!Spec

----------------------------------------------------------------------------
(* What the repository says and the code does not keep.                     *)

\* breaker/halfopen_test.go: only one probe may be in flight during half-open.
SingleProbe ==
  state = "halfOpen" => Cardinality({p \in Procs : pc[p] = "probe"}) <= 1
============================================================================
