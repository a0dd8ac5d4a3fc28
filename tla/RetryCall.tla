----------------------------- MODULE RetryCall -----------------------------
(***************************************************************************)
(* HTTP requests in the layers that own a deadline and the bodies of        *)
(* responses: the retry loop (retry/retry.go with the predicates of         *)
(* rhttp/retry.go), enclosed by the timeout layer (rhttp/timeout.go around  *)
(* timeout/timeout.go).  The requests share one Budget, whose AllowRetry is *)
(* one action here; RetryBudget takes it apart.                             *)
(*                                                                          *)
(* A response is named by the attempt that got it; 0 is the nil response.   *)
(***************************************************************************)
EXTENDS Integers, FiniteSets

CONSTANTS Requests,
          MaxAttempts,   \* policy.MaxAttempts
          TryTimeout,    \* policy.TryDeadline, 0 for none
          Timeout,       \* duration of the timeout middleware
          Ratio,         \* Budget.ratio, in thousandths
          Credit,        \* bound on the successes of earlier requests
          Second,        \* the unit of LinearBackoff, in ticks of the clock
          Retried,       \* what policy.ShouldRetry accepts
          MaxTime        \* bound on the clock

\* What an attempt returns.
Statuses == {"ok",          \* a response below 400
             "transient",   \* 408, 425, 500, 502, 503, 504
             "limited",     \* 429
             "final",       \* any other response
             "error"}       \* no response

(* The predicates that come with the library, as the sets they accept.      *)
OnErrorRetry == {"error"}
ShouldRetryDefault == {"transient", "error"}
ShouldRetryWithRateLimit == ShouldRetryDefault \cup {"limited"}

ASSUME RequestsAssumption == IsFiniteSet(Requests)
ASSUME PolicyAssumption == /\ MaxAttempts \in Nat \ {0}
                           /\ Retried \subseteq Statuses \ {"ok"}
ASSUME TimeAssumption == {TryTimeout, Timeout, Second, MaxTime} \subseteq Nat
ASSUME BudgetAssumption == Ratio \in 1..1000 /\ Credit \in Nat

VARIABLES clock,
          success, retries,   \* the Budget
          repeated,           \* attempts made that were not the first (history)
          pc,                 \* while it is judged, what an attempt returned
          deadline,           \* req.RequestDeadline
          attempt,            \* number of the attempt, from 1
          now,                \* the loop's cached time
          tryDeadline,
          wake,               \* when the backoff ends
          held,               \* the response at hand
          err,                \* the error at hand
          body                \* the body of each response

budget == <<success, retries>>
times  == <<deadline, attempt, now, tryDeadline, wake>>
vars   == <<clock, budget, repeated, pc, times, held, err, body>>

TypeOK ==
  /\ clock \in 0..MaxTime
  /\ success \in Nat /\ retries \in Nat /\ repeated \in Nat
  /\ pc \in [Requests -> Statuses \cup {"idle", "stamped", "executing", "asleep",
                                        "guard", "deliver", "done"}]
  /\ deadline \in [Requests -> 0..MaxTime]
  /\ attempt \in [Requests -> 0..MaxAttempts]
  /\ now \in [Requests -> 0..MaxTime]
  /\ tryDeadline \in [Requests -> Nat]
  /\ wake \in [Requests -> Nat]
  /\ held \in [Requests -> 0..MaxAttempts]
  /\ err \in [Requests -> {"none", "network", "retry", "timeout"}]
  /\ body \in [Requests -> [1..MaxAttempts -> {"none", "open", "closed"}]]

Init ==
  /\ clock = 0
  /\ success \in 0..Credit /\ retries = 0 /\ repeated = 0
  /\ pc = [r \in Requests |-> "idle"]
  /\ deadline = [r \in Requests |-> 0]
  /\ attempt = [r \in Requests |-> 0]
  /\ now = [r \in Requests |-> 0]
  /\ tryDeadline = [r \in Requests |-> 0]
  /\ wake = [r \in Requests |-> 0]
  /\ held = [r \in Requests |-> 0]
  /\ err = [r \in Requests |-> "none"]
  /\ body = [r \in Requests |-> [i \in 1..MaxAttempts |-> "none"]]

----------------------------------------------------------------------------
Goto(r, l) == pc' = [pc EXCEPT ![r] = l]

\* What the layer below returns: a response and an error.
Pass(r, h, e) == held' = [held EXCEPT ![r] = h] /\ err' = [err EXCEPT ![r] = e]

\* Mutant: drops the response.
Drop(r) == UNCHANGED body

\* DiscardAttempt: closes the body of the response at hand.
Discard(r) == IF held[r] = 0
                THEN UNCHANGED body
                ELSE body' = [body EXCEPT ![r][held[r]] = "closed"]

\* An attempt begins at time t of the loop.
Begin(r, t) ==
  /\ attempt' = [attempt EXCEPT ![r] = @ + 1]
  /\ now' = [now EXCEPT ![r] = t]
  /\ tryDeadline' = [tryDeadline EXCEPT ![r] = t + TryTimeout]
  /\ Goto(r, "executing")

\* Client.Do stamps the request.
Do(r) ==
  /\ pc[r] = "idle"
  /\ clock + Timeout <= MaxTime
  /\ now' = [now EXCEPT ![r] = clock]
  /\ Goto(r, "stamped")
  /\ UNCHANGED <<clock, budget, repeated, deadline, attempt, tryDeadline, wake,
                 held, err, body>>

\* When the outer layers let the request through, the timeout layer sets its
\* deadline and the loop begins the first attempt, both by the stamp.
Arrive(r) ==
  /\ pc[r] = "stamped"
  /\ deadline' = [deadline EXCEPT ![r] = now[r] + Timeout]
  /\ Begin(r, now[r])
  /\ UNCHANGED <<clock, budget, repeated, wake, held, err, body>>

\* The handler returns, and the loop reads the clock.
Returns(r, s) ==
  /\ pc[r] = "executing"
  /\ now' = [now EXCEPT ![r] = clock]
  /\ IF s = "error"
       THEN Pass(r, 0, "network") /\ UNCHANGED body
       ELSE /\ Pass(r, attempt[r], "none")
            /\ body' = [body EXCEPT ![r][attempt[r]] = "open"]
  /\ Goto(r, s)
  /\ UNCHANGED <<clock, budget, repeated, deadline, attempt, tryDeadline, wake>>

----------------------------------------------------------------------------
(* The loop judges the attempt.                                             *)

\* Mutant: no per-try timeout.
NeverLate(r) == FALSE

Late(r) == TryTimeout > 0 /\ now[r] > tryDeadline[r]

Judging(r) == pc[r] \in Statuses

InTime(r, answers) == pc[r] \in answers /\ ~Late(r)

TryExpired(r) ==
  /\ Judging(r) /\ Late(r)
  /\ Discard(r)
  /\ Pass(r, 0, "timeout")
  /\ Goto(r, "guard")
  /\ UNCHANGED <<clock, budget, repeated, times>>

Succeed(r) ==
  /\ InTime(r, {"ok"})
  /\ success' = success + 1
  /\ Goto(r, "guard")
  /\ UNCHANGED <<clock, retries, repeated, times, held, err, body>>

\* Not worth a retry: what the attempt returned is passed on.
Refuse(r) ==
  /\ InTime(r, Statuses \ ({"ok"} \cup Retried))
  /\ Goto(r, "guard")
  /\ UNCHANGED <<clock, budget, repeated, times, held, err, body>>

Allowed == (success * Ratio) \div 1000

\* Mutant: one retry too many.
OverdrawnLate == retries > Allowed

Overdrawn == retries >= Allowed

WantsRetry(r) == InTime(r, Retried)

\* AllowRetry refuses.
Deny(r) ==
  /\ WantsRetry(r) /\ Overdrawn
  /\ Discard(r)
  /\ Pass(r, 0, "retry")
  /\ Goto(r, "guard")
  /\ UNCHANGED <<clock, budget, repeated, times>>

\* LinearBackoff: the first wait is none.
Backoff(r) == (attempt[r] - 1) * Second

\* The wait ends at the deadline at the latest.
Delay(r) == LET remaining == deadline[r] - now[r] IN
            IF Backoff(r) > remaining THEN remaining ELSE Backoff(r)

\* AllowRetry grants; the loop waits, unless its deadline has been reached.
Grant(r) ==
  /\ WantsRetry(r) /\ ~Overdrawn
  /\ retries' = retries + 1
  /\ Discard(r)
  /\ IF now[r] >= deadline[r]
       THEN Pass(r, 0, "timeout") /\ Goto(r, "guard") /\ UNCHANGED wake
       ELSE /\ Pass(r, 0, err[r])
            /\ wake' = [wake EXCEPT ![r] = now[r] + Delay(r)]
            /\ Goto(r, "asleep")
  /\ UNCHANGED <<clock, success, repeated, deadline, attempt, now, tryDeadline>>

----------------------------------------------------------------------------
(* The loop wakes up.                                                       *)

\* Mutant: counts from the wrong end.
PastLast(r) == attempt[r] > MaxAttempts

LastAttempt(r) == attempt[r] = MaxAttempts

\* Mutant: misses the end of a wait that it does not meet to the tick.
AwakeOnTime(r) == pc[r] = "asleep" /\ clock = wake[r]

Awake(r) == pc[r] = "asleep" /\ clock >= wake[r]

\* The wait is over at the time read from the clock.
WakeUp(r) == wake' = [wake EXCEPT ![r] = 0]

\* All attempts were made: ErrRetry, joined with the last network error.
Exhaust(r) ==
  /\ Awake(r) /\ LastAttempt(r)
  /\ WakeUp(r)
  /\ now' = [now EXCEPT ![r] = clock]
  /\ Pass(r, 0, "retry")
  /\ Goto(r, "guard")
  /\ UNCHANGED <<clock, budget, repeated, deadline, attempt, tryDeadline, body>>

\* Mutant: no check before the next attempt.
NeverExpired(r) == FALSE

Expired(r) == clock > deadline[r]

\* The deadline passed during the wait.
WakeLate(r) ==
  /\ Awake(r) /\ ~LastAttempt(r) /\ Expired(r)
  /\ WakeUp(r)
  /\ now' = [now EXCEPT ![r] = clock]
  /\ Pass(r, 0, "timeout")
  /\ Goto(r, "guard")
  /\ UNCHANGED <<clock, budget, repeated, deadline, attempt, tryDeadline, body>>

Repeat(r) ==
  /\ Awake(r) /\ ~LastAttempt(r) /\ ~Expired(r)
  /\ WakeUp(r)
  /\ Begin(r, clock)
  /\ repeated' = repeated + 1
  /\ UNCHANGED <<clock, budget, deadline, held, err, body>>

----------------------------------------------------------------------------
(* The timeout layer.                                                       *)

Overdue(r) == clock > deadline[r]

\* The guard around the loop closes the body of a late response.
Guard(r) ==
  /\ pc[r] = "guard"
  /\ IF err[r] = "none" /\ held[r] # 0 /\ Overdue(r)
       THEN Discard(r) /\ Pass(r, 0, "timeout")
       ELSE UNCHANGED <<body, held, err>>
  /\ Goto(r, "deliver")
  /\ UNCHANGED <<clock, budget, repeated, times>>

\* timeout.ExecuteWithResult reads the clock again, and returns.
Deliver(r) ==
  /\ pc[r] = "deliver"
  /\ IF Overdue(r) THEN Pass(r, 0, "timeout") ELSE UNCHANGED <<held, err>>
  /\ Goto(r, "done")
  /\ UNCHANGED <<clock, budget, repeated, times, body>>

Tick ==
  /\ clock < MaxTime
  /\ clock' = clock + 1
  /\ UNCHANGED <<budget, repeated, pc, times, held, err, body>>

----------------------------------------------------------------------------
Judge(r) == TryExpired(r) \/ Succeed(r) \/ Refuse(r) \/ Deny(r) \/ Grant(r)

Step(r) == \/ Arrive(r)
           \/ \E s \in Statuses : Returns(r, s)
           \/ Judge(r)
           \/ Exhaust(r) \/ WakeLate(r) \/ Repeat(r)
           \/ Guard(r) \/ Deliver(r)

Next == (\E r \in Requests : Do(r) \/ Step(r)) \/ Tick

Spec == Init /\ [][Next]_vars

----------------------------------------------------------------------------
\* An answer is either a response whose body its caller can read, and then it
\* came within the deadline and within that of its attempt, or an error alone,
\* through all the exits of the three layers.
UsableAnswer ==
  \A r \in Requests : pc[r] = "done" =>
    IF err[r] = "none"
      THEN /\ held[r] # 0 /\ body[r][held[r]] = "open"
           /\ now[r] <= deadline[r]
           /\ TryTimeout = 0 \/ now[r] <= tryDeadline[r]
      ELSE held[r] = 0

\* No exit of the loop and no retry forgets a body: until the timeout layer
\* has judged, only the response at hand is open.
NoBodyForgotten ==
  \A r \in Requests, i \in 1..MaxAttempts :
    body[r][i] = "open" => held[r] = i \/ (pc[r] = "done" /\ err[r] = "timeout")

\* Requests that may have paid for a retry that they have not made.
Unspent == {r \in Requests : pc[r] \in {"asleep", "guard", "deliver", "done"}}

\* The requests that share a budget never repeat more attempts than their
\* successes have paid for, whoever waits, times out or gives up meanwhile; and
\* although a retry is paid for before it is known whether there is an attempt
\* and time left for it, no request wastes more than one of them, so that the
\* budget is not used up by retries nobody makes (no Decay here; RetryBudget has
\* it).
NoRetryStorm == /\ repeated <= Allowed
                /\ retries <= repeated + Cardinality(Unspent)

----------------------------------------------------------------------------
(* What the repository says and the code does not keep.                     *)

\* rhttp/timeout.go: a response that completes after the deadline must have its
\* body closed here, because the caller will never see, or close, this body.
NoBodyLeaks ==
  \A r \in Requests, i \in 1..MaxAttempts :
    pc[r] = "done" /\ body[r][i] = "open" => held[r] = i
============================================================================
