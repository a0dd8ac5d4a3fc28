------------------------------- MODULE Hedge -------------------------------
(***************************************************************************)
(* hedge/hedge.go, ExecuteWithResultCtx with hedging enabled (maxAttempts > *)
(* 1, delay > 0): a coordinator fires an attempt, then one more each time   *)
(* delay passes without a result, and returns the first result it receives  *)
(* while the attempts that lost are still running.  Coordinator and         *)
(* attempts meet in a hedgeState, a one-place channel and a reference count *)
(* taken from a pool; the last of them to leave puts it back, for a next    *)
(* request.                                                                 *)
(*                                                                          *)
(* A request r stands for one call; <<r, i>> is its i-th attempt.           *)
(***************************************************************************)
EXTENDS Integers, FiniteSets

CONSTANTS Requests, States, None,
          Outcomes,        \* what fn may return
          MaxAttempts      \* maxAttempts

ASSUME RequestsAssumption == IsFiniteSet(Requests)
ASSUME NoneAssumption == None \notin States \cup Outcomes
ASSUME AttemptsAssumption == MaxAttempts \in Nat /\ MaxAttempts >= 2

VARIABLES pc,         \* where each coordinator is
          held,       \* the hedgeState of the request
          fired,      \* attempts it has fired
          got,        \* finalRes, or None
          callerGone, \* the caller's ctx is done
          cancelled,  \* childCtx of the request is done
          attempt,    \* where each attempt is
          outcome,    \* what fn returned, until it is sent
          chan,       \* hedgeState.resCh
          active,     \* hedgeState.active
          pooled,     \* how often a hedgeState is in statePool
          fresh       \* hedgeStates that were never allocated

coordinator == <<pc, held, fired, got>>
contexts    == <<callerGone, cancelled>>
attempts    == <<attempt, outcome>>
pool        == <<pooled, fresh>>
vars        == <<coordinator, contexts, attempts, chan, active, pool>>

Attempts == Requests \X (1..MaxAttempts)
Results  == [of : Attempts, what : Outcomes]

TypeOK ==
  /\ pc \in [Requests -> {"idle", "waiting", "won", "gaveUp", "leaving",
                          "recycling", "returned"}]
  /\ held \in [Requests -> States \cup {None}]
  /\ fired \in [Requests -> 0..MaxAttempts]
  /\ got \in [Requests -> Results \cup {None}]
  /\ callerGone \in [Requests -> BOOLEAN]
  /\ cancelled \in [Requests -> BOOLEAN]
  /\ attempt \in [Attempts -> {"none", "running", "sending", "leaving",
                               "recycling", "gone"}]
  /\ outcome \in [Attempts -> Outcomes \cup {None}]
  /\ chan \in [States -> Results \cup {None}]
  /\ active \in [States -> Nat]
  /\ pooled \in [States -> {0, 1}]
  /\ fresh \subseteq States

Init ==
  /\ pc = [r \in Requests |-> "idle"]
  /\ held = [r \in Requests |-> None]
  /\ fired = [r \in Requests |-> 0]
  /\ got = [r \in Requests |-> None]
  /\ callerGone = [r \in Requests |-> FALSE]
  /\ cancelled = [r \in Requests |-> FALSE]
  /\ attempt = [a \in Attempts |-> "none"]
  /\ outcome = [a \in Attempts |-> None]
  /\ chan = [s \in States |-> None]
  /\ active = [s \in States |-> 0]
  /\ pooled = [s \in States |-> 0]
  /\ fresh = States

----------------------------------------------------------------------------
(* The hedgeState.                                                          *)

\* statePool.Get: one that was put back, or a new one (the pool is not one
\* list, so it may allocate although it is not empty; which of the fresh ones
\* makes no difference).
Take(s) == \/ /\ pooled[s] > 0
              /\ pooled' = [pooled EXCEPT ![s] = @ - 1]
              /\ UNCHANGED fresh
           \/ /\ fresh # {} /\ s = CHOOSE new \in fresh : TRUE
              /\ fresh' = fresh \ {s}
              /\ UNCHANGED pooled

\* Mutant: puts the state back with whatever its channel holds.
PutBackUndrained(s) == /\ pooled' = [pooled EXCEPT ![s] = @ + 1]
                       /\ UNCHANGED <<chan, fresh>>

\* recycleState
PutBack(s) == /\ chan' = [chan EXCEPT ![s] = None]
              /\ pooled' = [pooled EXCEPT ![s] = @ + 1]
              /\ UNCHANGED fresh

\* active.Add(-1) == 0
Last(s) == active[s] = 1

Leave(s) == active' = [active EXCEPT ![s] = @ - 1]

\* Mutant: fires an attempt without counting it.
Uncounted(s) == UNCHANGED active

\* active.Add(1)
Join(s) == active' = [active EXCEPT ![s] = @ + 1]

----------------------------------------------------------------------------
(* The coordinator.                                                         *)

Move(r, l) == pc' = [pc EXCEPT ![r] = l]

\* Takes a state, counts itself and the primary attempt, fires the primary.
Start(r) ==
  /\ pc[r] = "idle"
  /\ \E s \in States : /\ Take(s)
                       /\ held' = [held EXCEPT ![r] = s]
                       /\ active' = [active EXCEPT ![s] = 2]
  /\ fired' = [fired EXCEPT ![r] = 1]
  /\ attempt' = [attempt EXCEPT ![<<r, 1>>] = "running"]
  /\ Move(r, "waiting")
  /\ UNCHANGED <<got, contexts, outcome, chan>>

\* case finalRes = <-state.resCh, in the loop and after it.
Receive(r) ==
  LET s == held[r] IN
  /\ pc[r] = "waiting"
  /\ chan[s] # None
  /\ got' = [got EXCEPT ![r] = chan[s]]
  /\ chan' = [chan EXCEPT ![s] = None]
  /\ Move(r, "won")
  /\ UNCHANGED <<held, fired, contexts, attempts, active, pool>>

\* Mutant: counts the primary attempt out.
MayFireOneMore(r) == fired[r] <= MaxAttempts

\* for i := 1; i < maxAttempts; i++
MayFire(r) == fired[r] < MaxAttempts

\* case <-timer.C: one more attempt.
TimerFires(r) ==
  /\ pc[r] = "waiting"
  /\ MayFire(r)
  /\ fired' = [fired EXCEPT ![r] = @ + 1]
  /\ attempt' = [attempt EXCEPT ![<<r, fired[r] + 1>>] = "running"]
  /\ Join(held[r])
  /\ UNCHANGED <<pc, held, got, contexts, outcome, chan, pool>>

\* case <-ctx.Done(), in the loop and after it: cancel().
GiveUp(r) ==
  /\ pc[r] = "waiting"
  /\ callerGone[r]
  /\ cancelled' = [cancelled EXCEPT ![r] = TRUE]
  /\ Move(r, "gaveUp")
  /\ UNCHANGED <<held, fired, got, callerGone, attempts, chan, active, pool>>

\* Mutant: returns ctx.Err() without dropping the coordinator's reference.
DrainAndReturn(r) ==
  /\ pc[r] = "gaveUp"
  /\ chan' = [chan EXCEPT ![held[r]] = None]
  /\ Move(r, "returned")
  /\ UNCHANGED <<held, fired, got, contexts, attempts, active, pool>>

\* drainPending
Drain(r) ==
  /\ pc[r] = "gaveUp"
  /\ chan' = [chan EXCEPT ![held[r]] = None]
  /\ Move(r, "leaving")
  /\ UNCHANGED <<held, fired, got, contexts, attempts, active, pool>>

\* Winner known: cancel the losers.
CancelLosers(r) ==
  /\ pc[r] = "won"
  /\ cancelled' = [cancelled EXCEPT ![r] = TRUE]
  /\ Move(r, "leaving")
  /\ UNCHANGED <<held, fired, got, callerGone, attempts, chan, active, pool>>

\* Mutant: the coordinator waits for the losers.
AloneInState(r) == active[held[r]] = 1

\* The coordinator does not wait for anybody.
MayLeave(r) == TRUE

\* The coordinator drops its reference and returns, unless it is the last.
CoordinatorLeaves(r) ==
  /\ pc[r] = "leaving"
  /\ MayLeave(r)
  /\ Leave(held[r])
  /\ Move(r, IF Last(held[r]) THEN "recycling" ELSE "returned")
  /\ UNCHANGED <<held, fired, got, contexts, attempts, chan, pool>>

CoordinatorRecycles(r) ==
  /\ pc[r] = "recycling"
  /\ PutBack(held[r])
  /\ Move(r, "returned")
  /\ UNCHANGED <<held, fired, got, contexts, attempts, active>>

Coordinate(r) == \/ Receive(r) \/ TimerFires(r) \/ GiveUp(r) \/ Drain(r)
                 \/ CancelLosers(r) \/ CoordinatorLeaves(r)
                 \/ CoordinatorRecycles(r)

----------------------------------------------------------------------------
(* An attempt, hedgeAttemptCtx; it holds the pointer its coordinator took.  *)

StateOf(a) == held[a[1]]

Proceed(a, l) == attempt' = [attempt EXCEPT ![a] = l]

\* fn returns, whatever it makes of its context.
Finish(a, o) ==
  /\ attempt[a] = "running"
  /\ outcome' = [outcome EXCEPT ![a] = o]
  /\ Proceed(a, "sending")
  /\ UNCHANGED <<coordinator, contexts, chan, active, pool>>

\* Mutant: the newest result replaces the one that waits.
NeverFull(s) == FALSE

Full(s) == chan[s] # None

\* The send that gives up when the channel is full.
Send(a) ==
  LET s == StateOf(a) IN
  /\ attempt[a] = "sending"
  /\ IF Full(s)
       THEN UNCHANGED chan
       ELSE chan' = [chan EXCEPT ![s] = [of |-> a, what |-> outcome[a]]]
  /\ outcome' = [outcome EXCEPT ![a] = None]
  /\ Proceed(a, "leaving")
  /\ UNCHANGED <<coordinator, contexts, active, pool>>

AttemptLeaves(a) ==
  /\ attempt[a] = "leaving"
  /\ Leave(StateOf(a))
  /\ Proceed(a, IF Last(StateOf(a)) THEN "recycling" ELSE "gone")
  /\ UNCHANGED <<coordinator, contexts, outcome, chan, pool>>

AttemptRecycles(a) ==
  /\ attempt[a] = "recycling"
  /\ PutBack(StateOf(a))
  /\ Proceed(a, "gone")
  /\ UNCHANGED <<coordinator, contexts, outcome, active>>

Report(a) == Send(a) \/ AttemptLeaves(a) \/ AttemptRecycles(a)

----------------------------------------------------------------------------
\* A context that the requests R share is cancelled or runs out, and their child
\* contexts with it.  It matters to a coordinator only while it waits.
CallerLeaves(R) ==
  /\ \E r \in R : pc[r] = "waiting"
  /\ \A r \in R : ~callerGone[r]
  /\ callerGone' = [r \in Requests |-> callerGone[r] \/ r \in R]
  /\ cancelled' = [r \in Requests |-> cancelled[r] \/ r \in R]
  /\ UNCHANGED <<coordinator, attempts, chan, active, pool>>

Next == \/ \E r \in Requests : Start(r) \/ Coordinate(r) \/ CallerLeaves({r})
        \/ \E a \in Attempts : Report(a) \/ \E o \in Outcomes : Finish(a, o)

Spec == Init /\ [][Next]_vars

\* Goroutines are scheduled and timers fire.
Scheduled == /\ \A r \in Requests : WF_vars(Coordinate(r))
             /\ \A a \in Attempts : WF_vars(Report(a))

\* fn returns in the end, sooner if it respects its context.
Finishes(a) == WF_vars(\E o \in Outcomes : Finish(a, o))

\* Of the attempts of a request the last one returns; the others may hang.
HangSpec ==
  Spec /\ Scheduled /\ \A r \in Requests : Finishes(<<r, MaxAttempts>>)

----------------------------------------------------------------------------
(* Safety.                                                                  *)

\* Goroutines that still count in a hedgeState; <<r, 0>> is the coordinator of r.
Goroutines == Requests \X (0..MaxAttempts)

Counts(g) == IF g[2] = 0
               THEN pc[g[1]] \in {"waiting", "won", "gaveUp", "leaving"}
               ELSE attempt[g] \in {"running", "sending", "leaving"}

Users(s) == {g \in Goroutines : StateOf(g) = s /\ Counts(g)}

\* A request never returns a result of another request, although its state has
\* been through the pool and losers report into it after the winner left.
OwnResult == \A r \in Requests : got[r] # None => got[r].of[1] = r

\* A state in the pool is in it once, nobody uses it and its channel is empty,
\* so that the next request starts clean (l.174-177, l.231-238).
PooledClean ==
  \A s \in States : pooled[s] > 0 => /\ pooled[s] = 1
                                     /\ Users(s) = {}
                                     /\ chan[s] = None

\* The reference count is the number of goroutines that may still touch the
\* state: exactly one of them will see it drop to zero.
CountsUsers == \A s \in States : active[s] = Cardinality(Users(s))

\* Who has seen the reference count drop to zero and is about to put s back.
Recycles(g) == IF g[2] = 0 THEN pc[g[1]] = "recycling"
                           ELSE attempt[g] = "recycling"

Recyclers(s) == {g \in Goroutines : StateOf(g) = s /\ Recycles(g)}

\* No state leaks: once nobody uses it any more it is in the pool, or one
\* goroutine is about to put it there, whichever way the request ended.
NothingLeaks ==
  \A s \in States \ fresh :
    Users(s) # {} \/ pooled[s] + Cardinality(Recyclers(s)) = 1

\* The first result wins, a failure too (l.96): while its coordinator waits it
\* stays in the channel or is received; no later result replaces it, be it a
\* success, and no straggler of an earlier request sweeps it away.
FirstResultWins ==
  [][\A r \in Requests :
       pc[r] = "waiting" /\ chan[held[r]] # None =>
         chan[held[r]] \in {chan'[held[r]], got'[r]}]_vars

----------------------------------------------------------------------------
(* Liveness.                                                                *)

\* Under HangSpec: hedging does its job, a request is answered although every
\* attempt but the last hangs, and waits for no loser (l.169-171).
AnsweredDespiteHangs ==
  \A r \in Requests : pc[r] = "waiting" ~> pc[r] = "returned"

----------------------------------------------------------------------------
(* Hedge implements Race.                                                   *)

\* What the caller of r sees of its coordinator.
PhaseOf(r) == IF pc[r] \in {"idle", "waiting"} THEN pc[r]
              ELSE IF got[r] = None THEN "abandoned" ELSE "answered"

\* An attempt races until it has sent or dropped its result.
RacerOf(a) == IF attempt[a] = "none" THEN "none"
              ELSE IF attempt[a] \in {"running", "sending"} THEN "running"
              ELSE "over"

\* The first result is in the channel until it is received.
WonBy(r) == IF pc[r] = "waiting" THEN chan[held[r]] ELSE got[r]

Abstract == INSTANCE Race WITH phase <- [r \in Requests |-> PhaseOf(r)],
                               racer <- [a \in Attempts |-> RacerOf(a)],
                               won   <- [r \in Requests |-> WonBy(r)]

\* Every behaviour of the hedge is one of Race, as if each request had a channel
\* of its own.
RaceSpec == Abstract!Spec
============================================================================
