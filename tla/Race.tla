-------------------------------- MODULE Race --------------------------------
(***************************************************************************)
(* What hedge.go promises of a request as its caller sees it, and nothing of *)
(* the channel, the reference count and the pool it is built from: attempts *)
(* race, the first to report while the caller waits has won, and nothing    *)
(* that happens later, in this request or another one, changes the answer.  *)
(***************************************************************************)
EXTENDS Integers

CONSTANTS Requests, Outcomes, MaxAttempts, None

VARIABLES phase,   \* where each request is
          racer,   \* where each attempt is
          won      \* the first result of each request, or None

raceVars == <<phase, racer, won>>

Attempts == Requests \X (1..MaxAttempts)

Init ==
  /\ phase = [r \in Requests |-> "idle"]
  /\ racer = [a \in Attempts |-> "none"]
  /\ won = [r \in Requests |-> None]

Launch(a) == racer[a] = "none" /\ racer' = [racer EXCEPT ![a] = "running"]

\* The first attempt.
Ask(r) ==
  /\ phase[r] = "idle"
  /\ phase' = [phase EXCEPT ![r] = "waiting"]
  /\ Launch(<<r, 1>>)
  /\ UNCHANGED won

\* One more, while there is no answer.
Hedge(r) ==
  /\ phase[r] = "waiting"
  /\ \E i \in 2..MaxAttempts : Launch(<<r, i>>)
  /\ UNCHANGED <<phase, won>>

\* An attempt reports: its result is the first, or it is dropped.
Report(a, o) ==
  /\ racer[a] = "running"
  /\ racer' = [racer EXCEPT ![a] = "over"]
  /\ won' = IF phase[a[1]] = "waiting" /\ won[a[1]] = None
              THEN [won EXCEPT ![a[1]] = [of |-> a, what |-> o]]
              ELSE won
  /\ UNCHANGED phase

\* The caller gets the first result ...
Answer(r) ==
  /\ phase[r] = "waiting" /\ won[r] # None
  /\ phase' = [phase EXCEPT ![r] = "answered"]
  /\ UNCHANGED <<racer, won>>

\* ... or its context is done.
Abandon(r) ==
  /\ phase[r] = "waiting"
  /\ phase' = [phase EXCEPT ![r] = "abandoned"]
  /\ won' = [won EXCEPT ![r] = None]
  /\ UNCHANGED racer

Next == \/ \E r \in Requests : Ask(r) \/ Hedge(r) \/ Answer(r) \/ Abandon(r)
        \/ \E a \in Attempts, o \in Outcomes : Report(a, o)

Spec == Init /\ [][Next]_raceVars
=============================================================================
