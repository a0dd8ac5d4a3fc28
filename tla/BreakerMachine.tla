-------------------------- MODULE BreakerMachine --------------------------
(***************************************************************************)
(* What breaker.go promises of the circuit as its users see it, and nothing *)
(* of the atomics, the mutex and the windows it is built from: the three    *)
(* states, who may follow whom, and the cooldown.  An open circuit stays    *)
(* open for OpenTimeout after it opened; a half-open one is always decided. *)
(***************************************************************************)
EXTENDS Integers

CONSTANTS OpenTimeout,   \* cooldown before half-open probing is allowed
          MaxTime        \* bound on the clock

VARIABLES now, state, opened

machineVars == <<now, state, opened>>

\* A new breaker is closed; one in use may be found open.
Init == /\ now = 0
        /\ state \in {"closed", "open"}
        /\ opened = 0

\* A window of a closed circuit showed too many failures.
Open == /\ state = "closed"
        /\ state' = "open"
        /\ opened' = now
        /\ UNCHANGED now

\* The cooldown has passed and a request is let through as a probe.
HalfOpen == /\ state = "open"
            /\ now - opened >= OpenTimeout
            /\ state' = "halfOpen"
            /\ UNCHANGED <<now, opened>>

\* The probe failed: another cooldown.
Reopen == /\ state = "halfOpen"
          /\ state' = "open"
          /\ opened' = now
          /\ UNCHANGED now

\* The probe succeeded.
Close == /\ state = "halfOpen"
         /\ state' = "closed"
         /\ UNCHANGED <<now, opened>>

Tick == /\ now < MaxTime
        /\ now' = now + 1
        /\ UNCHANGED <<state, opened>>

Next == Open \/ HalfOpen \/ Reopen \/ Close \/ Tick

Safety == Init /\ [][Next]_machineVars

Spec == Safety /\ WF_machineVars(Reopen \/ Close)
============================================================================
