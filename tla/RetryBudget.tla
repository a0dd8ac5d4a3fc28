---------------------------- MODULE RetryBudget ----------------------------
(***************************************************************************)
(* retry/budget.go: the two counters that bound how many retries all the    *)
(* requests sharing a Budget may make.  Every action is one atomic access.  *)
(* Callers are goroutines that report successes and ask for retries;        *)
(* Decayers are goroutines that call Decay.  recorded and granted count     *)
(* what the two counters forget when they are halved (history only).        *)
(***************************************************************************)
EXTENDS Integers

CONSTANTS Callers, Decayers,
          Ratio,         \* Budget.ratio: thousandths, 1..1000
          MaxRecorded,   \* bound on the calls of RecordSuccess
          MaxDecays      \* bound on the calls of Decay

ASSUME RatioAssumption == Ratio \in 1..1000
ASSUME DisjointAssumption == Callers \cap Decayers = {}
ASSUME BoundsAssumption == MaxRecorded \in Nat /\ MaxDecays \in Nat

Procs == Callers \cup Decayers

VARIABLES success,    \* Budget.success
          retries,    \* Budget.retries
          recorded,   \* successes ever recorded
          granted,    \* retries ever granted
          decays,     \* calls of Decay so far
          pc,
          seen,       \* the value loaded for the next CompareAndSwap
          quota       \* AllowRetry: the success it has loaded

vars == <<success, retries, recorded, granted, decays, pc, seen, quota>>

Locations == {"idle", "loadSuccess", "loadRetries", "grant",
              "swapSuccess", "loadForDecay", "swapRetries"}

TypeOK == /\ success \in 0..MaxRecorded /\ retries \in 0..MaxRecorded
          /\ recorded \in 0..MaxRecorded /\ granted \in Nat
          /\ decays \in 0..MaxDecays
          /\ pc \in [Procs -> Locations]
          /\ seen \in [Procs -> Nat] /\ quota \in [Procs -> Nat]

Init == /\ success = 0 /\ retries = 0
        /\ recorded = 0 /\ granted = 0 /\ decays = 0
        /\ pc = [p \in Procs |-> "idle"]
        /\ seen = [p \in Procs |-> 0]
        /\ quota = [p \in Procs |-> 0]

Goto(p, l) == pc' = [pc EXCEPT ![p] = l]
See(p, n) == seen' = [seen EXCEPT ![p] = n]

\* Nothing loaded is kept across a call.
Return(p) == /\ Goto(p, "idle")
             /\ See(p, 0)
             /\ quota' = [quota EXCEPT ![p] = 0]

\* allowed = (success * ratio) / 1000
Allowed(n) == (n * Ratio) \div 1000

----------------------------------------------------------------------------
RecordSuccess(c) ==
  /\ pc[c] = "idle"
  /\ recorded < MaxRecorded
  /\ success' = success + 1
  /\ recorded' = recorded + 1
  /\ UNCHANGED <<retries, granted, decays, pc, seen, quota>>

\* AllowRetry: the first load of the loop.
LoadSuccess(c) ==
  /\ pc[c] \in {"idle", "loadSuccess"}
  /\ quota' = [quota EXCEPT ![c] = success]
  /\ Goto(c, "loadRetries")
  /\ UNCHANGED <<success, retries, recorded, granted, decays, seen>>

\* Mutant: one retry too many.
ExhaustedLate(r, s) == r > Allowed(s)

Exhausted(r, s) == r >= Allowed(s)

\* The second load; AllowRetry returns false when the budget is spent.
LoadRetries(c) ==
  /\ pc[c] = "loadRetries"
  /\ IF Exhausted(retries, quota[c])
       THEN Return(c)
       ELSE See(c, retries) /\ Goto(c, "grant") /\ UNCHANGED quota
  /\ UNCHANGED <<success, retries, recorded, granted, decays>>

\* Mutant: tries the swap again without loading again.
SpinOnSwap(c) == Goto(c, "grant") /\ UNCHANGED <<seen, quota>>

LoopAgain(c) == /\ Goto(c, "loadSuccess")
                /\ See(c, 0)
                /\ quota' = [quota EXCEPT ![c] = 0]

\* Mutant: adds without comparing.
Blind(p, n) == TRUE

\* The comparison of a CompareAndSwap on a counter that holds n.
Unchanged(p, n) == seen[p] = n

\* retries.CompareAndSwap(retries, retries+1): AllowRetry returns true, or
\* starts over.
Grant(c) ==
  /\ pc[c] = "grant"
  /\ IF Unchanged(c, retries)
       THEN /\ retries' = seen[c] + 1
            /\ granted' = granted + 1
            /\ Return(c)
       ELSE LoopAgain(c) /\ UNCHANGED <<retries, granted>>
  /\ UNCHANGED <<success, recorded, decays>>

----------------------------------------------------------------------------
\* Decay halves success, then retries, each with its own loop.
DecayLoadSuccess(d) ==
  /\ pc[d] = "idle"
  /\ decays < MaxDecays
  /\ decays' = decays + 1
  /\ See(d, success)
  /\ Goto(d, "swapSuccess")
  /\ UNCHANGED <<success, retries, recorded, granted, quota>>

\* A failed swap loads the counter again before it retries.
DecaySwapSuccess(d) ==
  /\ pc[d] = "swapSuccess"
  /\ IF Unchanged(d, success)
       THEN success' = seen[d] \div 2 /\ See(d, 0) /\ Goto(d, "loadForDecay")
       ELSE See(d, success) /\ UNCHANGED <<success, pc>>
  /\ UNCHANGED <<retries, recorded, granted, decays, quota>>

DecayLoadRetries(d) ==
  /\ pc[d] = "loadForDecay"
  /\ See(d, retries)
  /\ Goto(d, "swapRetries")
  /\ UNCHANGED <<success, retries, recorded, granted, decays, quota>>

DecaySwapRetries(d) ==
  /\ pc[d] = "swapRetries"
  /\ IF Unchanged(d, retries)
       THEN retries' = seen[d] \div 2 /\ Return(d)
       ELSE See(d, retries) /\ UNCHANGED <<retries, pc, quota>>
  /\ UNCHANGED <<success, recorded, granted, decays>>

----------------------------------------------------------------------------
AllowRetry(c) == LoadSuccess(c) \/ LoadRetries(c) \/ Grant(c)

Decay(d) == \/ DecaySwapSuccess(d) \/ DecayLoadRetries(d)
            \/ DecaySwapRetries(d)

Next == \/ \E c \in Callers : RecordSuccess(c) \/ AllowRetry(c)
        \/ \E d \in Decayers : DecayLoadSuccess(d) \/ Decay(d)

Spec == Init /\ [][Next]_vars

\* A goroutine inside AllowRetry or Decay is scheduled; nobody has to call.
Fairness ==
  /\ \A c \in Callers : WF_vars(pc[c] # "idle" /\ AllowRetry(c))
  /\ \A d \in Decayers : WF_vars(Decay(d))

FairSpec == Spec /\ Fairness

----------------------------------------------------------------------------
\* Concurrent callers cannot overshoot the budget (l.39-40): a retry is granted
\* only while the counters, as they are when the swap succeeds, leave room for
\* it.  It holds until the first Decay begins, although success is loaded
\* before retries and both before the swap.
GrantWithinBudget ==
  [][granted' > granted /\ decays = 0 => retries < Allowed(success)]_vars

\* What the counter of retries can reach, Decay included: the budget of all
\* the successes ever recorded.
RetriesBounded == retries <= Allowed(recorded)

\* No counter update is lost to a concurrent one: each counter moves by one or
\* is halved, from the value it has (l.63).
NoLostUpdate ==
  [][/\ success' \in {success, success + 1, success \div 2}
     /\ retries' \in {retries, retries + 1, retries \div 2}]_vars

\* A call of AllowRetry or Decay is not kept in its loop for ever: each failed
\* swap is somebody else's progress, which the budget bounds.
CallsReturn == \A p \in Procs : pc[p] # "idle" ~> pc[p] = "idle"

----------------------------------------------------------------------------
(* What the repository says and the code does not keep.                     *)

\* NewBudget: "A ratio of 0.1 allows 1 retry for every 10 successful requests",
\* and AllowRetry: "concurrent callers cannot overshoot the budget": all retries
\* ever granted, against all successes ever recorded.  An AllowRetry that loads
\* success before a Decay and retries after it grants more.
RetriesWithinRatio == granted * 1000 <= recorded * Ratio
============================================================================
