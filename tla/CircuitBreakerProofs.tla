------------------------ MODULE CircuitBreakerProofs ------------------------
(***************************************************************************)
(* Theorems about CircuitBreaker for any number of goroutines, any heap and *)
(* any options, proved from one inductive invariant.                        *)
(***************************************************************************)
EXTENDS CircuitBreaker, FiniteSetTheorems, TLAPS

\* Program points at which a goroutine uses the window it points to.
Holding == {"swap", "count", "execute", "loadTotal", "loadFail", "trip"}

\* cb.mu is held from one action to the next by the closing goroutine alone.
LockInv == \A p \in Procs : mu = p <=> pc[p] = "storeWindow"

\* A goroutine that uses a window has a pointer to one, which keeps the cell
\* from being allocated again.
PointerInv == \A p \in Procs : pc[p] \in Holding => win[p] \in Windows

\* Nothing carries a time that is still to come, and a rotation was decided
\* on a stamp no older than the window it found.
TimeInv == /\ lastFailTime <= now
           /\ \A w \in Windows : start[w] <= now
           /\ \A p \in Procs : stamp[p] <= now
           /\ \A p \in Procs : pc[p] = "swap" => stamp[p] >= start[win[p]]

\* What the loads of LoadTotal and LoadFail saw is still true of the window:
\* its counters only grow while somebody points to it.
JudgeInv ==
  \A p \in Procs :
    /\ pc[p] \in {"loadFail", "trip"} => total[p] <= requests[win[p]]
    /\ pc[p] = "trip" => Exceeded(p)

IInv == /\ TypeOK
        /\ InFlightIffHalfOpen
        /\ HalfOpenHasProbe
        /\ LockInv
        /\ PointerInv
        /\ TimeInv
        /\ JudgeInv
        /\ FailuresHaveRequests

----------------------------------------------------------------------------
USE NoneAssumption, OptionsAssumption, BoundsAssumption

LEMMA ProductMonotone ==
  ASSUME NEW a \in Nat, NEW m \in Nat, NEW n \in Nat, m <= n
  PROVE  a * m <= a * n
<1>1. a * n = a * m + a * (n - m)
  OBVIOUS
<1>2. a * (n - m) >= 0
  OBVIOUS
<1> QED BY <1>1, <1>2

\* The initial states satisfy the inductive invariant.
LEMMA InitIInv == Init => IInv
<1> SUFFICES ASSUME Init PROVE IInv
  OBVIOUS
<1>1. TypeOK
  <2>1. /\ 0 \in 0..MaxTime /\ 0 \in 0..MaxCalls
        /\ "idle" \in Locations
    BY DEF Locations
  <2> QED BY <2>1, Zenon DEF Init, TypeOK
<1>2. InFlightIffHalfOpen /\ HalfOpenHasProbe
  BY DEF Init, InFlightIffHalfOpen, HalfOpenHasProbe
<1>3. LockInv /\ PointerInv
  BY DEF Init, LockInv, PointerInv, Holding
<1>4. TimeInv /\ JudgeInv
  BY DEF Init, TimeInv, JudgeInv
<1>5. FailuresHaveRequests
  <2>1. \A w \in Windows : Pending(w) = {}
    BY DEF Init, Pending
  <2> QED BY <2>1, FS_EmptySet DEF Init, FailuresHaveRequests
<1> QED BY <1>1, <1>2, <1>3, <1>4, <1>5 DEF IInv

\* Types; a counter is read through a pointer that exists (PointerInv).
LEMMA TypeStep ==
  ASSUME IInv, NEW p \in Procs, Enter(p) \/ Step(p)
  PROVE  TypeOK'
<1> USE DEF IInv, Goto, Return, circuit, heap, locals
<1>1. CASE Enter(p)
  BY <1>1 DEF TypeOK, PointerInv, Holding, Locations, Enter
<1>2. CASE \E t \in 0..now : LoadWindow(p, t)
  BY <1>2 DEF TypeOK, PointerInv, Holding, Locations, LoadWindow, Expired
<1>3. CASE SwapWindow(p)
  BY <1>3 DEF TypeOK, PointerInv, Holding, Locations, SwapWindow, Unswapped,
              Publish, Free
<1>4. CASE CurrentWindow(p)
  BY <1>4 DEF TypeOK, PointerInv, Holding, Locations, CurrentWindow
<1>5. CASE CountRequest(p)
  BY <1>5 DEF TypeOK, PointerInv, Holding, Locations, CountRequest
<1>6. CASE \E err \in BOOLEAN : Execute(p, err)
  BY <1>6 DEF TypeOK, PointerInv, Holding, Locations, Execute, CountFailure
<1>7. CASE LoadTotal(p)
  BY <1>7 DEF TypeOK, PointerInv, Holding, Locations, LoadTotal
<1>8. CASE LoadFail(p)
  BY <1>8 DEF TypeOK, PointerInv, Holding, Locations, LoadFail, Exceeded
<1>9. CASE Trip(p)
  BY <1>9 DEF TypeOK, PointerInv, Holding, Locations, Trip, StillClosed, Open
<1>10. CASE Reject(p)
  BY <1>10 DEF TypeOK, PointerInv, Holding, Locations, Reject, MayProbe
<1>11. CASE AdmitProbe(p)
  BY <1>11 DEF TypeOK, PointerInv, Holding, Locations, AdmitProbe, MayProbe
<1>12. CASE AdmitBystander(p)
  BY <1>12 DEF TypeOK, PointerInv, Holding, Locations, AdmitBystander
<1>13. CASE SettleLate(p)
  BY <1>13 DEF TypeOK, PointerInv, Holding, Locations, SettleLate,
               AfterHandler
<1>14. CASE SettleFailure(p)
  BY <1>14 DEF TypeOK, PointerInv, Holding, Locations, SettleFailure,
               AfterHandler, Reopen, Open
<1>15. CASE SettleSuccess(p)
  BY <1>15 DEF TypeOK, PointerInv, Holding, Locations, SettleSuccess,
               AfterHandler
<1>16. CASE StoreWindow(p)
  BY <1>16 DEF TypeOK, PointerInv, Holding, Locations, StoreWindow, Unlock,
               Publish, Free
<1> QED
  BY <1>1, <1>2, <1>3, <1>4, <1>5, <1>6, <1>7, <1>8, <1>9, <1>10, <1>11,
     <1>12, <1>13, <1>14, <1>15, <1>16
  DEF Step, Admit, Settle

\* The flag goes up with HalfOpen and down with its end.
LEMMA FlagStep ==
  ASSUME IInv, NEW p \in Procs, Enter(p) \/ Step(p)
  PROVE  InFlightIffHalfOpen'
<1> USE DEF IInv, Goto, Return, circuit, heap, locals
<1>1. CASE Enter(p)
  BY <1>1 DEF TypeOK, InFlightIffHalfOpen, Enter
<1>2. CASE \E t \in 0..now : LoadWindow(p, t)
  BY <1>2 DEF TypeOK, InFlightIffHalfOpen, LoadWindow, Expired
<1>3. CASE SwapWindow(p)
  BY <1>3 DEF TypeOK, InFlightIffHalfOpen, SwapWindow, Unswapped, Publish,
              Free
<1>4. CASE CurrentWindow(p)
  BY <1>4 DEF TypeOK, InFlightIffHalfOpen, CurrentWindow
<1>5. CASE CountRequest(p)
  BY <1>5 DEF TypeOK, InFlightIffHalfOpen, CountRequest
<1>6. CASE \E err \in BOOLEAN : Execute(p, err)
  BY <1>6 DEF TypeOK, InFlightIffHalfOpen, Execute, CountFailure
<1>7. CASE LoadTotal(p)
  BY <1>7 DEF TypeOK, InFlightIffHalfOpen, LoadTotal
<1>8. CASE LoadFail(p)
  BY <1>8 DEF TypeOK, InFlightIffHalfOpen, LoadFail, Exceeded
<1>9. CASE Trip(p)
  BY <1>9 DEF TypeOK, InFlightIffHalfOpen, Trip, StillClosed, Open
<1>10. CASE Reject(p)
  BY <1>10 DEF TypeOK, InFlightIffHalfOpen, Reject, MayProbe
<1>11. CASE AdmitProbe(p)
  BY <1>11 DEF TypeOK, InFlightIffHalfOpen, AdmitProbe, MayProbe
<1>12. CASE AdmitBystander(p)
  BY <1>12 DEF TypeOK, InFlightIffHalfOpen, AdmitBystander
<1>13. CASE SettleLate(p)
  BY <1>13 DEF TypeOK, InFlightIffHalfOpen, SettleLate, AfterHandler
<1>14. CASE SettleFailure(p)
  BY <1>14 DEF TypeOK, InFlightIffHalfOpen, SettleFailure, AfterHandler,
               Reopen, Open
<1>15. CASE SettleSuccess(p)
  BY <1>15 DEF TypeOK, InFlightIffHalfOpen, SettleSuccess, AfterHandler
<1>16. CASE StoreWindow(p)
  BY <1>16 DEF TypeOK, InFlightIffHalfOpen, StoreWindow, Unlock, Publish, Free
<1> QED
  BY <1>1, <1>2, <1>3, <1>4, <1>5, <1>6, <1>7, <1>8, <1>9, <1>10, <1>11,
     <1>12, <1>13, <1>14, <1>15, <1>16
  DEF Step, Admit, Settle

\* A goroutine leaves "probe" only by a Settle, which finds the circuit
\* settled already or settles it.
LEMMA ProbeStep ==
  ASSUME IInv, NEW p \in Procs, Enter(p) \/ Step(p)
  PROVE  HalfOpenHasProbe'
<1> USE DEF IInv, Goto, Return, circuit, heap, locals
<1>1. CASE Enter(p)
  BY <1>1 DEF TypeOK, InFlightIffHalfOpen, HalfOpenHasProbe, Enter
<1>2. CASE \E t \in 0..now : LoadWindow(p, t)
  BY <1>2 DEF TypeOK, InFlightIffHalfOpen, HalfOpenHasProbe, LoadWindow,
              Expired
<1>3. CASE SwapWindow(p)
  BY <1>3 DEF TypeOK, InFlightIffHalfOpen, HalfOpenHasProbe, SwapWindow,
              Unswapped, Publish, Free
<1>4. CASE CurrentWindow(p)
  BY <1>4 DEF TypeOK, InFlightIffHalfOpen, HalfOpenHasProbe, CurrentWindow
<1>5. CASE CountRequest(p)
  BY <1>5 DEF TypeOK, InFlightIffHalfOpen, HalfOpenHasProbe, CountRequest
<1>6. CASE \E err \in BOOLEAN : Execute(p, err)
  BY <1>6 DEF TypeOK, InFlightIffHalfOpen, HalfOpenHasProbe, Execute,
              CountFailure
<1>7. CASE LoadTotal(p)
  BY <1>7 DEF TypeOK, InFlightIffHalfOpen, HalfOpenHasProbe, LoadTotal
<1>8. CASE LoadFail(p)
  BY <1>8 DEF TypeOK, InFlightIffHalfOpen, HalfOpenHasProbe, LoadFail,
              Exceeded
<1>9. CASE Trip(p)
  BY <1>9 DEF TypeOK, InFlightIffHalfOpen, HalfOpenHasProbe, Trip,
              StillClosed, Open
<1>10. CASE Reject(p)
  BY <1>10 DEF TypeOK, InFlightIffHalfOpen, HalfOpenHasProbe, Reject, MayProbe
<1>11. CASE AdmitProbe(p)
  BY <1>11 DEF TypeOK, InFlightIffHalfOpen, HalfOpenHasProbe, AdmitProbe,
               MayProbe
<1>12. CASE AdmitBystander(p)
  BY <1>12 DEF TypeOK, InFlightIffHalfOpen, HalfOpenHasProbe, AdmitBystander
<1>13. CASE SettleLate(p)
  BY <1>13 DEF TypeOK, InFlightIffHalfOpen, HalfOpenHasProbe, SettleLate,
               AfterHandler
<1>14. CASE SettleFailure(p)
  BY <1>14 DEF TypeOK, InFlightIffHalfOpen, HalfOpenHasProbe, SettleFailure,
               AfterHandler, Reopen, Open
<1>15. CASE SettleSuccess(p)
  BY <1>15 DEF TypeOK, InFlightIffHalfOpen, HalfOpenHasProbe, SettleSuccess,
               AfterHandler
<1>16. CASE StoreWindow(p)
  BY <1>16 DEF TypeOK, InFlightIffHalfOpen, HalfOpenHasProbe, StoreWindow,
               Unlock, Publish, Free
<1> QED
  BY <1>1, <1>2, <1>3, <1>4, <1>5, <1>6, <1>7, <1>8, <1>9, <1>10, <1>11,
     <1>12, <1>13, <1>14, <1>15, <1>16
  DEF Step, Admit, Settle

\* cb.mu between actions.
LEMMA LockStep ==
  ASSUME IInv, NEW p \in Procs, Enter(p) \/ Step(p)
  PROVE  LockInv'
<1> USE DEF IInv, Goto, Return, circuit, heap, locals
<1>1. CASE Enter(p)
  BY <1>1 DEF TypeOK, LockInv, Enter
<1>2. CASE \E t \in 0..now : LoadWindow(p, t)
  BY <1>2 DEF TypeOK, LockInv, LoadWindow, Expired
<1>3. CASE SwapWindow(p)
  BY <1>3 DEF TypeOK, LockInv, SwapWindow, Unswapped, Publish, Free
<1>4. CASE CurrentWindow(p)
  BY <1>4 DEF TypeOK, LockInv, CurrentWindow
<1>5. CASE CountRequest(p)
  BY <1>5 DEF TypeOK, LockInv, CountRequest
<1>6. CASE \E err \in BOOLEAN : Execute(p, err)
  BY <1>6 DEF TypeOK, LockInv, Execute, CountFailure
<1>7. CASE LoadTotal(p)
  BY <1>7 DEF TypeOK, LockInv, LoadTotal
<1>8. CASE LoadFail(p)
  BY <1>8 DEF TypeOK, LockInv, LoadFail, Exceeded
<1>9. CASE Trip(p)
  BY <1>9 DEF TypeOK, LockInv, Trip, StillClosed, Open
<1>10. CASE Reject(p)
  BY <1>10 DEF TypeOK, LockInv, Reject, MayProbe
<1>11. CASE AdmitProbe(p)
  BY <1>11 DEF TypeOK, LockInv, AdmitProbe, MayProbe
<1>12. CASE AdmitBystander(p)
  BY <1>12 DEF TypeOK, LockInv, AdmitBystander
<1>13. CASE SettleLate(p)
  BY <1>13 DEF TypeOK, LockInv, SettleLate, AfterHandler
<1>14. CASE SettleFailure(p)
  BY <1>14 DEF TypeOK, LockInv, SettleFailure, AfterHandler, Reopen, Open
<1>15. CASE SettleSuccess(p)
  BY <1>15 DEF TypeOK, LockInv, SettleSuccess, AfterHandler
<1>16. CASE StoreWindow(p)
  BY <1>16 DEF TypeOK, LockInv, StoreWindow, Unlock, Publish, Free
<1> QED
  BY <1>1, <1>2, <1>3, <1>4, <1>5, <1>6, <1>7, <1>8, <1>9, <1>10, <1>11,
     <1>12, <1>13, <1>14, <1>15, <1>16
  DEF Step, Admit, Settle

\* Pointers.
LEMMA PointerStep ==
  ASSUME IInv, NEW p \in Procs, Enter(p) \/ Step(p)
  PROVE  PointerInv'
<1> USE DEF IInv, Goto, Return, circuit, heap, locals
<1>1. CASE Enter(p)
  BY <1>1 DEF TypeOK, PointerInv, Holding, Enter
<1>2. CASE \E t \in 0..now : LoadWindow(p, t)
  BY <1>2 DEF TypeOK, PointerInv, Holding, LoadWindow, Expired
<1>3. CASE SwapWindow(p)
  BY <1>3 DEF TypeOK, PointerInv, Holding, SwapWindow, Unswapped, Publish,
              Free
<1>4. CASE CurrentWindow(p)
  BY <1>4 DEF TypeOK, PointerInv, Holding, CurrentWindow
<1>5. CASE CountRequest(p)
  BY <1>5 DEF TypeOK, PointerInv, Holding, CountRequest
<1>6. CASE \E err \in BOOLEAN : Execute(p, err)
  BY <1>6 DEF TypeOK, PointerInv, Holding, Execute, CountFailure
<1>7. CASE LoadTotal(p)
  BY <1>7 DEF TypeOK, PointerInv, Holding, LoadTotal
<1>8. CASE LoadFail(p)
  BY <1>8 DEF TypeOK, PointerInv, Holding, LoadFail, Exceeded
<1>9. CASE Trip(p)
  BY <1>9 DEF TypeOK, PointerInv, Holding, Trip, StillClosed, Open
<1>10. CASE Reject(p)
  BY <1>10 DEF TypeOK, PointerInv, Holding, Reject, MayProbe
<1>11. CASE AdmitProbe(p)
  BY <1>11 DEF TypeOK, PointerInv, Holding, AdmitProbe, MayProbe
<1>12. CASE AdmitBystander(p)
  BY <1>12 DEF TypeOK, PointerInv, Holding, AdmitBystander
<1>13. CASE SettleLate(p)
  BY <1>13 DEF TypeOK, PointerInv, Holding, SettleLate, AfterHandler
<1>14. CASE SettleFailure(p)
  BY <1>14 DEF TypeOK, PointerInv, Holding, SettleFailure, AfterHandler,
               Reopen, Open
<1>15. CASE SettleSuccess(p)
  BY <1>15 DEF TypeOK, PointerInv, Holding, SettleSuccess, AfterHandler
<1>16. CASE StoreWindow(p)
  BY <1>16 DEF TypeOK, PointerInv, Holding, StoreWindow, Unlock, Publish, Free
<1> QED
  BY <1>1, <1>2, <1>3, <1>4, <1>5, <1>6, <1>7, <1>8, <1>9, <1>10, <1>11,
     <1>12, <1>13, <1>14, <1>15, <1>16
  DEF Step, Admit, Settle

\* Times; the cell a swap compares with cannot have been allocated again.
LEMMA TimeStep ==
  ASSUME IInv, NEW p \in Procs, Enter(p) \/ Step(p)
  PROVE  TimeInv'
<1> USE DEF IInv, Goto, Return, circuit, heap, locals
<1>1. CASE Enter(p)
  BY <1>1 DEF TypeOK, PointerInv, Holding, TimeInv, Enter
<1>2. CASE \E t \in 0..now : LoadWindow(p, t)
  BY <1>2 DEF TypeOK, PointerInv, Holding, TimeInv, LoadWindow, Expired
<1>3. CASE SwapWindow(p)
  BY <1>3 DEF TypeOK, PointerInv, Holding, TimeInv, SwapWindow, Unswapped,
              Publish, Free
<1>4. CASE CurrentWindow(p)
  BY <1>4 DEF TypeOK, PointerInv, Holding, TimeInv, CurrentWindow
<1>5. CASE CountRequest(p)
  BY <1>5 DEF TypeOK, PointerInv, Holding, TimeInv, CountRequest
<1>6. CASE \E err \in BOOLEAN : Execute(p, err)
  BY <1>6 DEF TypeOK, PointerInv, Holding, TimeInv, Execute, CountFailure
<1>7. CASE LoadTotal(p)
  BY <1>7 DEF TypeOK, PointerInv, Holding, TimeInv, LoadTotal
<1>8. CASE LoadFail(p)
  BY <1>8 DEF TypeOK, PointerInv, Holding, TimeInv, LoadFail, Exceeded
<1>9. CASE Trip(p)
  BY <1>9 DEF TypeOK, PointerInv, Holding, TimeInv, Trip, StillClosed, Open
<1>10. CASE Reject(p)
  BY <1>10 DEF TypeOK, PointerInv, Holding, TimeInv, Reject, MayProbe
<1>11. CASE AdmitProbe(p)
  BY <1>11 DEF TypeOK, PointerInv, Holding, TimeInv, AdmitProbe, MayProbe
<1>12. CASE AdmitBystander(p)
  BY <1>12 DEF TypeOK, PointerInv, Holding, TimeInv, AdmitBystander
<1>13. CASE SettleLate(p)
  BY <1>13 DEF TypeOK, PointerInv, Holding, TimeInv, SettleLate, AfterHandler
<1>14. CASE SettleFailure(p)
  BY <1>14 DEF TypeOK, PointerInv, Holding, TimeInv, SettleFailure,
               AfterHandler, Reopen, Open
<1>15. CASE SettleSuccess(p)
  BY <1>15 DEF TypeOK, PointerInv, Holding, TimeInv, SettleSuccess,
               AfterHandler
<1>16. CASE StoreWindow(p)
  BY <1>16 DEF TypeOK, PointerInv, Holding, TimeInv, StoreWindow, Unlock,
               Publish, Free
<1> QED
  BY <1>1, <1>2, <1>3, <1>4, <1>5, <1>6, <1>7, <1>8, <1>9, <1>10, <1>11,
     <1>12, <1>13, <1>14, <1>15, <1>16
  DEF Step, Admit, Settle

\* Evidence; only Publish resets counters, and it takes a Free cell.
LEMMA JudgeStep ==
  ASSUME IInv, NEW p \in Procs, Enter(p) \/ Step(p)
  PROVE  JudgeInv'
<1> USE DEF IInv, Goto, Return, circuit, heap, locals
<1>1. CASE Enter(p)
  BY <1>1 DEF TypeOK, PointerInv, Holding, JudgeInv, Enter, Exceeded,
              EnoughRequests, RateReached
<1>2. CASE \E t \in 0..now : LoadWindow(p, t)
  BY <1>2 DEF TypeOK, PointerInv, Holding, JudgeInv, LoadWindow, Expired,
              Exceeded, EnoughRequests, RateReached
<1>3. CASE SwapWindow(p)
  BY <1>3 DEF TypeOK, PointerInv, Holding, JudgeInv, SwapWindow, Unswapped,
              Publish, Free, Exceeded, EnoughRequests, RateReached
<1>4. CASE CurrentWindow(p)
  BY <1>4 DEF TypeOK, PointerInv, Holding, JudgeInv, CurrentWindow, Exceeded,
              EnoughRequests, RateReached
<1>5. CASE CountRequest(p)
  BY <1>5 DEF TypeOK, PointerInv, Holding, JudgeInv, CountRequest, Exceeded,
              EnoughRequests, RateReached
<1>6. CASE \E err \in BOOLEAN : Execute(p, err)
  BY <1>6 DEF TypeOK, PointerInv, Holding, JudgeInv, Execute, CountFailure,
              Exceeded, EnoughRequests, RateReached
<1>7. CASE LoadTotal(p)
  BY <1>7 DEF TypeOK, PointerInv, Holding, JudgeInv, LoadTotal, Exceeded,
              EnoughRequests, RateReached
<1>8. CASE LoadFail(p)
  BY <1>8 DEF TypeOK, PointerInv, Holding, JudgeInv, LoadFail, Exceeded,
              EnoughRequests, RateReached
<1>9. CASE Trip(p)
  BY <1>9 DEF TypeOK, PointerInv, Holding, JudgeInv, Trip, StillClosed, Open,
              Exceeded, EnoughRequests, RateReached
<1>10. CASE Reject(p)
  BY <1>10 DEF TypeOK, PointerInv, Holding, JudgeInv, Reject, MayProbe,
               Exceeded, EnoughRequests, RateReached
<1>11. CASE AdmitProbe(p)
  BY <1>11 DEF TypeOK, PointerInv, Holding, JudgeInv, AdmitProbe, MayProbe,
               Exceeded, EnoughRequests, RateReached
<1>12. CASE AdmitBystander(p)
  BY <1>12 DEF TypeOK, PointerInv, Holding, JudgeInv, AdmitBystander,
               Exceeded, EnoughRequests, RateReached
<1>13. CASE SettleLate(p)
  BY <1>13 DEF TypeOK, PointerInv, Holding, JudgeInv, SettleLate,
               AfterHandler, Exceeded, EnoughRequests, RateReached
<1>14. CASE SettleFailure(p)
  BY <1>14 DEF TypeOK, PointerInv, Holding, JudgeInv, SettleFailure,
               AfterHandler, Reopen, Open, Exceeded, EnoughRequests,
               RateReached
<1>15. CASE SettleSuccess(p)
  BY <1>15 DEF TypeOK, PointerInv, Holding, JudgeInv, SettleSuccess,
               AfterHandler, Exceeded, EnoughRequests, RateReached
<1>16. CASE StoreWindow(p)
  BY <1>16 DEF TypeOK, PointerInv, Holding, JudgeInv, StoreWindow, Unlock,
               Publish, Free, Exceeded, EnoughRequests, RateReached
<1> QED
  BY <1>1, <1>2, <1>3, <1>4, <1>5, <1>6, <1>7, <1>8, <1>9, <1>10, <1>11,
     <1>12, <1>13, <1>14, <1>15, <1>16
  DEF Step, Admit, Settle

\* Pending(w) is a finite set of goroutines.
LEMMA PendingFinite ==
  ASSUME NEW w \in Windows
  PROVE  IsFiniteSet(Pending(w)) /\ Cardinality(Pending(w)) \in Nat
<1>1. IsFiniteSet(Pending(w))
  BY HeapAssumption, FS_Subset DEF Pending
<1> QED BY <1>1, FS_CardinalityType

\* A step that touches neither the counters nor who executes keeps the count.
LEMMA CountKept ==
  ASSUME FailuresHaveRequests, UNCHANGED <<requests, failures>>,
         \A w \in Windows : Pending(w)' = Pending(w)
  PROVE  FailuresHaveRequests'
BY DEF FailuresHaveRequests

\* A window that is published has no counters and nobody executing in it.
LEMMA CountPublished ==
  ASSUME TypeOK, FailuresHaveRequests, NEW p \in Procs, NEW v \in Free,
         NEW t, Publish(v, t), win' = [win EXCEPT ![p] = None],
         pc[p] # "execute", pc'[p] # "execute",
         \A q \in Procs : q # p => pc'[q] = pc[q]
  PROVE  FailuresHaveRequests'
<1>1. Pending(v)' = {}
  BY DEF Pending, Free, TypeOK
<1>2. ASSUME NEW w \in Windows, w # v
      PROVE  /\ Pending(w)' = Pending(w)
             /\ failures'[w] = failures[w] /\ requests'[w] = requests[w]
  BY <1>2 DEF Pending, Publish, TypeOK
<1>3. failures'[v] = 0 /\ requests'[v] = 0
  BY DEF Publish, Free, TypeOK
<1> QED BY <1>1, <1>2, <1>3, FS_EmptySet DEF FailuresHaveRequests

\* A request joins Pending when it is counted and leaves it when it may have
\* counted its failure, in one and the same window.
LEMMA CountStep ==
  ASSUME IInv, NEW p \in Procs, Enter(p) \/ Step(p)
  PROVE  FailuresHaveRequests'
<1> USE DEF IInv, Goto, Return
<1>1. CASE CountRequest(p)
  <2>0. PICK v \in Windows : v = win[p]
    BY <1>1 DEF CountRequest, PointerInv, Holding
  <2>1. p \notin Pending(v)
    BY <1>1, <2>0 DEF CountRequest, Pending
  <2>2. Pending(v)' = Pending(v) \cup {p}
    BY <1>1, <2>0, <2>1 DEF CountRequest, Pending, TypeOK, locals
  <2>3. \A w \in Windows : w # v => Pending(w)' = Pending(w)
    BY <1>1, <2>0 DEF CountRequest, Pending, TypeOK, locals
  <2>4. Cardinality(Pending(v)') = Cardinality(Pending(v)) + 1
    BY <2>1, <2>2, PendingFinite, FS_AddElement
  <2>5. /\ failures' = failures
        /\ requests'[v] = requests[v] + 1
        /\ \A w \in Windows : w # v => requests'[w] = requests[w]
    BY <1>1, <2>0, <2>1 DEF CountRequest, TypeOK
  <2>6. failures'[v] + Cardinality(Pending(v)') <= requests'[v]
    BY <2>1, <2>4, <2>5, PendingFinite DEF FailuresHaveRequests, TypeOK
  <2> QED BY <2>3, <2>5, <2>6 DEF FailuresHaveRequests
<1>2. CASE \E err \in BOOLEAN : Execute(p, err)
  <2>0. PICK v \in Windows : v = win[p]
    BY <1>2 DEF Execute, PointerInv, Holding
  <2>1. p \in Pending(v)
    BY <1>2, <2>0 DEF Execute, Pending
  <2>2. Pending(v)' = Pending(v) \ {p}
    BY <1>2, <2>0, <2>1 DEF Execute, Pending, TypeOK, locals
  <2>3. \A w \in Windows : w # v => Pending(w)' = Pending(w)
    BY <1>2, <2>0 DEF Execute, Pending, TypeOK, locals
  <2>4. Cardinality(Pending(v)') = Cardinality(Pending(v)) - 1
    BY <2>1, <2>2, PendingFinite, FS_RemoveElement
  <2>5. /\ requests' = requests
        /\ failures'[v] \in {failures[v], failures[v] + 1}
        /\ \A w \in Windows : w # v => failures'[w] = failures[w]
    BY <1>2, <2>0, <2>1 DEF Execute, CountFailure, TypeOK
  <2>6. failures'[v] + Cardinality(Pending(v)') <= requests'[v]
    BY <2>1, <2>4, <2>5, PendingFinite DEF FailuresHaveRequests, TypeOK
  <2> QED BY <2>3, <2>5, <2>6 DEF FailuresHaveRequests
<1>3. CASE SwapWindow(p)
  <2>1. CASE Unswapped(p)
    BY <1>3, <2>1, CountPublished DEF SwapWindow, TypeOK
  <2>2. CASE ~Unswapped(p)
    <3>1. \A w \in Windows : Pending(w)' = Pending(w)
      BY <1>3 DEF SwapWindow, Pending, TypeOK
    <3> QED BY <1>3, <2>2, <3>1, CountKept DEF SwapWindow, heap
  <2> QED BY <2>1, <2>2
<1>4. CASE StoreWindow(p)
  BY <1>4, CountPublished DEF StoreWindow, TypeOK
<1>5. CASE Admit(p) \/ Settle(p) \/ Trip(p)
  <2>1. \A w \in Windows : Pending(w)' = Pending(w)
    BY <1>5 DEF Admit, Reject, AdmitProbe, AdmitBystander, Trip, Settle,
                SettleLate, SettleFailure, SettleSuccess, AfterHandler,
                Pending, TypeOK, locals
  <2>2. UNCHANGED <<requests, failures>>
    BY <1>5 DEF Admit, Reject, AdmitProbe, AdmitBystander, Trip, Settle,
                SettleLate, SettleFailure, SettleSuccess, heap
  <2> QED BY <2>1, <2>2, CountKept
<1>6. CASE \/ Enter(p) \/ CurrentWindow(p) \/ LoadTotal(p) \/ LoadFail(p)
           \/ \E t \in 0..now : LoadWindow(p, t)
  <2>1. \A w \in Windows : Pending(w)' = Pending(w)
    BY <1>6 DEF Enter, CurrentWindow, LoadTotal, LoadFail, LoadWindow,
                Pending, TypeOK, locals
  <2>2. UNCHANGED <<requests, failures>>
    BY <1>6 DEF Enter, CurrentWindow, LoadTotal, LoadFail, LoadWindow, heap
  <2> QED BY <2>1, <2>2, CountKept
<1> QED BY <1>1, <1>2, <1>3, <1>4, <1>5, <1>6 DEF Step

\* The clock and stuttering disturb no conjunct.
LEMMA IdleStep ==
  ASSUME IInv, Tick \/ UNCHANGED vars
  PROVE  IInv'
<1>1. CASE Tick
  <2>1. TypeOK'
    BY <1>1 DEF IInv, TypeOK, Tick, circuit, heap, locals
  <2>2. InFlightIffHalfOpen' /\ HalfOpenHasProbe' /\ LockInv'
    BY <1>1 DEF IInv, InFlightIffHalfOpen, HalfOpenHasProbe, LockInv, Tick,
                 circuit
  <2>3. PointerInv' /\ TimeInv'
    BY <1>1 DEF IInv, TypeOK, PointerInv, TimeInv, Tick, circuit,
                 heap, locals
  <2>4. JudgeInv'
    BY <1>1 DEF IInv, JudgeInv, Exceeded, EnoughRequests, RateReached,
                 Tick, heap, locals
  <2>5. FailuresHaveRequests'
    BY <1>1, CountKept DEF IInv, Tick, heap, locals, Pending
  <2> QED BY <2>1, <2>2, <2>3, <2>4, <2>5 DEF IInv
<1>2. CASE UNCHANGED vars
  <2>1. FailuresHaveRequests'
    BY <1>2, CountKept DEF IInv, vars, heap, locals, Pending
  <2> QED
    BY <1>2, <2>1 DEF IInv, TypeOK, InFlightIffHalfOpen, HalfOpenHasProbe, LockInv,
              PointerInv, TimeInv, JudgeInv, Exceeded, EnoughRequests,
              RateReached, vars, circuit, heap, locals
<1> QED BY <1>1, <1>2

\* The invariant is inductive.
LEMMA NextIInv == IInv /\ [Next]_vars => IInv'
<1> SUFFICES ASSUME IInv, [Next]_vars PROVE IInv'
  OBVIOUS
<1>1. CASE \E p \in Procs : Enter(p) \/ Step(p)
  <2>1. PICK p \in Procs : Enter(p) \/ Step(p)
    BY <1>1
  <2>2. TypeOK' /\ InFlightIffHalfOpen' /\ HalfOpenHasProbe' /\ LockInv'
    BY <2>1, TypeStep, FlagStep, ProbeStep, LockStep
  <2>3. PointerInv' /\ TimeInv' /\ JudgeInv' /\ FailuresHaveRequests'
    BY <2>1, PointerStep, TimeStep, JudgeStep, CountStep
  <2> QED BY <2>2, <2>3 DEF IInv
<1>2. CASE Tick \/ UNCHANGED vars
  BY <1>2, IdleStep
<1> QED BY <1>1, <1>2 DEF Next

LEMMA Inductive == Spec => []IInv
BY InitIInv, NextIInv, PTL DEF Spec

----------------------------------------------------------------------------
\* Every variable of the breaker keeps its type, in particular a goroutine
\* never reads a counter through a pointer it does not have.
THEOREM TypeCorrect == Spec => []TypeOK
<1>1. IInv => TypeOK
  BY DEF IInv
<1> QED BY <1>1, Inductive, PTL

\* The single-flight flag is up exactly while the circuit is half-open.
THEOREM FlagCorrect == Spec => []InFlightIffHalfOpen
<1>1. IInv => InFlightIffHalfOpen
  BY DEF IInv
<1> QED BY <1>1, Inductive, PTL

\* A half-open circuit is never wedged: somebody is about to decide it.
THEOREM NeverWedged == Spec => []HalfOpenHasProbe
<1>1. IInv => HalfOpenHasProbe
  BY DEF IInv
<1> QED BY <1>1, Inductive, PTL

\* No window ever counts more failures than requests, not even when the window
\* is swapped under the request.
THEOREM FailuresBounded == Spec => []FailuresHaveRequests
<1>1. IInv => FailuresHaveRequests
  BY DEF IInv
<1> QED BY <1>1, Inductive, PTL

\* Only Trip, Admit and Settle touch the state of the circuit.
LEMMA QuietStep ==
  ASSUME NEW p \in Procs, Enter(p) \/ Step(p), ~Trip(p), ~Admit(p), ~Settle(p)
  PROVE  UNCHANGED <<now, state, lastFailTime>>
<1> QED
  BY DEF Step, Enter, LoadWindow, SwapWindow, CurrentWindow, CountRequest,
         Execute, LoadTotal, LoadFail, StoreWindow, circuit

\* Only Trip opens a closed circuit.
LEMMA OpenedByTrip ==
  ASSUME Next, state = "closed", state' = "open"
  PROVE  \E p \in Procs : Trip(p)
<1>1. CASE Tick
  BY <1>1 DEF Tick, circuit
<1>2. ASSUME NEW p \in Procs, Enter(p) \/ Step(p) PROVE Trip(p)
  <2>1. ~Admit(p) /\ ~Settle(p)
    BY DEF Admit, Reject, AdmitProbe, AdmitBystander, MayProbe, Settle,
           SettleLate, SettleFailure, SettleSuccess, Reopen, Open, circuit
  <2> QED BY <1>2, <2>1, QuietStep
<1> QED BY <1>1, <1>2 DEF Next

\* The circuit opens only on the evidence of one window that has it now,
\* however long ago its counters were loaded.
THEOREM OpensOnEvidence == Spec => OpenEvidence
<1> DEFINE Evidence ==
      \E p \in Procs : /\ pc[p] = "trip"
                       /\ EnoughRequests(requests[win[p]])
                       /\ RateReached(failures[win[p]], MinRequests)
<1>1. ASSUME IInv, Next, state = "closed", state' = "open" PROVE Evidence
  <2>1. PICK p \in Procs : Trip(p)
    BY <1>1, OpenedByTrip
  <2>2. pc[p] = "trip" /\ win[p] \in Windows
    BY <1>1, <2>1 DEF Trip, IInv, PointerInv, Holding
  <2>3. /\ total[p] \in Nat /\ requests[win[p]] \in Nat
        /\ failures[win[p]] \in Nat
    BY <1>1, <2>2 DEF IInv, TypeOK
  <2>4. /\ total[p] <= requests[win[p]]
        /\ total[p] >= MinRequests
        /\ failures[win[p]] * 1024 >= ErrorThreshold * total[p]
    BY <1>1, <2>2 DEF IInv, JudgeInv, Exceeded, EnoughRequests, RateReached
  <2>5. ErrorThreshold * MinRequests <= ErrorThreshold * total[p]
    BY <2>3, <2>4, ProductMonotone
  <2>6. EnoughRequests(requests[win[p]])
    BY <2>3, <2>4 DEF EnoughRequests
  <2>7. RateReached(failures[win[p]], MinRequests)
    <3> DEFINE a == ErrorThreshold * MinRequests
               b == ErrorThreshold * total[p]
    <3>1. a \in Nat /\ b \in Nat
      BY <2>3
    <3>2. failures[win[p]] * 1024 >= b /\ a <= b
      BY <2>4, <2>5
    <3> HIDE DEF a, b
    <3>3. failures[win[p]] * 1024 >= a
      BY <2>3, <3>1, <3>2
    <3> QED BY <3>3 DEF a, RateReached
  <2> QED BY <2>2, <2>6, <2>7
<1>2. IInv /\ [Next]_vars
        => [state = "closed" /\ state' = "open" => Evidence]_vars
  BY <1>1 DEF vars
<1> QED BY <1>2, Inductive, PTL DEF Spec, OpenEvidence

\* Only the two actions that publish a window touch cb.window and the starts.
LEMMA WindowStep ==
  ASSUME NEW p \in Procs, Enter(p) \/ Step(p), ~SwapWindow(p), ~StoreWindow(p)
  PROVE  UNCHANGED <<window, start>>
<1> USE DEF heap
<1>1. CASE Admit(p) \/ Settle(p) \/ Trip(p)
  BY <1>1 DEF Admit, Reject, AdmitProbe, AdmitBystander, Trip,
              Settle, SettleLate, SettleFailure, SettleSuccess
<1>2. CASE ~(Admit(p) \/ Settle(p) \/ Trip(p))
  BY <1>2 DEF Step, Enter, LoadWindow, CurrentWindow, CountRequest, Execute,
              LoadTotal, LoadFail
<1> QED BY <1>1, <1>2

\* No interleaving of rotations on stale stamps and closing sections replaces
\* the active window by one that started earlier.
THEOREM WindowForward == Spec => WindowMovesForward
<1>1. ASSUME IInv, Next PROVE start'[window'] >= start[window]
  <2> USE <1>1 DEF IInv, TypeOK
  <2>1. CASE UNCHANGED <<window, start>>
    BY <2>1
  <2>2. CASE Tick
    BY <2>1, <2>2 DEF Tick, heap
  <2>3. ASSUME NEW p \in Procs, SwapWindow(p)
        PROVE  start'[window'] >= start[window]
    <3>1. CASE window = win[p]
      BY <2>3, <3>1 DEF SwapWindow, Unswapped, Publish, Free, TimeInv
    <3>2. CASE window # win[p]
      BY <2>1, <2>3, <3>2 DEF SwapWindow, Unswapped, heap
    <3> QED BY <3>1, <3>2
  <2>4. ASSUME NEW p \in Procs, StoreWindow(p)
        PROVE  start'[window'] >= start[window]
    BY <2>4 DEF StoreWindow, Publish, Free, TimeInv
  <2> QED BY <2>1, <2>2, <2>3, <2>4, WindowStep DEF Next
<1>2. IInv /\ [Next]_vars => [start'[window'] >= start[window]]_vars
  BY <1>1
<1> QED BY <1>2, Inductive, PTL DEF Spec, WindowMovesForward

\* The breaker is the circuit of BreakerMachine: whatever the interleaving, it
\* opens from Closed only, stays open for OpenTimeout, and is left half-open
\* only by a decision.
THEOREM ImplementsMachine == Spec => Machine!Safety
<1> USE DEF Machine!Next, Machine!machineVars
<1>1. Init => Machine!Init
  BY DEF Init, Machine!Init
<1>2. ASSUME IInv, Next PROVE [Machine!Next]_(Machine!machineVars)
  <2>1. CASE UNCHANGED <<now, state, lastFailTime>>
    BY <2>1
  <2>2. CASE Tick
    BY <2>2 DEF Tick, circuit, Machine!Tick
  <2>3. ASSUME NEW p \in Procs, Trip(p)
        PROVE  [Machine!Next]_(Machine!machineVars)
    BY <2>3 DEF Trip, StillClosed, Open, Machine!Open
  <2>4. ASSUME NEW p \in Procs, Admit(p)
        PROVE  [Machine!Next]_(Machine!machineVars)
    <3>1. CASE Reject(p)
      BY <1>2, <3>1 DEF Reject, MayProbe, IInv,
                        InFlightIffHalfOpen
    <3>2. CASE AdmitProbe(p)
      BY <1>2, <3>2 DEF AdmitProbe, MayProbe, CooledDown,
                        IInv, InFlightIffHalfOpen, Machine!HalfOpen
    <3>3. CASE AdmitBystander(p)
      BY <3>3 DEF AdmitBystander, circuit
    <3> QED BY <2>4, <3>1, <3>2, <3>3 DEF Admit
  <2>5. ASSUME NEW p \in Procs, Settle(p)
        PROVE  [Machine!Next]_(Machine!machineVars)
    BY <2>5 DEF Settle, SettleLate, SettleFailure, SettleSuccess, circuit,
                Reopen, Open, Machine!Reopen, Machine!Close
  <2> QED BY <1>2, <2>1, <2>2, <2>3, <2>4, <2>5, QuietStep DEF Next
<1>3. IInv /\ [Next]_vars => [Machine!Next]_(Machine!machineVars)
  BY <1>2 DEF vars, circuit
<1> QED BY <1>1, <1>3, Inductive, PTL DEF Spec, Machine!Safety
=============================================================================
