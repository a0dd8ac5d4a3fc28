---------------------------- MODULE HedgeProofs ----------------------------
(***************************************************************************)
(* Hedge for any number of requests, states and attempts: the life of a     *)
(* hedgeState between two stays in the pool, and what follows from it.      *)
(***************************************************************************)
EXTENDS Hedge, FiniteSetTheorems, TLAPS

\* A state nobody works with: not yet allocated, or in the pool once.
Resting(s) == /\ Users(s) = {} /\ Recyclers(s) = {} /\ chan[s] = None
              /\ pooled[s] = IF s \in fresh THEN 0 ELSE 1

\* A state out of the pool.  Its users belong to one request, and what is in the
\* channel comes from one of them; once all have left, one recycles it.
Engaged(s) ==
  /\ s \notin fresh /\ pooled[s] = 0
  /\ \A g, h \in Users(s) : g[1] = h[1]
  /\ \A g \in Users(s) : chan[s] # None => chan[s].of[1] = g[1]
  /\ IF Users(s) = {} THEN \E g \in Goroutines : Recyclers(s) = {g}
                      ELSE Recyclers(s) = {}

StateInv == \A s \in States : Resting(s) \/ Engaged(s)

\* A request holds a state from its start on, and no attempt is ahead of fired.
FiredInv ==
  \A r \in Requests :
    /\ IF pc[r] = "idle" THEN held[r] = None /\ fired[r] = 0
                         ELSE held[r] \in States
    /\ \A i \in 1..MaxAttempts : attempt[<<r, i>>] # "none" => i <= fired[r]

\* An attempt that is about to send has something to send.
SendInv == \A a \in Attempts : attempt[a] = "sending" => outcome[a] \in Outcomes

IInv == TypeOK /\ OwnResult /\ CountsUsers /\ FiredInv /\ SendInv /\ StateInv

----------------------------------------------------------------------------
(* Goroutines.                                                              *)

LEMMA GoroutineForms ==
  ASSUME NEW g \in Goroutines
  PROVE  /\ g[1] \in Requests /\ g[2] \in 0..MaxAttempts /\ g = <<g[1], g[2]>>
         /\ g[2] # 0 => g \in Attempts
BY AttemptsAssumption DEF Goroutines, Attempts

LEMMA CoordinatorForms ==
  ASSUME NEW r \in Requests
  PROVE  <<r, 0>> \in Goroutines /\ <<r, 0>>[1] = r /\ <<r, 0>>[2] = 0
BY AttemptsAssumption DEF Goroutines

LEMMA AttemptForms ==
  ASSUME NEW a \in Attempts
  PROVE  /\ a \in Goroutines /\ a[1] \in Requests /\ a[2] \in 1..MaxAttempts
         /\ a[2] # 0 /\ a = <<a[1], a[2]>>
BY AttemptsAssumption DEF Goroutines, Attempts

LEMMA UsersFinite ==
  ASSUME NEW s
  PROVE  /\ IsFiniteSet(Users(s)) /\ Cardinality(Users(s)) \in Nat
         /\ Users(s) = {} <=> Cardinality(Users(s)) = 0
<1>1. IsFiniteSet(Goroutines)
  <2>1. IsFiniteSet(0..MaxAttempts)
    BY AttemptsAssumption, FS_Interval
  <2>2. IsFiniteSet(Requests \X (0..MaxAttempts))
    BY <2>1, RequestsAssumption, FS_Product
  <2> QED BY <2>2 DEF Goroutines
<1>2. Users(s) \in SUBSET Goroutines
  BY DEF Users
<1> QED BY <1>1, <1>2, FS_Subset, FS_CardinalityType, FS_EmptySet

\* A step that changes nobody's standing.
LEMMA NobodyMoves ==
  ASSUME held' = held,
         \A g \in Goroutines : /\ Counts(g)' <=> Counts(g)
                               /\ Recycles(g)' <=> Recycles(g)
  PROVE  \A s : Users(s)' = Users(s) /\ Recyclers(s)' = Recyclers(s)
BY DEF Users, Recyclers, StateOf

\* A step that changes the standing of one goroutine, and what that means to
\* the state it holds and to the others.
LEMMA OneMoves ==
  ASSUME held' = held, NEW g \in Goroutines, NEW s, StateOf(g) = s,
         \A h \in Goroutines \ {g} : /\ Counts(h)' <=> Counts(h)
                                     /\ Recycles(h)' <=> Recycles(h)
  PROVE  /\ \A t : t # s => Users(t)' = Users(t) /\ Recyclers(t)' = Recyclers(t)
         /\ Users(s)' = IF Counts(g)' THEN Users(s) \cup {g} ELSE Users(s) \ {g}
         /\ Recyclers(s)' = IF Recycles(g)' THEN Recyclers(s) \cup {g}
                                            ELSE Recyclers(s) \ {g}
<1>1. \A h \in Goroutines : StateOf(h)' = StateOf(h)
  BY DEF StateOf
<1>2. ASSUME NEW t, t # s
      PROVE  Users(t)' = Users(t) /\ Recyclers(t)' = Recyclers(t)
  BY <1>1, <1>2 DEF Users, Recyclers
<1>3. Users(s)' = {h \in Goroutines : StateOf(h) = s /\ Counts(h)'}
  BY <1>1 DEF Users
<1>4. Recyclers(s)' = {h \in Goroutines : StateOf(h) = s /\ Recycles(h)'}
  BY <1>1 DEF Recyclers
<1>5. Users(s)' = IF Counts(g)' THEN Users(s) \cup {g} ELSE Users(s) \ {g}
  BY <1>3 DEF Users
<1>6. Recyclers(s)' = IF Recycles(g)' THEN Recyclers(s) \cup {g}
                                      ELSE Recyclers(s) \ {g}
  BY <1>4 DEF Recyclers
<1> QED BY <1>2, <1>5, <1>6

----------------------------------------------------------------------------
(* How a state fares.                                                       *)

\* Nobody joins or leaves; the channel is left alone, emptied or filled by a
\* user.
LEMMA StateStays ==
  ASSUME IInv, active' = active, UNCHANGED pool,
         \A s : Users(s)' = Users(s) /\ Recyclers(s)' = Recyclers(s),
         \A s \in States : \/ chan'[s] \in {chan[s], None}
                           \/ \E g \in Users(s) : chan'[s].of[1] = g[1]
  PROVE  CountsUsers' /\ StateInv'
<1>1. CountsUsers'
  BY DEF IInv, CountsUsers
<1>2. ASSUME NEW s \in States PROVE Resting(s)' \/ Engaged(s)'
  <2>1. CASE Resting(s)
    <3>1. chan'[s] = None
      BY <2>1 DEF Resting
    <3> QED BY <2>1, <3>1 DEF Resting, pool
  <2>2. CASE Engaged(s)
    <3>1. \A g \in Users(s) : chan'[s] # None => chan'[s].of[1] = g[1]
      <4>1. CASE chan'[s] \in {chan[s], None}
        BY <2>2, <4>1 DEF Engaged
      <4>2. CASE \E g \in Users(s) : chan'[s].of[1] = g[1]
        BY <2>2, <4>2 DEF Engaged
      <4> QED BY <4>1, <4>2
    <3> QED BY <2>2, <3>1 DEF Engaged, pool
  <2> QED BY <2>1, <2>2 DEF IInv, StateInv
<1> QED BY <1>1, <1>2 DEF StateInv

\* A user fires another one of its request.
LEMMA UserJoins ==
  ASSUME IInv, NEW s \in States, NEW g \in Goroutines, NEW h \in Users(s),
         g[1] = h[1], g \notin Users(s), Join(s), UNCHANGED <<chan, pool>>,
         \A t : t # s => Users(t)' = Users(t) /\ Recyclers(t)' = Recyclers(t),
         Users(s)' = Users(s) \cup {g}, Recyclers(s)' = Recyclers(s) \ {g}
  PROVE  CountsUsers' /\ StateInv'
<1>1. active \in [States -> Nat]
  BY DEF IInv, TypeOK
<1>2. CountsUsers'
  <2> SUFFICES ASSUME NEW t \in States
               PROVE  active'[t] = Cardinality(Users(t)')
    BY DEF CountsUsers
  <2>1. CASE t = s
    <3>1. Cardinality(Users(s)') = Cardinality(Users(s)) + 1
      <4>1. IsFiniteSet(Users(s))
        BY UsersFinite
      <4>2. Cardinality(Users(s) \cup {g}) = Cardinality(Users(s)) + 1
        BY <4>1, FS_AddElement
      <4> QED BY <4>2
    <3> QED BY <1>1, <2>1, <3>1 DEF IInv, CountsUsers, Join
  <2>2. CASE t # s
    BY <1>1, <2>2 DEF IInv, CountsUsers, Join
  <2> QED BY <2>1, <2>2
<1>3. ASSUME NEW t \in States PROVE Resting(t)' \/ Engaged(t)'
  <2>1. CASE t = s
    <3>1. Engaged(s) /\ Recyclers(s) = {}
      BY DEF IInv, StateInv, Resting, Engaged
    <3>2. \A k \in Users(s)' : k[1] = h[1]
      BY <3>1 DEF Engaged
    <3>3. Users(s)' # {} /\ Recyclers(s)' = {}
      BY <3>1
    <3>4. chan[s] # None => chan[s].of[1] = h[1]
      BY <3>1 DEF Engaged
    <3>5. Engaged(s)'
      BY <3>1, <3>2, <3>3, <3>4 DEF Engaged, pool
    <3> QED BY <2>1, <3>5
  <2>2. CASE t # s
    <3>1. Users(t)' = Users(t) /\ Recyclers(t)' = Recyclers(t)
      BY <2>2
    <3>2. Resting(t) \/ Engaged(t)
      BY DEF IInv, StateInv
    <3> QED BY <3>1, <3>2 DEF Resting, Engaged, pool
  <2> QED BY <2>1, <2>2
<1> QED BY <1>2, <1>3 DEF StateInv

\* A user leaves, and recycles the state if it was the last.
LEMMA UserLeaves ==
  ASSUME IInv, NEW s \in States, NEW g \in Users(s),
         Leave(s), UNCHANGED <<chan, pool>>,
         \A t : t # s => Users(t)' = Users(t) /\ Recyclers(t)' = Recyclers(t),
         Users(s)' = Users(s) \ {g},
         Recyclers(s)' = IF Last(s) THEN Recyclers(s) \cup {g}
                                    ELSE Recyclers(s) \ {g}
  PROVE  CountsUsers' /\ StateInv'
<1>1. active \in [States -> Nat] /\ g \in Goroutines
  BY DEF IInv, TypeOK, Users
<1>2. /\ Cardinality(Users(s)') = Cardinality(Users(s)) - 1
      /\ Cardinality(Users(s)) \in Nat
  BY UsersFinite, FS_RemoveElement
<1>3. CountsUsers'
  <2> SUFFICES ASSUME NEW t \in States
               PROVE  active'[t] = Cardinality(Users(t)')
    BY DEF CountsUsers
  <2>1. CASE t = s
    BY <1>1, <1>2, <2>1 DEF IInv, CountsUsers, Leave
  <2>2. CASE t # s
    BY <1>1, <2>2 DEF IInv, CountsUsers, Leave
  <2> QED BY <2>1, <2>2
<1>4. Last(s) <=> Users(s)' = {}
  <2>1. active[s] = Cardinality(Users(s))
    BY DEF IInv, CountsUsers
  <2>2. IsFiniteSet(Users(s)')
    BY UsersFinite, FS_RemoveElement
  <2>3. Users(s)' = {} <=> Cardinality(Users(s)') = 0
    BY <2>2, FS_EmptySet
  <2> QED BY <1>2, <2>1, <2>3 DEF Last
<1>5. ASSUME NEW t \in States PROVE Resting(t)' \/ Engaged(t)'
  <2>1. CASE t = s
    <3>1. Engaged(s) /\ Recyclers(s) = {}
      BY DEF IInv, StateInv, Resting, Engaged
    <3>2. IF Users(s)' = {} THEN Recyclers(s)' = {g} ELSE Recyclers(s)' = {}
      BY <1>4, <3>1
    <3>3. /\ \A h, k \in Users(s)' : h[1] = k[1]
          /\ \A h \in Users(s)' : chan[s] # None => chan[s].of[1] = h[1]
      BY <3>1 DEF Engaged
    <3>4. Engaged(s)'
      BY <1>1, <3>1, <3>2, <3>3 DEF Engaged, pool, Goroutines
    <3> QED BY <2>1, <3>4
  <2>2. CASE t # s
    <3>1. Users(t)' = Users(t) /\ Recyclers(t)' = Recyclers(t)
      BY <2>2
    <3>2. Resting(t) \/ Engaged(t)
      BY DEF IInv, StateInv
    <3> QED BY <3>1, <3>2 DEF Resting, Engaged, pool
  <2> QED BY <2>1, <2>2
<1> QED BY <1>3, <1>5 DEF StateInv

\* The one that recycles a state puts it back.
LEMMA PutBackRests ==
  ASSUME IInv, NEW s \in States, NEW g \in Recyclers(s),
         PutBack(s), active' = active,
         \A t : t # s => Users(t)' = Users(t) /\ Recyclers(t)' = Recyclers(t),
         Users(s)' = Users(s) \ {g}, Recyclers(s)' = Recyclers(s) \ {g}
  PROVE  CountsUsers' /\ StateInv' /\ pooled' \in [States -> {0, 1}]
<1>1. /\ chan \in [States -> Results \cup {None}]
      /\ pooled \in [States -> {0, 1}]
  BY DEF IInv, TypeOK
<1>2. /\ s \notin fresh /\ pooled[s] = 0 /\ Users(s) = {} /\ Recyclers(s) = {g}
  BY DEF IInv, StateInv, Resting, Engaged
<1>3. CountsUsers'
  <2>1. \A t \in States : Users(t)' = Users(t)
    BY <1>2
  <2> QED BY <2>1 DEF IInv, CountsUsers
<1>4. /\ pooled' \in [States -> {0, 1}] /\ pooled'[s] = 1 /\ chan'[s] = None
      /\ \A t \in States \ {s} : pooled'[t] = pooled[t] /\ chan'[t] = chan[t]
  BY <1>1, <1>2 DEF PutBack
<1>5. ASSUME NEW t \in States PROVE Resting(t)' \/ Engaged(t)'
  <2>1. CASE t = s
    BY <1>2, <1>4, <2>1 DEF Resting, PutBack
  <2>2. CASE t # s
    <3>1. Users(t)' = Users(t) /\ Recyclers(t)' = Recyclers(t)
      BY <2>2
    <3>2. Resting(t) \/ Engaged(t)
      BY DEF IInv, StateInv
    <3> QED BY <1>4, <2>2, <3>1, <3>2 DEF Resting, Engaged, PutBack
  <2> QED BY <2>1, <2>2
<1> QED BY <1>3, <1>4, <1>5 DEF StateInv

----------------------------------------------------------------------------
(* Who moves in a step.                                                     *)

Using   == {"waiting", "won", "gaveUp", "leaving"}
Working == {"running", "sending", "leaving"}

LEMMA CoordinatorMoves ==
  ASSUME TypeOK, NEW r \in Requests, NEW l, Move(r, l),
         held' = held, attempt' = attempt
  PROVE  LET g == <<r, 0>> IN
         /\ g \in Goroutines /\ StateOf(g) = held[r]
         /\ Counts(g) <=> pc[r] \in Using
         /\ Recycles(g) <=> pc[r] = "recycling"
         /\ Counts(g)' <=> l \in Using
         /\ Recycles(g)' <=> l = "recycling"
         /\ \A h \in Goroutines \ {g} : /\ Counts(h)' <=> Counts(h)
                                        /\ Recycles(h)' <=> Recycles(h)
<1> DEFINE g == <<r, 0>>
<1>1. g \in Goroutines /\ g[1] = r /\ g[2] = 0
  BY CoordinatorForms
<1>2. pc'[r] = l /\ \A q \in Requests \ {r} : pc'[q] = pc[q]
  BY DEF TypeOK, Move
<1>3. ASSUME NEW h \in Goroutines \ {g}
      PROVE  /\ Counts(h)' <=> Counts(h)
             /\ Recycles(h)' <=> Recycles(h)
  <2>1. CASE h[2] = 0
    <3>1. h[1] \in Requests \ {r}
      BY <2>1, GoroutineForms
    <3> QED BY <1>2, <2>1, <3>1 DEF Counts, Recycles
  <2>2. CASE h[2] # 0
    BY <2>2 DEF Counts, Recycles
  <2> QED BY <2>1, <2>2
<1> QED BY <1>1, <1>2, <1>3 DEF Counts, Recycles, StateOf, Using

LEMMA AttemptMoves ==
  ASSUME TypeOK, NEW a \in Attempts, NEW l, Proceed(a, l),
         held' = held, pc' = pc
  PROVE  /\ a \in Goroutines /\ StateOf(a) = held[a[1]]
         /\ Counts(a) <=> attempt[a] \in Working
         /\ Recycles(a) <=> attempt[a] = "recycling"
         /\ Counts(a)' <=> l \in Working
         /\ Recycles(a)' <=> l = "recycling"
         /\ \A h \in Goroutines \ {a} : /\ Counts(h)' <=> Counts(h)
                                        /\ Recycles(h)' <=> Recycles(h)
<1>1. a \in Goroutines /\ a[2] # 0
  BY AttemptForms
<1>2. attempt'[a] = l /\ \A b \in Attempts \ {a} : attempt'[b] = attempt[b]
  BY DEF TypeOK, Proceed
<1>3. ASSUME NEW h \in Goroutines \ {a}
      PROVE  /\ Counts(h)' <=> Counts(h)
             /\ Recycles(h)' <=> Recycles(h)
  <2>1. CASE h[2] = 0
    BY <2>1 DEF Counts, Recycles
  <2>2. CASE h[2] # 0
    <3>1. h \in Attempts \ {a}
      BY <2>2, GoroutineForms
    <3> QED BY <1>2, <2>2, <3>1 DEF Counts, Recycles
  <2> QED BY <2>1, <2>2
<1> QED BY <1>1, <1>2, <1>3 DEF Counts, Recycles, StateOf, Working

\* The state of a coordinator that has started, and of an attempt that runs.
LEMMA HeldState ==
  ASSUME IInv
  PROVE  /\ \A r \in Requests : pc[r] # "idle" => held[r] \in States
         /\ \A a \in Attempts : attempt[a] # "none" => held[a[1]] \in States
<1>1. \A r \in Requests : pc[r] # "idle" => held[r] \in States
  BY DEF IInv, FiredInv
<1>2. ASSUME NEW a \in Attempts, attempt[a] # "none"
      PROVE  held[a[1]] \in States
  <2>1. a[1] \in Requests /\ a[2] \in 1..MaxAttempts /\ a = <<a[1], a[2]>>
    BY AttemptForms
  <2>2. a[2] <= fired[a[1]]
    BY <1>2, <2>1 DEF IInv, FiredInv
  <2>3. pc[a[1]] # "idle"
    BY <2>1, <2>2 DEF IInv, FiredInv
  <2> QED BY <1>1, <2>1, <2>3
<1> QED BY <1>1, <1>2

\* FiredInv outside Start and TimerFires.
LEMMA FiredStays ==
  ASSUME FiredInv, UNCHANGED <<held, fired>>,
         \A r \in Requests : pc'[r] = "idle" <=> pc[r] = "idle",
         \A a \in Attempts : attempt'[a] # "none" => attempt[a] # "none"
  PROVE  FiredInv'
BY DEF FiredInv, Attempts

----------------------------------------------------------------------------
(* The invariant, step by step.                                             *)

LEMMA InitIInv == Init => IInv
<1> SUFFICES ASSUME Init PROVE IInv
  OBVIOUS
<1>1. TypeOK
  BY AttemptsAssumption DEF Init, TypeOK
<1>2. \A g \in Goroutines : ~Counts(g) /\ ~Recycles(g)
  <2> SUFFICES ASSUME NEW g \in Goroutines PROVE ~Counts(g) /\ ~Recycles(g)
    OBVIOUS
  <2>1. g[1] \in Requests /\ (g[2] # 0 => g \in Attempts)
    BY GoroutineForms
  <2> QED BY <2>1 DEF Init, Counts, Recycles
<1>3. \A s : Users(s) = {} /\ Recyclers(s) = {}
  BY <1>2 DEF Users, Recyclers
<1>4. CountsUsers
  BY <1>3, FS_EmptySet DEF Init, CountsUsers
<1>5. StateInv
  BY <1>3 DEF Init, StateInv, Resting
<1>6. FiredInv
  BY DEF Init, FiredInv, Attempts
<1>7. SendInv
  BY DEF Init, SendInv
<1> QED BY <1>1, <1>4, <1>5, <1>6, <1>7 DEF Init, IInv, OwnResult

\* A request takes a resting state.
LEMMA TakeRests ==
  ASSUME IInv, NEW s \in States, Take(s)
  PROVE  /\ Resting(s)
         /\ s \notin fresh' /\ pooled'[s] = 0
         /\ \A t \in States \ {s} : /\ pooled'[t] = pooled[t]
                                    /\ t \in fresh' <=> t \in fresh
         /\ pooled' \in [States -> {0, 1}] /\ fresh' \subseteq States
<1>1. pooled \in [States -> {0, 1}] /\ fresh \subseteq States
  BY DEF IInv, TypeOK
<1>2. Resting(s) \/ Engaged(s)
  BY DEF IInv, StateInv
<1>3. CASE /\ pooled[s] > 0
           /\ pooled' = [pooled EXCEPT ![s] = @ - 1]
           /\ UNCHANGED fresh
  BY <1>1, <1>2, <1>3 DEF Resting, Engaged
<1>4. CASE /\ s \in fresh
           /\ fresh' = fresh \ {s}
           /\ UNCHANGED pooled
  BY <1>1, <1>2, <1>4 DEF Resting, Engaged
<1> QED BY <1>3, <1>4 DEF Take

\* The first two users of a state.
LEMMA StartUsers ==
  ASSUME IInv, NEW r \in Requests, NEW s \in States, pc[r] = "idle",
         held' = [held EXCEPT ![r] = s], Move(r, "waiting"),
         Proceed(<<r, 1>>, "running"), Users(s) = {}, Recyclers(s) = {}
  PROVE  /\ Users(s)' = {<<r, 0>>, <<r, 1>>} /\ Recyclers(s)' = {}
         /\ \A t \in States \ {s} : /\ Users(t)' = Users(t)
                                    /\ Recyclers(t)' = Recyclers(t)
<1>1. TypeOK /\ FiredInv
  BY DEF IInv
<1>2. /\ pc'[r] = "waiting" /\ held'[r] = s /\ held[r] = None
      /\ \A q \in Requests \ {r} : pc'[q] = pc[q] /\ held'[q] = held[q]
  BY <1>1 DEF TypeOK, FiredInv, Move
<1>3. <<r, 1>> \in Attempts
  BY AttemptsAssumption DEF Attempts
<1>4. /\ attempt'[<<r, 1>>] = "running"
      /\ \A b \in Attempts \ {<<r, 1>>} : attempt'[b] = attempt[b]
      /\ \A i \in 1..MaxAttempts : attempt[<<r, i>>] = "none"
  BY <1>1, <1>3 DEF TypeOK, FiredInv, Proceed
<1>5. ASSUME NEW g \in Goroutines, g[1] = r
      PROVE  /\ StateOf(g) = None /\ StateOf(g)' = s
             /\ Counts(g)' <=> g \in {<<r, 0>>, <<r, 1>>}
             /\ ~Recycles(g)'
  <2>1. g = <<r, g[2]>> /\ g[2] \in 0..MaxAttempts /\ (g[2] # 0 => g \in Attempts)
    BY <1>5, GoroutineForms
  <2>2. CASE g[2] = 0
    BY <1>2, <1>5, <2>1, <2>2 DEF Counts, Recycles, StateOf
  <2>3. CASE g[2] # 0
    <3>1. attempt'[g] = IF g = <<r, 1>> THEN "running" ELSE "none"
      BY <1>4, <2>1, <2>3
    <3>2. g # <<r, 0>>
      BY <2>1, <2>3
    <3> QED BY <1>2, <1>5, <2>3, <3>1, <3>2 DEF Counts, Recycles, StateOf
  <2> QED BY <2>2, <2>3
<1>6. ASSUME NEW g \in Goroutines, g[1] # r
      PROVE  /\ StateOf(g)' = StateOf(g)
             /\ Counts(g)' <=> Counts(g)
             /\ Recycles(g)' <=> Recycles(g)
  <2>1. g = <<g[1], g[2]>> /\ g[1] \in Requests \ {r}
        /\ (g[2] # 0 => g \in Attempts \ {<<r, 1>>})
    BY <1>6, GoroutineForms
  <2> QED BY <1>2, <1>4, <2>1 DEF Counts, Recycles, StateOf
<1>7. <<r, 0>> \in Goroutines /\ <<r, 1>> \in Goroutines
  BY AttemptsAssumption DEF Goroutines
<1>8. \A g : g \in Users(s)' <=> g \in {<<r, 0>>, <<r, 1>>}
  <2>1. \A g \in Goroutines : g \in Users(s)' <=> g \in {<<r, 0>>, <<r, 1>>}
    <3> TAKE g \in Goroutines
    <3>1. g \in Users(s)' <=> StateOf(g)' = s /\ Counts(g)'
      BY DEF Users
    <3>2. g[1] # r => ~(StateOf(g) = s /\ Counts(g))
      BY DEF Users
    <3>3. g[1] # r => g \notin {<<r, 0>>, <<r, 1>>}
      OBVIOUS
    <3> QED BY <1>5, <1>6, <3>1, <3>2, <3>3
  <2>2. \A g \in Users(s)' : g \in Goroutines
    BY DEF Users
  <2> QED BY <1>7, <2>1, <2>2
<1>9. \A g : g \notin Recyclers(s)'
  BY <1>5, <1>6 DEF Recyclers
<1>10. ASSUME NEW t \in States \ {s}
       PROVE  Users(t)' = Users(t) /\ Recyclers(t)' = Recyclers(t)
  <2>1. ASSUME NEW g \in Goroutines
        PROVE  /\ StateOf(g)' = t /\ Counts(g)' <=> StateOf(g) = t /\ Counts(g)
               /\ StateOf(g)' = t /\ Recycles(g)' <=> StateOf(g) = t /\ Recycles(g)
    BY <1>5, <1>6, NoneAssumption
  <2> QED BY <2>1 DEF Users, Recyclers
<1> QED BY <1>8, <1>9, <1>10

LEMMA StartStep == ASSUME IInv, NEW r \in Requests, Start(r) PROVE IInv'
<1> USE DEF IInv
<1>1. PICK s \in States : /\ Take(s)
                          /\ held' = [held EXCEPT ![r] = s]
                          /\ active' = [active EXCEPT ![s] = 2]
  BY DEF Start
<1>2. /\ pc[r] = "idle" /\ Move(r, "waiting") /\ Proceed(<<r, 1>>, "running")
      /\ fired' = [fired EXCEPT ![r] = 1]
      /\ UNCHANGED <<got, contexts, outcome, chan>>
  BY DEF Start, Proceed
<1>3. /\ Resting(s) /\ s \notin fresh' /\ pooled'[s] = 0
      /\ \A t \in States \ {s} : /\ pooled'[t] = pooled[t]
                                 /\ t \in fresh' <=> t \in fresh
      /\ pooled' \in [States -> {0, 1}] /\ fresh' \subseteq States
  BY <1>1, TakeRests
<1>4. /\ Users(s)' = {<<r, 0>>, <<r, 1>>} /\ Recyclers(s)' = {}
      /\ \A t \in States \ {s} : /\ Users(t)' = Users(t)
                                 /\ Recyclers(t)' = Recyclers(t)
  BY <1>1, <1>2, <1>3, StartUsers DEF Resting
<1>5. <<r, 1>> \in Attempts
  BY AttemptsAssumption DEF Attempts
<1>6. TypeOK'
  <2>1. 1 \in 0..MaxAttempts /\ 2 \in Nat
    BY AttemptsAssumption
  <2>2. /\ pc' = [pc EXCEPT ![r] = "waiting"]
        /\ attempt' = [attempt EXCEPT ![<<r, 1>>] = "running"]
    BY <1>2 DEF Move, Proceed
  <2> QED BY <1>1, <1>2, <1>3, <1>5, <2>1, <2>2 DEF TypeOK, contexts
<1>7. OwnResult'
  BY <1>2 DEF OwnResult
<1>8. CountsUsers'
  <2>1. Cardinality({<<r, 0>>, <<r, 1>>}) = 2
    <3> DEFINE S == {<<r, 0>>}
               x == <<r, 1>>
    <3>1. IsFiniteSet(S) /\ Cardinality(S) = 1
      BY FS_Singleton
    <3>2. x \notin S
      OBVIOUS
    <3> HIDE DEF S, x
    <3>3. Cardinality(S \cup {x}) = 1 + 1
      BY <3>1, <3>2, FS_AddElement
    <3>4. S \cup {x} = {<<r, 0>>, <<r, 1>>}
      BY DEF S, x
    <3> QED BY <3>3, <3>4
  <2>2. active'[s] = 2 /\ \A t \in States \ {s} : active'[t] = active[t]
    BY <1>1 DEF TypeOK
  <2> QED BY <1>4, <2>1, <2>2 DEF CountsUsers
<1>9. FiredInv'
  <2>1. /\ pc'[r] = "waiting" /\ held'[r] = s /\ fired'[r] = 1
        /\ \A q \in Requests \ {r} : /\ pc'[q] = pc[q] /\ held'[q] = held[q]
                                     /\ fired'[q] = fired[q]
    BY <1>1, <1>2 DEF TypeOK, Move
  <2>2. \A b \in Attempts \ {<<r, 1>>} : attempt'[b] = attempt[b]
    BY <1>2, <1>5 DEF TypeOK, Proceed
  <2>3. \A i \in 1..MaxAttempts : attempt'[<<r, i>>] # "none" => i <= 1
    BY <1>2, <2>2 DEF FiredInv, Attempts
  <2>4. \A q \in Requests \ {r} : \A i \in 1..MaxAttempts :
          attempt'[<<q, i>>] = attempt[<<q, i>>]
    BY <2>2 DEF Attempts
  <2> QED BY <2>1, <2>3, <2>4 DEF FiredInv
<1>10. StateInv'
  <2>1. Engaged(s)'
    BY <1>2, <1>3, <1>4 DEF Engaged, Resting
  <2>2. \A t \in States \ {s} : Resting(t)' \/ Engaged(t)'
    BY <1>2, <1>3, <1>4 DEF StateInv, Resting, Engaged
  <2> QED BY <2>1, <2>2 DEF StateInv
<1>11. SendInv'
  BY <1>2, <1>5 DEF SendInv, TypeOK, Proceed
<1> QED BY <1>6, <1>7, <1>8, <1>9, <1>10, <1>11

LEMMA ReceiveStep ==
  ASSUME IInv, NEW r \in Requests, Receive(r) PROVE IInv'
<1> USE DEF IInv
<1>1. /\ pc[r] = "waiting" /\ chan[held[r]] # None
      /\ got' = [got EXCEPT ![r] = chan[held[r]]]
      /\ chan' = [chan EXCEPT ![held[r]] = None]
      /\ Move(r, "won")
      /\ UNCHANGED <<held, fired, contexts, attempts, active, pool>>
  BY DEF Receive
<1>2. held[r] \in States /\ chan[held[r]] \in Results
  BY <1>1, HeldState DEF TypeOK
<1>3. TypeOK'
  BY <1>1, <1>2 DEF TypeOK, Move, contexts, attempts, pool
<1>4. /\ <<r, 0>> \in Goroutines /\ StateOf(<<r, 0>>) = held[r]
      /\ Counts(<<r, 0>>)
      /\ \A h \in Goroutines : /\ Counts(h)' <=> Counts(h)
                               /\ Recycles(h)' <=> Recycles(h)
  BY <1>1, CoordinatorMoves DEF Using, attempts
<1>5. chan[held[r]].of[1] = r
  <2>1. <<r, 0>> \in Users(held[r])
    BY <1>4 DEF Users
  <2>2. Engaged(held[r])
    BY <1>2, <2>1 DEF StateInv, Resting
  <2> QED BY <1>1, <2>1, <2>2, CoordinatorForms DEF Engaged
<1>6. OwnResult'
  BY <1>1, <1>5 DEF OwnResult, TypeOK
<1>7. CountsUsers' /\ StateInv'
  <2>1. \A s : Users(s)' = Users(s) /\ Recyclers(s)' = Recyclers(s)
    BY <1>1, <1>4, NobodyMoves
  <2>2. \A s \in States : chan'[s] \in {chan[s], None}
    BY <1>1 DEF TypeOK
  <2> QED BY <1>1, <2>1, <2>2, StateStays
<1>8. FiredInv'
  <2>1. \A q \in Requests : pc'[q] = "idle" <=> pc[q] = "idle"
    BY <1>1 DEF Move, TypeOK
  <2> QED BY <1>1, <2>1, FiredStays DEF attempts
<1>9. SendInv'
  BY <1>1 DEF SendInv, attempts
<1> QED BY <1>3, <1>6, <1>7, <1>8, <1>9

LEMMA TimerFiresStep ==
  ASSUME IInv, NEW r \in Requests, TimerFires(r) PROVE IInv'
<1> USE DEF IInv
<1>1. /\ pc[r] = "waiting" /\ fired[r] < MaxAttempts
      /\ fired' = [fired EXCEPT ![r] = fired[r] + 1]
      /\ Proceed(<<r, fired[r] + 1>>, "running") /\ Join(held[r])
      /\ UNCHANGED <<pc, held, got, contexts, outcome, chan, pool>>
  BY DEF TimerFires, MayFire, Proceed, TypeOK
<1>2. fired[r] \in Nat /\ fired[r] + 1 \in 1..MaxAttempts /\ held[r] \in States
  BY <1>1, HeldState, AttemptsAssumption DEF TypeOK
<1>3. PICK s \in States : s = held[r]
  BY <1>2
<1>4. PICK i \in 1..MaxAttempts : i = fired[r] + 1
  BY <1>2
<1> DEFINE a == <<r, i>>
<1>5. a \in Attempts /\ attempt[a] = "none" /\ a[1] = r
  BY <1>2, <1>4 DEF FiredInv, Attempts
<1>6. Proceed(a, "running") /\ Join(s) /\ fired' = [fired EXCEPT ![r] = i]
  BY <1>1, <1>3, <1>4
<1>7. \A q \in Requests, j \in 1..MaxAttempts :
        <<q, j>> # a => <<q, j>> \in Attempts \ {a}
  BY DEF Attempts
<1>8. \A q \in Requests, j \in 1..MaxAttempts :
        <<q, j>> = a => q = r /\ j = i
  OBVIOUS
<1> HIDE DEF a
<1>9. TypeOK'
  <2>1. /\ i \in 0..MaxAttempts
        /\ attempt' = [attempt EXCEPT ![a] = "running"]
        /\ active' = [active EXCEPT ![s] = active[s] + 1]
    BY <1>6 DEF Proceed, Join, TypeOK
  <2>2. active[s] + 1 \in Nat
    BY DEF TypeOK
  <2> QED BY <1>1, <1>5, <1>6, <2>1, <2>2 DEF TypeOK, contexts, pool
<1>10. OwnResult'
  BY <1>1 DEF OwnResult
<1>11. CountsUsers' /\ StateInv'
  <2>1. /\ a \in Goroutines /\ StateOf(a) = s
        /\ ~Counts(a) /\ ~Recycles(a) /\ Counts(a)' /\ ~Recycles(a)'
        /\ \A h \in Goroutines \ {a} : /\ Counts(h)' <=> Counts(h)
                                       /\ Recycles(h)' <=> Recycles(h)
    BY <1>1, <1>3, <1>5, <1>6, AttemptMoves DEF Working
  <2>2. a \notin Users(s) /\ <<r, 0>> \in Users(s) /\ <<r, 0>>[1] = r
    BY <1>1, <1>3, <2>1, CoordinatorForms DEF Users, Counts, StateOf
  <2>3. /\ \A t : t # s => Users(t)' = Users(t) /\ Recyclers(t)' = Recyclers(t)
        /\ Users(s)' = Users(s) \cup {a}
        /\ Recyclers(s)' = Recyclers(s) \ {a}
    BY <1>1, <2>1, OneMoves
  <2> QED BY <1>1, <1>5, <1>6, <2>1, <2>2, <2>3, UserJoins
<1>12. FiredInv'
  <2>1. \A b \in Attempts \ {a} : attempt'[b] = attempt[b]
    BY <1>5, <1>6 DEF Proceed, TypeOK
  <2>2. \A q \in Requests : fired'[q] = IF q = r THEN i ELSE fired[q]
    BY <1>6 DEF TypeOK
  <2>3. ASSUME NEW q \in Requests, NEW j \in 1..MaxAttempts,
               attempt'[<<q, j>>] # "none"
        PROVE  j <= fired'[q]
    <3>1. CASE <<q, j>> = a
      BY <1>8, <2>2, <3>1
    <3>2. CASE <<q, j>> # a
      <4>1. j <= fired[q]
        BY <1>7, <2>1, <2>3, <3>2 DEF FiredInv
      <4> QED BY <1>2, <1>4, <2>2, <4>1
    <3> QED BY <3>1, <3>2
  <2> QED BY <1>1, <2>2, <2>3 DEF FiredInv
<1>13. SendInv'
  BY <1>1, <1>5, <1>6 DEF SendInv, TypeOK, Proceed
<1> QED BY <1>9, <1>10, <1>11, <1>12, <1>13

\* GiveUp, CancelLosers and Drain: the coordinator goes on as a user.
LEMMA UserGoesOn ==
  ASSUME IInv, NEW r \in Requests, NEW l \in Using, Move(r, l),
         pc[r] \in Using, cancelled' \in [Requests -> BOOLEAN],
         UNCHANGED <<held, fired, got, callerGone, attempts, active, pool>>,
         chan' \in {chan, [chan EXCEPT ![held[r]] = None]}
  PROVE  IInv'
<1> USE DEF IInv
<1>1. TypeOK'
  BY DEF TypeOK, Move, attempts, pool, Using
<1>2. OwnResult'
  BY DEF OwnResult
<1>3. CountsUsers' /\ StateInv'
  <2>1. \A h \in Goroutines : /\ Counts(h)' <=> Counts(h)
                              /\ Recycles(h)' <=> Recycles(h)
    BY CoordinatorMoves DEF Using, attempts
  <2>2. \A s : Users(s)' = Users(s) /\ Recyclers(s)' = Recyclers(s)
    BY <2>1, NobodyMoves
  <2>3. \A s \in States : chan'[s] \in {chan[s], None}
    BY DEF TypeOK
  <2> QED BY <2>2, <2>3, StateStays
<1>4. FiredInv'
  <2>1. \A q \in Requests : pc'[q] = "idle" <=> pc[q] = "idle"
    BY DEF Move, TypeOK, Using
  <2> QED BY <2>1, FiredStays DEF attempts
<1>5. SendInv'
  BY DEF SendInv, attempts
<1> QED BY <1>1, <1>2, <1>3, <1>4, <1>5

LEMMA CoordinatorLeavesStep ==
  ASSUME IInv, NEW r \in Requests, CoordinatorLeaves(r) PROVE IInv'
<1> USE DEF IInv
<1> DEFINE g == <<r, 0>>
           l == IF Last(held[r]) THEN "recycling" ELSE "returned"
<1>1. /\ pc[r] = "leaving" /\ Leave(held[r]) /\ Move(r, l)
      /\ UNCHANGED <<held, fired, got, contexts, attempts, chan, pool>>
  BY DEF CoordinatorLeaves
<1>2. PICK s \in States : s = held[r]
  BY <1>1, HeldState
<1>3. /\ g \in Goroutines /\ StateOf(g) = s /\ Counts(g) /\ ~Counts(g)'
      /\ Recycles(g)' <=> Last(s)
      /\ \A h \in Goroutines \ {g} : /\ Counts(h)' <=> Counts(h)
                                     /\ Recycles(h)' <=> Recycles(h)
  BY <1>1, <1>2, CoordinatorMoves DEF Using, attempts
<1> HIDE DEF g
<1>4. g \in Users(s)
  BY <1>3 DEF Users
<1>5. CountsUsers' /\ StateInv'
  <2>1. /\ \A t : t # s => Users(t)' = Users(t) /\ Recyclers(t)' = Recyclers(t)
        /\ Users(s)' = Users(s) \ {g}
        /\ Recyclers(s)' = IF Last(s) THEN Recyclers(s) \cup {g}
                                      ELSE Recyclers(s) \ {g}
    BY <1>1, <1>3, OneMoves
  <2> QED BY <1>1, <1>2, <1>4, <2>1, UserLeaves
<1>6. TypeOK'
  <2>1. active[s] \in Nat /\ active[s] > 0
    <3>1. active[s] = Cardinality(Users(s))
      BY <1>2 DEF CountsUsers
    <3> QED BY <1>4, <3>1, UsersFinite
  <2>2. active' \in [States -> Nat]
    BY <1>1, <1>2, <2>1 DEF Leave, TypeOK
  <2> QED BY <1>1, <2>2 DEF TypeOK, Move, contexts, attempts, pool
<1>7. OwnResult'
  BY <1>1 DEF OwnResult
<1>8. FiredInv'
  <2>1. \A q \in Requests : pc'[q] = "idle" <=> pc[q] = "idle"
    BY <1>1 DEF Move, TypeOK
  <2> QED BY <1>1, <2>1, FiredStays DEF attempts
<1>9. SendInv'
  BY <1>1 DEF SendInv, attempts
<1> QED BY <1>5, <1>6, <1>7, <1>8, <1>9

LEMMA CoordinatorRecyclesStep ==
  ASSUME IInv, NEW r \in Requests, CoordinatorRecycles(r) PROVE IInv'
<1> USE DEF IInv
<1> DEFINE g == <<r, 0>>
<1>1. /\ pc[r] = "recycling" /\ PutBack(held[r]) /\ Move(r, "returned")
      /\ UNCHANGED <<held, fired, got, contexts, attempts, active>>
  BY DEF CoordinatorRecycles
<1>2. PICK s \in States : s = held[r]
  BY <1>1, HeldState
<1>3. /\ g \in Goroutines /\ StateOf(g) = s
      /\ Recycles(g) /\ ~Counts(g)' /\ ~Recycles(g)'
      /\ \A h \in Goroutines \ {g} : /\ Counts(h)' <=> Counts(h)
                                     /\ Recycles(h)' <=> Recycles(h)
  BY <1>1, <1>2, CoordinatorMoves DEF Using, attempts
<1> HIDE DEF g
<1>4. g \in Recyclers(s)
  BY <1>3 DEF Recyclers
<1>5. CountsUsers' /\ StateInv' /\ pooled' \in [States -> {0, 1}]
  <2>1. /\ \A t : t # s => Users(t)' = Users(t) /\ Recyclers(t)' = Recyclers(t)
        /\ Users(s)' = Users(s) \ {g} /\ Recyclers(s)' = Recyclers(s) \ {g}
    BY <1>1, <1>3, OneMoves
  <2> QED BY <1>1, <1>2, <1>4, <2>1, PutBackRests
<1>6. TypeOK'
  BY <1>1, <1>5 DEF TypeOK, Move, contexts, attempts, PutBack
<1>7. OwnResult'
  BY <1>1 DEF OwnResult
<1>8. FiredInv'
  <2>1. \A q \in Requests : pc'[q] = "idle" <=> pc[q] = "idle"
    BY <1>1 DEF Move, TypeOK
  <2> QED BY <1>1, <2>1, FiredStays DEF attempts
<1>9. SendInv'
  BY <1>1 DEF SendInv, attempts
<1> QED BY <1>5, <1>6, <1>7, <1>8, <1>9

\* Finish and Send: the attempt goes on as a user.
LEMMA WorkerGoesOn ==
  ASSUME IInv, NEW a \in Attempts, NEW l \in Working, Proceed(a, l),
         attempt[a] \in Working,
         NEW o \in Outcomes \cup {None}, outcome' = [outcome EXCEPT ![a] = o],
         l = "sending" => o \in Outcomes,
         UNCHANGED <<coordinator, contexts, active, pool>>,
         \/ chan' = chan
         \/ \E w : /\ [of |-> a, what |-> w] \in Results
                   /\ chan' = [chan EXCEPT ![StateOf(a)] = [of |-> a, what |-> w]]
  PROVE  IInv'
<1> USE DEF IInv
<1>1. PICK s \in States : s = held[a[1]]
  BY HeldState DEF Working
<1>2. chan' \in [States -> Results \cup {None}]
  BY <1>1 DEF TypeOK, StateOf
<1>3. TypeOK'
  BY <1>2 DEF TypeOK, Proceed, coordinator, contexts, pool, Working
<1>4. OwnResult'
  BY DEF OwnResult, coordinator
<1>5. /\ a \in Goroutines /\ StateOf(a) = s /\ Counts(a)
      /\ \A h \in Goroutines : /\ Counts(h)' <=> Counts(h)
                               /\ Recycles(h)' <=> Recycles(h)
  BY <1>1, AttemptMoves DEF Working, coordinator
<1>6. CountsUsers' /\ StateInv'
  <2>1. \A t : Users(t)' = Users(t) /\ Recyclers(t)' = Recyclers(t)
    BY <1>5, NobodyMoves DEF coordinator
  <2>2. a \in Users(s)
    BY <1>5 DEF Users
  <2>3. \A t \in States : \/ chan'[t] \in {chan[t], None}
                          \/ \E g \in Users(t) : chan'[t].of[1] = g[1]
    <3> TAKE t \in States
    <3>1. CASE chan' = chan
      BY <3>1
    <3>2. ASSUME NEW w,
                 chan' = [chan EXCEPT ![StateOf(a)] = [of |-> a, what |-> w]]
          PROVE  chan'[t] = chan[t] \/ (t = s /\ chan'[t].of = a)
      BY <1>5, <3>2 DEF TypeOK
    <3> QED BY <2>2, <3>1, <3>2
  <2> QED BY <2>1, <2>3, StateStays
<1>7. FiredInv'
  <2>1. \A b \in Attempts : attempt'[b] # "none" => attempt[b] # "none"
    BY DEF Proceed, TypeOK, Working
  <2> QED BY <2>1, FiredStays DEF coordinator
<1>8. SendInv'
  BY DEF SendInv, TypeOK, Proceed
<1> QED BY <1>3, <1>4, <1>6, <1>7, <1>8

LEMMA FinishStep ==
  ASSUME IInv, NEW a \in Attempts, NEW o \in Outcomes, Finish(a, o) PROVE IInv'
<1>1. /\ "sending" \in Working /\ attempt[a] \in Working
      /\ o \in Outcomes \cup {None}
  BY DEF Finish, Working
<1> QED BY <1>1, WorkerGoesOn DEF Finish

LEMMA SendStep == ASSUME IInv, NEW a \in Attempts, Send(a) PROVE IInv'
<1>1. outcome[a] \in Outcomes
  BY DEF IInv, SendInv, Send
<1>2. /\ Proceed(a, "leaving") /\ attempt[a] \in Working
      /\ outcome' = [outcome EXCEPT ![a] = None]
      /\ UNCHANGED <<coordinator, contexts, active, pool>>
      /\ \/ chan' = chan
         \/ chan' = [chan EXCEPT ![StateOf(a)] = [of |-> a, what |-> outcome[a]]]
  BY DEF Send, Working
<1>3. "leaving" \in Working /\ None \in Outcomes \cup {None}
  BY DEF Working
<1>4. [of |-> a, what |-> outcome[a]] \in Results
  BY <1>1 DEF Results
<1>5. PICK w : w = outcome[a]
  OBVIOUS
<1> QED BY <1>2, <1>3, <1>4, <1>5, WorkerGoesOn

LEMMA AttemptLeavesStep ==
  ASSUME IInv, NEW a \in Attempts, AttemptLeaves(a) PROVE IInv'
<1> USE DEF IInv
<1> DEFINE l == IF Last(StateOf(a)) THEN "recycling" ELSE "gone"
<1>1. /\ attempt[a] = "leaving" /\ Leave(StateOf(a)) /\ Proceed(a, l)
      /\ UNCHANGED <<coordinator, contexts, outcome, chan, pool>>
  BY DEF AttemptLeaves
<1>2. PICK s \in States : s = held[a[1]]
  BY <1>1, HeldState
<1>3. /\ a \in Goroutines /\ StateOf(a) = s /\ Counts(a) /\ ~Counts(a)'
      /\ Recycles(a)' <=> Last(s)
      /\ \A h \in Goroutines \ {a} : /\ Counts(h)' <=> Counts(h)
                                     /\ Recycles(h)' <=> Recycles(h)
  <2>1. l \notin Working /\ (l = "recycling" <=> Last(StateOf(a)))
    BY DEF Working
  <2>2. attempt[a] \in Working
    BY <1>1 DEF Working
  <2> QED BY <1>1, <1>2, <2>1, <2>2, AttemptMoves DEF coordinator
<1>4. a \in Users(s)
  BY <1>3 DEF Users
<1>5. CountsUsers' /\ StateInv'
  <2>1. /\ \A t : t # s => Users(t)' = Users(t) /\ Recyclers(t)' = Recyclers(t)
        /\ Users(s)' = Users(s) \ {a}
        /\ Recyclers(s)' = IF Last(s) THEN Recyclers(s) \cup {a}
                                      ELSE Recyclers(s) \ {a}
    BY <1>1, <1>3, OneMoves DEF coordinator
  <2> QED BY <1>1, <1>2, <1>3, <1>4, <2>1, UserLeaves
<1>6. TypeOK'
  <2>1. active[s] \in Nat /\ active[s] > 0
    <3>1. active[s] = Cardinality(Users(s))
      BY <1>2 DEF CountsUsers
    <3> QED BY <1>4, <3>1, UsersFinite
  <2>2. active' \in [States -> Nat]
    BY <1>1, <1>3, <2>1 DEF Leave, TypeOK
  <2> QED BY <1>1, <2>2 DEF TypeOK, Proceed, contexts, coordinator, pool
<1>7. OwnResult'
  BY <1>1 DEF OwnResult, coordinator
<1>8. FiredInv' /\ SendInv'
  <2>1. \A b \in Attempts : /\ attempt'[b] # "none" => attempt[b] # "none"
                            /\ attempt'[b] = "sending" => attempt[b] = "sending"
    BY <1>1 DEF Proceed, TypeOK
  <2> QED BY <1>1, <2>1, FiredStays DEF coordinator, SendInv
<1> QED BY <1>5, <1>6, <1>7, <1>8

LEMMA AttemptRecyclesStep ==
  ASSUME IInv, NEW a \in Attempts, AttemptRecycles(a) PROVE IInv'
<1> USE DEF IInv
<1>1. /\ attempt[a] = "recycling" /\ PutBack(StateOf(a)) /\ Proceed(a, "gone")
      /\ UNCHANGED <<coordinator, contexts, outcome, active>>
  BY DEF AttemptRecycles
<1>2. PICK s \in States : s = held[a[1]]
  BY <1>1, HeldState
<1>3. /\ a \in Goroutines /\ StateOf(a) = s
      /\ Recycles(a) /\ ~Counts(a)' /\ ~Recycles(a)'
      /\ \A h \in Goroutines \ {a} : /\ Counts(h)' <=> Counts(h)
                                     /\ Recycles(h)' <=> Recycles(h)
  BY <1>1, <1>2, AttemptMoves DEF Working, coordinator
<1>4. a \in Recyclers(s)
  BY <1>3 DEF Recyclers
<1>5. CountsUsers' /\ StateInv' /\ pooled' \in [States -> {0, 1}]
  <2>1. /\ \A t : t # s => Users(t)' = Users(t) /\ Recyclers(t)' = Recyclers(t)
        /\ Users(s)' = Users(s) \ {a} /\ Recyclers(s)' = Recyclers(s) \ {a}
    BY <1>1, <1>3, OneMoves DEF coordinator
  <2> QED BY <1>1, <1>2, <1>3, <1>4, <2>1, PutBackRests
<1>6. TypeOK'
  BY <1>1, <1>5 DEF TypeOK, Proceed, contexts, coordinator, PutBack
<1>7. OwnResult'
  BY <1>1 DEF OwnResult, coordinator
<1>8. FiredInv' /\ SendInv'
  <2>1. \A b \in Attempts : /\ attempt'[b] # "none" => attempt[b] # "none"
                            /\ attempt'[b] = "sending" => attempt[b] = "sending"
    BY <1>1 DEF Proceed, TypeOK
  <2> QED BY <1>1, <2>1, FiredStays DEF coordinator, SendInv
<1> QED BY <1>5, <1>6, <1>7, <1>8

----------------------------------------------------------------------------
LEMMA CoordinateStep ==
  ASSUME IInv, NEW r \in Requests, Coordinate(r) PROVE IInv'
<1>1. CASE Receive(r)
  BY <1>1, ReceiveStep
<1>2. CASE TimerFires(r)
  BY <1>2, TimerFiresStep
<1>3. cancelled \in [Requests -> BOOLEAN]
  BY DEF IInv, TypeOK
<1>4. CASE GiveUp(r)
  <2>1. pc[r] \in Using /\ "gaveUp" \in Using
    BY <1>4 DEF GiveUp, Using
  <2> QED BY <1>3, <1>4, <2>1, UserGoesOn DEF GiveUp
<1>5. CASE Drain(r)
  <2>1. pc[r] \in Using /\ "leaving" \in Using
    BY <1>5 DEF Drain, Using
  <2> QED BY <1>3, <1>5, <2>1, UserGoesOn DEF Drain, contexts
<1>6. CASE CancelLosers(r)
  <2>1. pc[r] \in Using /\ "leaving" \in Using
    BY <1>6 DEF CancelLosers, Using
  <2> QED BY <1>3, <1>6, <2>1, UserGoesOn DEF CancelLosers
<1>7. CASE CoordinatorLeaves(r)
  BY <1>7, CoordinatorLeavesStep
<1>8. CASE CoordinatorRecycles(r)
  BY <1>8, CoordinatorRecyclesStep
<1> QED BY <1>1, <1>2, <1>4, <1>5, <1>6, <1>7, <1>8 DEF Coordinate

LEMMA CallerLeavesStep ==
  ASSUME IInv, NEW R, CallerLeaves(R) PROVE IInv'
<1> USE DEF IInv
<1>1. UNCHANGED <<coordinator, attempts, chan, active, pool>>
  BY DEF CallerLeaves
<1>2. TypeOK'
  BY <1>1 DEF TypeOK, CallerLeaves, coordinator, attempts, pool
<1>3. \A s : Users(s)' = Users(s) /\ Recyclers(s)' = Recyclers(s)
  BY <1>1 DEF Users, Recyclers, Counts, Recycles, StateOf, coordinator, attempts
<1>4. CountsUsers' /\ StateInv'
  BY <1>1, <1>3, StateStays
<1> QED BY <1>1, <1>2, <1>4
        DEF OwnResult, FiredInv, SendInv, coordinator, attempts

LEMMA NextIInv == ASSUME IInv, [Next]_vars PROVE IInv'
<1>1. ASSUME NEW r \in Requests, Start(r) \/ Coordinate(r) \/ CallerLeaves({r})
      PROVE  IInv'
  BY <1>1, StartStep, CoordinateStep, CallerLeavesStep
<1>2. ASSUME NEW a \in Attempts, Report(a) PROVE IInv'
  BY <1>2, SendStep, AttemptLeavesStep, AttemptRecyclesStep DEF Report
<1>3. ASSUME NEW a \in Attempts, NEW o \in Outcomes, Finish(a, o) PROVE IInv'
  BY <1>3, FinishStep
<1>4. CASE UNCHANGED vars
  <2>1. \A s : Users(s)' = Users(s) /\ Recyclers(s)' = Recyclers(s)
    BY <1>4 DEF vars, Users, Recyclers, Counts, Recycles, StateOf, coordinator,
                attempts
  <2>2. CountsUsers' /\ StateInv'
    BY <1>4, <2>1, StateStays DEF vars
  <2> QED BY <1>4, <2>2 DEF vars, IInv, TypeOK, OwnResult, FiredInv, SendInv,
                            coordinator, contexts, attempts, pool
<1> QED BY <1>1, <1>2, <1>3, <1>4 DEF Next

----------------------------------------------------------------------------
(* What follows for every behaviour.                                        *)

LEMMA Invariance == Spec => []IInv
BY InitIInv, NextIInv, PTL DEF Spec

\* Every variable keeps its type; in particular no state is pooled twice.
THEOREM TypeCorrect == Spec => []TypeOK
<1>1. IInv => TypeOK
  BY DEF IInv
<1> QED BY <1>1, Invariance, PTL

\* No request returns a result of another one, however often the state they
\* meet in is recycled and however late a loser reports (l.129, l.212).
THEOREM ResultsAreOwn == Spec => []OwnResult
<1>1. IInv => OwnResult
  BY DEF IInv
<1> QED BY <1>1, Invariance, PTL

\* The reference count of a state is the number of goroutines that may still
\* touch it (l.100, l.138, l.171, l.215).
THEOREM CountIsExact == Spec => []CountsUsers
<1>1. IInv => CountsUsers
  BY DEF IInv
<1> QED BY <1>1, Invariance, PTL

\* A state in the pool is in it once, unused, with an empty channel (l.222).
THEOREM PoolIsClean == Spec => []PooledClean
<1>1. IInv => PooledClean
  BY DEF IInv, StateInv, Resting, Engaged, PooledClean
<1> QED BY <1>1, Invariance, PTL

\* A state that nobody uses is in the pool or has exactly one goroutine about
\* to put it there, whichever way the request ended.
THEOREM StatesReturn == Spec => []NothingLeaks
<1>1. IInv => NothingLeaks
  <2> SUFFICES ASSUME IInv, NEW s \in States \ fresh, Users(s) = {}
               PROVE  pooled[s] + Cardinality(Recyclers(s)) = 1
    BY DEF NothingLeaks
  <2>1. CASE Resting(s)
    <3>1. pooled[s] = 1 /\ Cardinality(Recyclers(s)) = 0
      BY <2>1, FS_EmptySet DEF Resting
    <3> QED BY <3>1
  <2>2. CASE Engaged(s)
    <3>1. PICK g : Recyclers(s) = {g}
      BY <2>2 DEF Engaged
    <3>2. Cardinality(Recyclers(s)) = 1
      BY <3>1, FS_Singleton
    <3> QED BY <2>2, <3>2 DEF Engaged
  <2> QED BY <2>1, <2>2 DEF IInv, StateInv
<1> QED BY <1>1, Invariance, PTL

\* The first result wins (l.96): what is in the channel of a waiting coordinator
\* stays there until it is received. Whoever else could empty it, by draining or
\* recycling, would be a second request in the state or the last one in it.
THEOREM FirstWins == Spec => FirstResultWins
<1>1. ASSUME IInv, Next, NEW r \in Requests, pc[r] = "waiting",
             chan[held[r]] # None
      PROVE  chan[held[r]] \in {chan'[held[r]], got'[r]}
  <2>1. PICK s \in States : s = held[r]
    BY <1>1, HeldState
  <2>2. chan \in [States -> Results \cup {None}] /\ got \in [Requests -> Results \cup {None}]
    BY <1>1 DEF IInv, TypeOK
  <2>3. <<r, 0>> \in Users(s)
    BY <1>1, <2>1, CoordinatorForms DEF Users, Counts, StateOf
  <2>4. Engaged(s) /\ Recyclers(s) = {}
    BY <1>1, <2>3 DEF IInv, StateInv, Resting, Engaged
  <2>5. ASSUME NEW q \in Requests, Coordinate(q), chan' # chan
        PROVE  q = r \/ held[q] # s
    <3>1. pc[q] \in Using \cup {"recycling"}
      BY <2>5 DEF Coordinate, Receive, TimerFires, GiveUp, Drain, CancelLosers,
                  CoordinatorLeaves, CoordinatorRecycles, Using
    <3>2. held[q] = s => <<q, 0>> \in Users(s) \cup Recyclers(s)
      BY <3>1, CoordinatorForms DEF Users, Recyclers, Counts, Recycles, StateOf,
                                    Using
    <3>3. <<q, 0>>[1] = q /\ <<r, 0>>[1] = r
      OBVIOUS
    <3> QED BY <2>3, <2>4, <3>2, <3>3 DEF Engaged
  <2>6. ASSUME NEW q \in Requests, Coordinate(q), chan' # chan
        PROVE  chan[s] \in {chan'[s], got'[r]}
    <3>1. CASE Receive(q)
      <4>1. q = r => got'[r] = chan[s]
        BY <2>1, <2>2, <3>1 DEF Receive
      <4>2. held[q] # s => chan'[s] = chan[s]
        BY <2>2, <3>1 DEF Receive
      <4> QED BY <2>5, <2>6, <4>1, <4>2
    <3>2. CASE Drain(q)
      <4>1. q # r
        BY <1>1, <3>2 DEF Drain
      <4>2. held[q] # s => chan'[s] = chan[s]
        BY <2>2, <3>2 DEF Drain
      <4> QED BY <2>5, <2>6, <4>1, <4>2
    <3>3. CASE CoordinatorRecycles(q)
      <4>1. q # r
        BY <1>1, <3>3 DEF CoordinatorRecycles
      <4>2. held[q] # s => chan'[s] = chan[s]
        BY <2>2, <3>3 DEF CoordinatorRecycles, PutBack
      <4> QED BY <2>5, <2>6, <4>1, <4>2
    <3> QED BY <2>6, <3>1, <3>2, <3>3
            DEF Coordinate, TimerFires, GiveUp, CancelLosers, CoordinatorLeaves
  <2>7. ASSUME NEW a \in Attempts, Report(a) PROVE chan'[s] = chan[s]
    <3>1. CASE Send(a)
      BY <1>1, <2>1, <2>2, <3>1 DEF Send, Full
    <3>2. CASE AttemptLeaves(a)
      BY <3>2 DEF AttemptLeaves
    <3>3. CASE AttemptRecycles(a)
      <4>1. a \in Goroutines /\ Recycles(a)
        BY <3>3, AttemptForms DEF AttemptRecycles, Recycles
      <4>2. StateOf(a) # s
        BY <2>4, <4>1 DEF Recyclers
      <4> QED BY <2>2, <3>3, <4>2 DEF AttemptRecycles, PutBack
    <3> QED BY <2>7, <3>1, <3>2, <3>3 DEF Report
  <2>8. CASE chan' = chan
    BY <2>8, <2>1
  <2>9. CASE chan' # chan
    <3>1. \/ \E q \in Requests : Coordinate(q)
          \/ \E a \in Attempts : Report(a)
      BY <1>1, <2>9 DEF Next, Start, CallerLeaves, Finish
    <3>2. chan[s] \in {chan'[s], got'[r]}
      BY <2>6, <2>7, <2>9, <3>1
    <3>3. s = held[r]
      BY <2>1
    <3> QED BY <3>2, <3>3
  <2> QED BY <2>8, <2>9
<1>2. IInv /\ [Next]_vars =>
        [\A r \in Requests :
           pc[r] = "waiting" /\ chan[held[r]] # None =>
             chan[held[r]] \in {chan'[held[r]], got'[r]}]_vars
  BY <1>1
<1> QED BY <1>2, Invariance, PTL DEF Spec, FirstResultWins
----------------------------------------------------------------------------
(* Refinement.                                                              *)

\* A waiting coordinator shares its state with its own attempts only: nobody else
\* has a hand in the channel.
LEMMA WaiterAlone ==
  ASSUME IInv, NEW r \in Requests, pc[r] = "waiting"
  PROVE  /\ held[r] \in States
         /\ \A q \in Requests :
              pc[q] \in Using \cup {"recycling"} /\ held[q] = held[r] => q = r
         /\ \A a \in Attempts :
              /\ attempt[a] \in Working /\ StateOf(a) = held[r] => a[1] = r
              /\ attempt[a] = "recycling" => StateOf(a) # held[r]
<1>1. PICK s \in States : s = held[r]
  BY HeldState
<1>2. <<r, 0>> \in Users(s)
  BY <1>1, CoordinatorForms DEF Users, Counts, StateOf
<1>3. Engaged(s) /\ Recyclers(s) = {}
  BY <1>2 DEF IInv, StateInv, Resting, Engaged
<1>4. \A g \in Users(s) : g[1] = r
  BY <1>2, <1>3 DEF Engaged
<1>5. ASSUME NEW q \in Requests, pc[q] \in Using \cup {"recycling"}, held[q] = s
      PROVE  q = r
  <2>1. <<q, 0>> \in Users(s) \cup Recyclers(s)
    BY <1>5, CoordinatorForms DEF Users, Recyclers, Counts, Recycles, StateOf,
                                  Using
  <2> QED BY <1>3, <1>4, <2>1
<1>6. ASSUME NEW a \in Attempts, StateOf(a) = s
      PROVE  attempt[a] # "recycling" /\ (attempt[a] \in Working => a[1] = r)
  BY <1>3, <1>4, <1>6, AttemptForms
     DEF Users, Recyclers, Counts, Recycles, Working
<1> QED BY <1>1, <1>5, <1>6

\* A request has no answer before it stops waiting, and from its start on it has
\* fired an attempt.
RaceInv == \A r \in Requests : /\ pc[r] \in {"idle", "waiting"} => got[r] = None
                               /\ pc[r] # "idle" => fired[r] > 0

LEMMA RaceInvariance == Spec => []RaceInv
<1>1. Init => RaceInv
  BY DEF Init, RaceInv
<1>2. ASSUME IInv, RaceInv, [Next]_vars PROVE RaceInv'
  <2>1. TypeOK
    BY <1>2 DEF IInv
  <2>2. ASSUME NEW q \in Requests, Start(q) \/ Coordinate(q) PROVE RaceInv'
    <3>1. CASE Start(q)
      BY <1>2, <2>1, <3>1 DEF TypeOK, RaceInv, Start, Move
    <3>2. CASE Receive(q)
      BY <1>2, <2>1, <3>2 DEF TypeOK, RaceInv, Receive, Move
    <3>3. CASE TimerFires(q)
      BY <1>2, <2>1, <3>3, AttemptsAssumption DEF TypeOK, RaceInv, TimerFires
    <3>4. CASE \/ GiveUp(q) \/ Drain(q) \/ CancelLosers(q)
               \/ CoordinatorLeaves(q) \/ CoordinatorRecycles(q)
      <4>1. /\ pc[q] # "idle" /\ UNCHANGED <<fired, got>>
            /\ \E l \in {"gaveUp", "leaving", "recycling", "returned"} :
                 pc' = [pc EXCEPT ![q] = l]
        BY <3>4 DEF GiveUp, Drain, CancelLosers, CoordinatorLeaves,
                    CoordinatorRecycles, Move
      <4> QED BY <1>2, <2>1, <4>1 DEF TypeOK, RaceInv
    <3> QED BY <2>2, <3>1, <3>2, <3>3, <3>4 DEF Coordinate
  <2>3. ASSUME UNCHANGED <<pc, fired, got>> PROVE RaceInv'
    BY <1>2, <2>3 DEF RaceInv
  <2>4. \/ \E q \in Requests : Start(q) \/ Coordinate(q)
        \/ UNCHANGED <<pc, fired, got>>
    BY <1>2 DEF Next, CallerLeaves, Report, Send, AttemptLeaves,
                AttemptRecycles, Finish, vars, coordinator
  <2> QED BY <2>2, <2>3, <2>4
<1> QED BY <1>1, <1>2, Invariance, PTL DEF Spec

\* A step that moves no phase and no racer is none of Race's, unless it touches
\* the channel of somebody who waits.
LEMMA RaceStays ==
  ASSUME UNCHANGED <<held, got>>,
         \A r \in Requests : pc[r] = "waiting" =>
                               chan'[held[r]] = chan[held[r]],
         \A r \in Requests : PhaseOf(r)' = PhaseOf(r),
         \A a \in Attempts : RacerOf(a)' = RacerOf(a)
  PROVE  UNCHANGED Abstract!raceVars
<1>1. \A r \in Requests : /\ PhaseOf(r) = "waiting" <=> pc[r] = "waiting"
                          /\ PhaseOf(r)' = "waiting" <=> pc'[r] = "waiting"
  BY DEF PhaseOf
<1>2. \A r \in Requests : WonBy(r)' = WonBy(r)
  BY <1>1 DEF WonBy
<1> QED BY <1>2 DEF Abstract!raceVars

\* Start is Ask: the state it takes has an empty channel.
LEMMA StartAsks ==
  ASSUME IInv, RaceInv, NEW r \in Requests, Start(r)
  PROVE  Abstract!Ask(r)
<1> USE DEF IInv, TypeOK
<1>1. PICK s \in States : Take(s) /\ held' = [held EXCEPT ![r] = s]
  BY DEF Start
<1>2. /\ pc[r] = "idle" /\ pc' = [pc EXCEPT ![r] = "waiting"]
      /\ attempt' = [attempt EXCEPT ![<<r, 1>>] = "running"]
      /\ UNCHANGED <<got, chan>>
  BY DEF Start, Move
<1>3. chan[s] = None /\ got[r] = None
  BY <1>1, <1>2, TakeRests DEF Resting, RaceInv
<1>4. <<r, 1>> \in Attempts /\ attempt[<<r, 1>>] = "none"
  BY <1>2, AttemptsAssumption DEF Attempts, FiredInv
<1>5. [q \in Requests |-> PhaseOf(q)']
        = [[q \in Requests |-> PhaseOf(q)] EXCEPT ![r] = "waiting"]
  BY <1>2 DEF PhaseOf
<1>6. [a \in Attempts |-> RacerOf(a)']
        = [[a \in Attempts |-> RacerOf(a)] EXCEPT ![<<r, 1>>] = "running"]
  BY <1>2, <1>4 DEF RacerOf
<1>7. \A q \in Requests : WonBy(q)' = WonBy(q)
  BY <1>1, <1>2, <1>3 DEF WonBy
<1>8. PhaseOf(r) = "idle" /\ RacerOf(<<r, 1>>) = "none"
  BY <1>2, <1>4 DEF PhaseOf, RacerOf
<1> QED BY <1>4, <1>5, <1>6, <1>7, <1>8 DEF Abstract!Ask, Abstract!Launch

\* TimerFires is Hedge: the attempt it fires is the next one.
LEMMA TimerFiresHedges ==
  ASSUME IInv, RaceInv, NEW r \in Requests, TimerFires(r)
  PROVE  Abstract!Hedge(r)
<1> USE DEF IInv, TypeOK
<1>1. /\ pc[r] = "waiting" /\ fired[r] < MaxAttempts
      /\ attempt' = [attempt EXCEPT ![<<r, fired[r] + 1>>] = "running"]
      /\ UNCHANGED <<pc, held, got, chan>>
  BY DEF TimerFires, MayFire
<1>2. fired[r] \in 1..MaxAttempts
  BY <1>1, AttemptsAssumption DEF RaceInv
<1> DEFINE a == <<r, fired[r] + 1>>
<1>3. a \in Attempts /\ attempt[a] = "none" /\ fired[r] + 1 \in 2..MaxAttempts
  BY <1>1, <1>2, AttemptsAssumption DEF Attempts, FiredInv
<1>4. [b \in Attempts |-> RacerOf(b)']
        = [[b \in Attempts |-> RacerOf(b)] EXCEPT ![a] = "running"]
  BY <1>1, <1>3 DEF RacerOf
<1>5. \A q \in Requests : PhaseOf(q)' = PhaseOf(q) /\ WonBy(q)' = WonBy(q)
  BY <1>1 DEF PhaseOf, WonBy
<1>6. PhaseOf(r) = "waiting" /\ RacerOf(a) = "none"
  BY <1>1, <1>3 DEF PhaseOf, RacerOf
<1> QED BY <1>3, <1>4, <1>5, <1>6 DEF Abstract!Hedge, Abstract!Launch

\* Receive is Answer.
LEMMA ReceiveAnswers ==
  ASSUME IInv, NEW r \in Requests, Receive(r)
  PROVE  Abstract!Answer(r)
<1> USE DEF IInv, TypeOK
<1>1. /\ pc[r] = "waiting" /\ chan[held[r]] # None
      /\ got' = [got EXCEPT ![r] = chan[held[r]]]
      /\ chan' = [chan EXCEPT ![held[r]] = None]
      /\ pc' = [pc EXCEPT ![r] = "won"]
      /\ UNCHANGED <<held, attempt>>
  BY DEF Receive, Move, attempts
<1>2. held[r] \in States
  BY <1>1, HeldState
<1>3. [q \in Requests |-> PhaseOf(q)']
        = [[q \in Requests |-> PhaseOf(q)] EXCEPT ![r] = "answered"]
  BY <1>1 DEF PhaseOf
<1>4. \A q \in Requests : WonBy(q)' = WonBy(q)
  <2>1. \A q \in Requests : q # r /\ pc[q] = "waiting" => held[q] # held[r]
    BY <1>1, WaiterAlone DEF Using
  <2> QED BY <1>1, <1>2, <2>1 DEF WonBy
<1>5. \A a \in Attempts : RacerOf(a)' = RacerOf(a)
  BY <1>1 DEF RacerOf
<1>6. PhaseOf(r) = "waiting" /\ WonBy(r) # None
  BY <1>1 DEF PhaseOf, WonBy
<1> QED BY <1>3, <1>4, <1>5, <1>6 DEF Abstract!Answer

\* GiveUp is Abandon.
LEMMA GiveUpAbandons ==
  ASSUME IInv, RaceInv, NEW r \in Requests, GiveUp(r)
  PROVE  Abstract!Abandon(r)
<1> USE DEF IInv, TypeOK
<1>1. /\ pc[r] = "waiting" /\ pc' = [pc EXCEPT ![r] = "gaveUp"]
      /\ UNCHANGED <<held, got, chan, attempt>>
  BY DEF GiveUp, Move, attempts
<1>2. got[r] = None
  BY <1>1 DEF RaceInv
<1>3. [q \in Requests |-> PhaseOf(q)']
        = [[q \in Requests |-> PhaseOf(q)] EXCEPT ![r] = "abandoned"]
  BY <1>1, <1>2 DEF PhaseOf
<1>4. [q \in Requests |-> WonBy(q)']
        = [[q \in Requests |-> WonBy(q)] EXCEPT ![r] = None]
  BY <1>1, <1>2 DEF WonBy
<1>5. \A a \in Attempts : RacerOf(a)' = RacerOf(a)
  BY <1>1 DEF RacerOf
<1>6. PhaseOf(r) = "waiting"
  BY <1>1 DEF PhaseOf
<1> QED BY <1>3, <1>4, <1>5, <1>6 DEF Abstract!Abandon

\* Send is Report: of those who wait it reaches its own request only, and a full
\* channel means that this request has its first result.
LEMMA SendReports ==
  ASSUME IInv, NEW a \in Attempts, Send(a)
  PROVE  Abstract!Report(a, outcome[a]) /\ outcome[a] \in Outcomes
<1> USE DEF IInv, TypeOK
<1> DEFINE s == StateOf(a)
           result == [of |-> a, what |-> outcome[a]]
<1>1. /\ attempt[a] = "sending"
      /\ chan' = IF chan[s] # None THEN chan ELSE [chan EXCEPT ![s] = result]
      /\ attempt' = [attempt EXCEPT ![a] = "leaving"]
      /\ UNCHANGED <<pc, held, got>>
  BY DEF Send, Proceed, Full, coordinator
<1>2. a[1] \in Requests /\ a[2] \in 1..MaxAttempts /\ a = <<a[1], a[2]>>
  BY AttemptForms
<1>3. s \in States
  BY <1>1, HeldState DEF StateOf
<1>4. [b \in Attempts |-> RacerOf(b)']
        = [[b \in Attempts |-> RacerOf(b)] EXCEPT ![a] = "over"]
  BY <1>1 DEF RacerOf
<1>5. \A q \in Requests : PhaseOf(q)' = PhaseOf(q)
  BY <1>1 DEF PhaseOf
<1>6. \A q \in Requests : PhaseOf(q) = "waiting" <=> pc[q] = "waiting"
  BY DEF PhaseOf
<1>7. \A q \in Requests : pc[q] = "waiting" /\ held[q] = s => q = a[1]
  BY <1>1, WaiterAlone DEF Working
<1>8. \A q \in Requests :
        WonBy(q)' = IF q = a[1] /\ pc[q] = "waiting" /\ WonBy(q) = None
                      THEN result ELSE WonBy(q)
  BY <1>1, <1>2, <1>3, <1>7 DEF WonBy, StateOf
<1>9. [q \in Requests |-> WonBy(q)']
        = IF PhaseOf(a[1]) = "waiting" /\ WonBy(a[1]) = None
            THEN [[q \in Requests |-> WonBy(q)] EXCEPT ![a[1]] = result]
            ELSE [q \in Requests |-> WonBy(q)]
  BY <1>2, <1>6, <1>8
<1>10. RacerOf(a) = "running" /\ outcome[a] \in Outcomes
  BY <1>1 DEF RacerOf, SendInv
<1> QED BY <1>2, <1>4, <1>5, <1>9, <1>10 DEF Abstract!Report

\* Nothing else a coordinator does is visible.
LEMMA CoordinatorHidden ==
  ASSUME IInv, NEW r \in Requests,
         \/ Drain(r) \/ CancelLosers(r) \/ CoordinatorLeaves(r)
         \/ CoordinatorRecycles(r)
  PROVE  UNCHANGED Abstract!raceVars
<1> USE DEF IInv, TypeOK
<1>1. /\ pc[r] \in (Using \ {"waiting"}) \cup {"recycling"}
      /\ \/ chan' = chan
         \/ chan' = [chan EXCEPT ![held[r]] = None]
      /\ \E l \in {"leaving", "recycling", "returned"} :
           pc' = [pc EXCEPT ![r] = l]
      /\ UNCHANGED <<held, got, attempt>>
  BY DEF Drain, CancelLosers, CoordinatorLeaves, CoordinatorRecycles, PutBack,
         Move, attempts, Using
<1>2. held[r] \in States /\ pc[r] \notin {"idle", "waiting"}
  BY <1>1, HeldState DEF Using
<1>3. \A q \in Requests :
        pc[q] = "waiting" => held[q] \in States /\ held[q] # held[r]
  BY <1>1, WaiterAlone
<1>4. \A q \in Requests : pc[q] = "waiting" => chan'[held[q]] = chan[held[q]]
  BY <1>1, <1>2, <1>3
<1>5. \A q \in Requests : PhaseOf(q)' = PhaseOf(q)
  BY <1>1, <1>2 DEF PhaseOf
<1>6. \A a \in Attempts : RacerOf(a)' = RacerOf(a)
  BY <1>1 DEF RacerOf
<1> QED BY <1>1, <1>4, <1>5, <1>6, RaceStays

\* Nor is what an attempt does but for its report.
LEMMA AttemptHidden ==
  ASSUME IInv, NEW a \in Attempts,
         \/ \E o \in Outcomes : Finish(a, o)
         \/ AttemptLeaves(a) \/ AttemptRecycles(a)
  PROVE  UNCHANGED Abstract!raceVars
<1> USE DEF IInv, TypeOK
<1>1. /\ UNCHANGED <<pc, held, got>>
      /\ \/ /\ attempt[a] = "running"
            /\ attempt' = [attempt EXCEPT ![a] = "sending"]
         \/ /\ attempt[a] \in {"leaving", "recycling"}
            /\ \E l \in {"recycling", "gone"} :
                 attempt' = [attempt EXCEPT ![a] = l]
      /\ \/ chan' = chan
         \/ /\ attempt[a] = "recycling"
            /\ chan' = [chan EXCEPT ![StateOf(a)] = None]
  BY DEF Finish, AttemptLeaves, AttemptRecycles, PutBack, Proceed, coordinator
<1>2. \A q \in Requests : pc[q] = "waiting" => held[q] \in States
  BY WaiterAlone
<1>3. \A q \in Requests : pc[q] = "waiting" => chan'[held[q]] = chan[held[q]]
  BY <1>1, <1>2, WaiterAlone
<1>4. \A q \in Requests : PhaseOf(q)' = PhaseOf(q)
  BY <1>1 DEF PhaseOf
<1>5. \A b \in Attempts : RacerOf(b)' = RacerOf(b)
  BY <1>1 DEF RacerOf
<1> QED BY <1>1, <1>3, <1>4, <1>5, RaceStays

LEMMA RaceStep ==
  ASSUME IInv, RaceInv, [Next]_vars
  PROVE  [Abstract!Next]_(Abstract!raceVars)
<1>1. ASSUME NEW r \in Requests, Start(r) \/ Coordinate(r)
      PROVE  Abstract!Next \/ UNCHANGED Abstract!raceVars
  BY <1>1, StartAsks, TimerFiresHedges, ReceiveAnswers, GiveUpAbandons,
     CoordinatorHidden DEF Coordinate, Abstract!Next
<1>2. ASSUME NEW a \in Attempts, Report(a) \/ \E o \in Outcomes : Finish(a, o)
      PROVE  Abstract!Next \/ UNCHANGED Abstract!raceVars
  <2>1. a \in Abstract!Attempts
    BY DEF Attempts, Abstract!Attempts
  <2> QED BY <1>2, <2>1, SendReports, AttemptHidden
          DEF Report, Abstract!Next
<1>3. ASSUME \/ UNCHANGED vars
             \/ \E r \in Requests : CallerLeaves({r})
      PROVE  UNCHANGED Abstract!raceVars
  <2>1. UNCHANGED <<pc, held, got, chan, attempt>>
    BY <1>3 DEF CallerLeaves, vars, coordinator, attempts
  <2>2. /\ \A r \in Requests : PhaseOf(r)' = PhaseOf(r)
        /\ \A a \in Attempts : RacerOf(a)' = RacerOf(a)
    BY <2>1 DEF PhaseOf, RacerOf
  <2> QED BY <2>1, <2>2, RaceStays
<1> QED BY <1>1, <1>2, <1>3 DEF Next

\* The hedge implements Race: from outside, the channel that waits, the reference
\* count and the pool of states cannot be told from a private race per request.
THEOREM ImplementsRace == Spec => RaceSpec
<1>1. Init => Abstract!Init
  BY DEF Init, Abstract!Init, Abstract!Attempts, Attempts, PhaseOf, RacerOf,
         WonBy
<1>2. IInv /\ RaceInv /\ [Next]_vars => [Abstract!Next]_(Abstract!raceVars)
  BY RaceStep
<1> QED BY <1>1, <1>2, Invariance, RaceInvariance, PTL
        DEF Spec, RaceSpec, Abstract!Spec
=============================================================================
