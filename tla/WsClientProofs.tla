--------------------------- MODULE WsClientProofs ---------------------------
(***************************************************************************)
(* WsClient for any number of requests and attempts: who may still use or   *)
(* close a connection, and what follows from it.                            *)
(***************************************************************************)
EXTENDS WsClient, TLAPS

\* The dials of r have not begun.
Calm(r) == \A i \in 1..MaxAttempts : attempt[<<r, i>>] = "none"

\* What a request has in hand where it is.
StageInv(r) ==
  /\ stage[r] = "dialling" <=> phase[r] = "waiting"
  /\ stage[r] = "idle" => phase[r] = "idle"
  /\ phase[r] = "idle" => Calm(r)
  /\ chan[r] # None => phase[r] = "waiting" \/ Dialling(r)
  /\ mine[r] # None
       <=> stage[r] \in {"writing", "reading", "failed", "timedOut"}
  /\ given[r] # None => /\ stage[r] \notin {"idle", "dialling", "returned"}
                        /\ \/ given[r] = Own(r)
                           \/ /\ phase[r] = "returned"
                              /\ given[r] \in Attempts /\ given[r][1] = r

StagesInv == \A r \in Requests : StageInv(r)

\* Whoever calls the Connector has the lock, and there is no connection yet.
LockInv ==
  \A r \in Requests : /\ stage[r] = "connecting" <=> mu = r
                      /\ mu = r => conn = None /\ given[r] = None

\* Somebody holds a handle of c.
Handled(c) == conn = c \/ \E r \in Requests : mine[r] = c \/ given[r] = c

\* A connection is opened once, and nobody has a handle of it before.
UnbornInv ==
  /\ \A c \in Conns : sock[c] = "none" => ~Handled(c)
  /\ \A a \in Attempts : attempt[a] # "gone" => sock[a] = "none"
  /\ \A r \in Requests :
       /\ stage[r] = "idle" => sock[Own(r)] = "none"
       /\ r \notin retried => sock[<<r, -1>>] = "none"
       /\ stage[r] \in {"idle", "dialling", "entering", "connecting"}
            => sock[New(r)] = "none"

\* On its way from the dial to the handler, in the channel or with its request.
Waits(c)   == chan[c[1]] = {c}
Carried(c) == given[c[1]] = c /\ stage[c[1]] = "entering"

\* Until it arrives a dialled connection is nobody else's, and alive.
TransitInv ==
  \A c \in Attempts :
    /\ Waits(c) \/ Carried(c) => /\ sock[c] = "open" /\ conn # c
                                 /\ \A r \in Requests : mine[r] # c
    /\ Waits(c) => given[c[1]] # c

\* Accounted, without the references that others imply.
AccountInv ==
  \A c \in Unclosed :
    \/ conn = c \/ c \in {Own(r) : r \in Requests}
    \/ c \in Attempts /\ (Waits(c) \/ Carried(c) \/ c \in drained \cup ignored)

\* mingled knows of everybody who may touch the deadline of a connection that
\* another one uses.
SharedInv ==
  \A r, q \in Requests :
    /\ r # q /\ mine[r] # None
    /\ mine[q] = mine[r] \/ mine[r] \in CallersConn(q)
    => r \in mingled /\ q \in mingled

\* The safety half of Returns: a request that waits for an answer has a deadline
\* that nobody has cleared, or its connection is broken and its read will say
\* so, unless it shared the connection.
ReadersTimed ==
  \A r \in Requests :
    stage[r] = "reading" => \/ mine[r] \in deadline \/ sock[mine[r]] # "open"
                            \/ r \in mingled

IInv == /\ TypeOK /\ StagesInv /\ LockInv /\ UnbornInv /\ TransitInv
        /\ AccountInv /\ OneConnection /\ NoDeadHandle
        /\ SharedInv /\ ReadersTimed

----------------------------------------------------------------------------
(* Names of connections.                                                    *)

LEMMA DialledNames ==
  ASSUME NEW a \in Attempts
  PROVE  /\ a \in Conns /\ a[1] \in Requests /\ a[2] \in 1..MaxAttempts
         /\ a = <<a[1], a[2]>>
         /\ \A r \in Requests : a # Own(r) /\ a # New(r) /\ a # <<r, -1>>
BY AttemptsAssumption DEF Attempts, Conns, Own, New

LEMMA OtherNames ==
  ASSUME NEW r \in Requests
  PROVE  /\ Own(r) \in Conns /\ New(r) \in Conns /\ <<r, -1>> \in Conns
         /\ Own(r)[1] = r
         /\ \A q \in Requests :
              /\ Own(r) # New(q) /\ Own(r) # <<q, -1>>
              /\ r # q => /\ Own(r) # Own(q) /\ New(r) # New(q)
                          /\ New(r) # <<q, -1>> /\ <<r, -1>> # <<q, -1>>
         /\ \A i \in 1..MaxAttempts : <<r, i>> \in Attempts
BY AttemptsAssumption DEF Attempts, Conns, Own, New

LEMMA NoneIsNone ==
  /\ \A c \in Conns : c # None
  /\ \A r \in Requests : r # None /\ None # {}
  /\ \A a \in Attempts : None # {a}
<1>1. \A r \in Requests, i \in 1..MaxAttempts : None # {<<r, i>>} /\ None # {}
  BY NoneAssumption DEF Results
<1>2. ASSUME NEW a \in Attempts PROVE None # {a}
  <2>1. PICK r \in Requests, i \in 1..MaxAttempts : a = <<r, i>>
    BY DEF Attempts
  <2> QED BY <1>1, <2>1
<1>3. \A r \in Requests : None # {}
  BY NoneAssumption DEF Results
<1> QED BY <1>2, <1>3, NoneAssumption

----------------------------------------------------------------------------
(* The invariant, step by step.                                             *)

\* The hedge fires the first dial of a request.
LEMMA SendURLKeeps ==
  ASSUME IInv, NEW r \in Requests, SendURL(r)
  PROVE  IInv'
<1> USE DEF SendURL, Start, Phase, Proceed, To, vars, dialed, hedge, handler,
            history
<1>1. <<r, 1>> \in Attempts
  BY AttemptsAssumption DEF Attempts
<1>2. ASSUME NEW q \in Requests PROVE StageInv(q)'
  <2>0. StageInv(q)
    BY DEF IInv, StagesInv
  <2>2. CASE q = r
    <3>1. chan'[q] # None => Dialling(q)'
      BY <2>0, <2>2 DEF IInv, TypeOK, HedgeTypeOK, StageInv, Calm, Dialling
    <3> QED BY <2>0, <2>2, <3>1 DEF IInv, TypeOK, HedgeTypeOK, StageInv
  <2>3. CASE q # r
    <3>1. \A i \in 1..MaxAttempts : attempt'[<<q, i>>] = attempt[<<q, i>>]
      BY <1>1, <2>3, OtherNames DEF IInv, TypeOK, HedgeTypeOK
    <3>2. (Dialling(q)' <=> Dialling(q)) /\ (Calm(q)' <=> Calm(q))
      BY <3>1 DEF Dialling, Calm
    <3> QED BY <2>0, <2>3, <3>2 DEF IInv, TypeOK, HedgeTypeOK, StageInv
  <2> QED BY <2>2, <2>3
<1>3. UnbornInv'
  <2>1. attempt[<<r, 1>>] = "none"
    BY AttemptsAssumption DEF IInv, StagesInv, StageInv, Calm
  <2>2. \A b \in Attempts : attempt'[b] # "gone" => sock'[b] = "none"
    BY <1>1, <2>1 DEF IInv, UnbornInv, TypeOK, HedgeTypeOK
  <2>3. ASSUME NEW q \in Requests
        PROVE /\ stage'[q] = "idle" => sock'[Own(q)] = "none"
              /\ stage'[q] \in {"idle", "dialling", "entering", "connecting"}
                   => sock'[New(q)'] = "none"
    BY DEF IInv, UnbornInv, TypeOK, HedgeTypeOK, New
  <2> QED BY <2>2, <2>3 DEF IInv, UnbornInv, Handled
<1>4. TypeOK'
  BY NoneIsNone, DialledNames, OtherNames
     DEF IInv, TypeOK, HedgeTypeOK, SendURL, Start, Phase, Proceed, To, handler,
         history
<1>5. LockInv'
  BY DEF IInv, LockInv
<1>6. TransitInv'
  BY DEF IInv, TransitInv, Waits, Carried
<1>7. AccountInv'
  BY DEF IInv, AccountInv, Waits, Carried, Unclosed
<1>8. OneConnection'
  BY DEF IInv, OneConnection
<1>9. NoDeadHandle'
  BY DEF IInv, NoDeadHandle
<1>10. SharedInv'
  BY DEF IInv, SharedInv, CallersConn
<1>11. ReadersTimed'
  BY DEF IInv, ReadersTimed
<1> QED BY <1>2, <1>3, <1>4, <1>5, <1>6, <1>7, <1>8, <1>9, <1>10, <1>11
           DEF IInv, StagesInv

\* A request without URL and connection: nobody's hands change.
LEMMA SendBareKeeps ==
  ASSUME IInv, NEW r \in Requests, SendBare(r)
  PROVE  IInv'
<1>1. ASSUME NEW q \in Requests PROVE StageInv(q)'
  <2>0. StageInv(q)
    BY DEF IInv, StagesInv
  <2>1. (Dialling(q)' <=> Dialling(q)) /\ (Calm(q)' <=> Calm(q))
    BY DEF Dialling, Calm, SendBare, dialed, hedge
  <2> QED BY <2>0, <2>1 DEF StageInv, SendBare, To, dialed, hedge
<1>2. TypeOK'
  BY DEF IInv, TypeOK, HedgeTypeOK, SendBare, To, dialed, hedge, handler,
         history
<1>3. LockInv'
  BY DEF IInv, LockInv, SendBare, To, handler
<1>4. UnbornInv'
  BY DEF IInv, UnbornInv, Handled, New, SendBare, To, dialed, hedge, handler
<1>5. TransitInv'
  BY NoneIsNone, DialledNames
     DEF IInv, StagesInv, StageInv, TransitInv, Waits, Carried, SendBare, To,
         dialed, hedge, handler
<1>6. AccountInv'
  BY DEF IInv, AccountInv, Waits, Carried, Unclosed, SendBare, To, dialed,
         hedge, handler, history
<1>7. OneConnection'
  BY DEF IInv, OneConnection, SendBare, dialed, handler
<1>8. NoDeadHandle'
  BY DEF IInv, TypeOK, NoDeadHandle, SendBare, To, dialed, handler
<1>9. SharedInv'
  BY DEF IInv, SharedInv, CallersConn, SendBare, history
<1>10. ReadersTimed'
  BY DEF IInv, ReadersTimed, SendBare, To, dialed, history
<1> QED BY <1>1, <1>2, <1>3, <1>4, <1>5, <1>6, <1>7, <1>8, <1>9, <1>10
           DEF IInv, StagesInv

\* The caller's connection is opened, and nobody else knows of it.
LEMMA SendConnKeeps ==
  ASSUME IInv, NEW r \in Requests, SendConn(r)
  PROVE  IInv'
<1> USE DEF SendConn, To, vars, hedge, handler, history
<1>1. /\ sock[Own(r)] = "none" /\ Own(r) \in Conns /\ Own(r) \notin Attempts
      /\ ~Handled(Own(r))
  BY OtherNames, DialledNames DEF IInv, UnbornInv
<1>2. \A c \in Conns : sock'[c] = IF c = Own(r) THEN "open" ELSE sock[c]
  BY DEF Opened
<1>3. TypeOK'
  <2>1. sock' \in [Conns -> {"none", "open", "broken", "closed"}]
    BY DEF Opened, IInv, TypeOK, HedgeTypeOK
  <2> QED BY <2>1, <1>1 DEF IInv, TypeOK, HedgeTypeOK
<1>4. UnbornInv'
  <2>1. \A c \in Conns : sock'[c] = "none" => ~Handled(c)'
    BY <1>1, <1>2 DEF IInv, UnbornInv, Handled, TypeOK
  <2>2. \A a \in Attempts : attempt'[a] # "gone" => sock'[a] = "none"
    BY <1>1, <1>2, DialledNames DEF IInv, UnbornInv
  <2>3. ASSUME NEW q \in Requests
        PROVE /\ stage'[q] = "idle" => sock'[Own(q)] = "none"
              /\ q \notin retried => sock'[<<q, -1>>] = "none"
              /\ stage'[q] \in {"idle", "dialling", "entering", "connecting"}
                   => sock'[New(q)'] = "none"
    <3>1. New(q)' = New(q)
      BY DEF New
    <3>2. /\ <<q, -1>> # Own(r) /\ New(q) # Own(r) /\ (q # r => Own(q) # Own(r))
          /\ Own(q) \in Conns /\ New(q) \in Conns /\ <<q, -1>> \in Conns
      BY OtherNames
    <3>3. /\ stage[r] = "idle"
          /\ stage'[q] = IF q = r THEN "entering" ELSE stage[q]
      BY DEF IInv, TypeOK
    <3> QED BY <1>1, <1>2, <3>1, <3>2, <3>3 DEF IInv, UnbornInv
  <2> QED BY <2>1, <2>2, <2>3 DEF UnbornInv
<1>5. OneConnection'
  BY <1>1, <1>2 DEF IInv, TypeOK, OneConnection, Handled
<1>6. ASSUME NEW q \in Requests PROVE StageInv(q)'
  <2>0. StageInv(q)
    BY DEF IInv, StagesInv
  <2>1. (Dialling(q)' <=> Dialling(q)) /\ (Calm(q)' <=> Calm(q))
    BY DEF Dialling, Calm
  <2>2. CASE q = r
    BY <2>0, <2>1 DEF IInv, TypeOK, StageInv
  <2>3. CASE q # r
    BY <2>0, <2>1, <2>3 DEF StageInv
  <2> QED BY <2>2, <2>3
<1>7. LockInv'
  BY DEF IInv, LockInv
<1>8. TransitInv'
  BY NoneIsNone, DialledNames
     DEF IInv, StagesInv, StageInv, TransitInv, Waits, Carried, Opened
<1>9. AccountInv'
  BY DEF IInv, AccountInv, Waits, Carried, Unclosed, Opened
<1>10. NoDeadHandle'
  BY DEF IInv, TypeOK, NoDeadHandle, Opened
<1>11. SharedInv'
  BY DEF IInv, SharedInv, CallersConn
<1>12. ReadersTimed'
  BY DEF IInv, TypeOK, StagesInv, StageInv, ReadersTimed, Opened
<1> QED BY <1>3, <1>4, <1>5, <1>6, <1>7, <1>8, <1>9, <1>10, <1>11, <1>12
           DEF IInv, StagesInv

\* One more dial.
LEMMA TimerFiresKeeps ==
  ASSUME IInv, NEW r \in Requests,
         TimerFires(r) /\ UNCHANGED <<handler, request, deadline, history>>
  PROVE  IInv'
<1> USE DEF TimerFires, Proceed, request
<1>1. PICK i \in 2..MaxAttempts : Proceed(<<r, i>>, "dialling")
  OBVIOUS
<1>2. <<r, i>> \in Attempts
  BY AttemptsAssumption DEF Attempts
<1>3. ASSUME NEW q \in Requests PROVE StageInv(q)'
  <2>0. StageInv(q)
    BY DEF IInv, StagesInv
  <2>1. Dialling(q) => Dialling(q)'
    BY <1>1, <1>2, OtherNames DEF Dialling, IInv, TypeOK, HedgeTypeOK
  <2>2. phase[q] = "idle" /\ Calm(q) => Calm(q)'
    BY <1>1, <1>2, OtherNames DEF Calm, IInv, TypeOK, HedgeTypeOK
  <2> QED BY <2>0, <2>1, <2>2 DEF StageInv
<1>4. \A a \in Attempts : attempt'[a] # "gone" => attempt[a] # "gone"
  BY DEF TimerFires, Proceed, IInv, TypeOK, HedgeTypeOK
<1>5. UNCHANGED <<sock, stage, retried, conn, mine, given>>
  BY DEF TimerFires, handler, request
<1>6. UnbornInv'
  BY <1>4, <1>5 DEF IInv, UnbornInv, Handled, New
<1>7. TypeOK'
  BY NoneIsNone, DialledNames, OtherNames
     DEF IInv, TypeOK, HedgeTypeOK, TimerFires, Proceed, handler, request,
         history
<1>8. LockInv'
  BY DEF IInv, LockInv, handler
<1>9. TransitInv'
  BY DEF IInv, TransitInv, Waits, Carried, handler
<1>10. AccountInv'
  BY DEF IInv, AccountInv, Waits, Carried, Unclosed, handler, history
<1>11. OneConnection'
  BY DEF IInv, OneConnection, handler
<1>12. NoDeadHandle'
  BY DEF IInv, NoDeadHandle, handler
<1>13. SharedInv'
  BY DEF IInv, SharedInv, CallersConn, history
<1>14. ReadersTimed'
  BY DEF IInv, ReadersTimed, history
<1> QED BY <1>3, <1>6, <1>7, <1>8, <1>9, <1>10, <1>11, <1>12, <1>13, <1>14
           DEF IInv, StagesInv

\* The winner goes from the channel to its request.
LEMMA DialOverKeeps ==
  ASSUME IInv, NEW r \in Requests, DialOver(r)
  PROVE  IInv'
<1> USE DEF DialOver, Receive, Phase, To, handler, history
<1>1. \/ /\ chan[r] = {} /\ UNCHANGED given
         /\ stage' = [stage EXCEPT ![r] = "erred"]
      \/ \E c \in Attempts : /\ chan[r] = {c} /\ c[1] = r
                             /\ given' = [given EXCEPT ![r] = c]
                             /\ stage' = [stage EXCEPT ![r] = "entering"]
  <2>1. CASE chan[r] = {}
    BY <2>1
  <2>2. CASE chan[r] # {}
    <3>1. PICK i \in 1..MaxAttempts : chan[r] = {<<r, i>>}
      BY <2>2 DEF IInv, TypeOK, HedgeTypeOK, Results
    <3>2. <<r, i>> \in Attempts /\ <<r, i>>[1] = r
      BY OtherNames
    <3> QED BY <2>2, <3>1, <3>2
  <2> QED BY <2>1, <2>2
<1>2. stage[r] = "dialling" /\ given[r] = None
  BY DEF IInv, StagesInv, StageInv
<1>3. ASSUME NEW q \in Requests PROVE StageInv(q)'
  <2>0. StageInv(q)
    BY DEF IInv, StagesInv
  <2>1. (Dialling(q)' <=> Dialling(q)) /\ (Calm(q)' <=> Calm(q))
    BY DEF Dialling, Calm
  <2>2. CASE q = r
    BY <1>1, <1>2, <2>0, <2>1, <2>2, NoneIsNone, OtherNames
       DEF IInv, TypeOK, HedgeTypeOK, StageInv
  <2>3. CASE q # r
    BY <1>1, <2>0, <2>1, <2>3 DEF IInv, TypeOK, HedgeTypeOK, StageInv
  <2> QED BY <2>2, <2>3
<1>4. UnbornInv'
  <2>1. \A c \in Conns : sock'[c] = "none" => ~Handled(c)'
    <3>1. \A c \in Attempts : chan[r] = {c} /\ c[1] = r => sock[c] = "open"
      BY DEF IInv, TransitInv, Waits
    <3> QED BY <1>1, <3>1 DEF IInv, UnbornInv, Handled, TypeOK
  <2>2. ASSUME NEW q \in Requests
        PROVE /\ stage'[q] = "idle" => sock'[Own(q)] = "none"
              /\ stage'[q] \in {"idle", "dialling", "entering", "connecting"}
                   => sock'[New(q)'] = "none"
    <3>1. New(q)' = New(q)
      BY DEF New
    <3> QED BY <1>1, <1>2, <3>1 DEF IInv, UnbornInv, TypeOK
  <2> QED BY <2>1, <2>2 DEF IInv, UnbornInv
<1>5. TransitInv'
  <2> SUFFICES ASSUME NEW c \in Attempts
               PROVE  /\ Waits(c)' \/ Carried(c)' => Waits(c) \/ Carried(c)
                      /\ Waits(c)' => Waits(c) /\ given'[c[1]] # c
    BY DEF IInv, TransitInv
  <2>1. CASE c[1] = r
    <3>1. chan'[r] = None /\ None # {c}
      BY NoneIsNone DEF IInv, TypeOK, HedgeTypeOK
    <3>2. stage'[r] = "entering" => chan[r] = {given'[r]}
      BY <1>1, <1>2 DEF IInv, TypeOK
    <3> QED BY <2>1, <3>1, <3>2 DEF Waits, Carried
  <2>2. CASE c[1] # r
    BY <1>1, <2>2, DialledNames
       DEF Waits, Carried, IInv, TypeOK, HedgeTypeOK, TransitInv
  <2> QED BY <2>1, <2>2
<1>6. AccountInv'
  <2>1. \A c \in Attempts : Waits(c) \/ Carried(c) => Waits(c)' \/ Carried(c)'
    <3> SUFFICES ASSUME NEW c \in Attempts, Waits(c) \/ Carried(c)
                 PROVE  Waits(c)' \/ Carried(c)'
      OBVIOUS
    <3>1. CASE c[1] = r
      <4>1. chan[r] = {c}
        BY <1>2, <3>1, DialledNames, NoneIsNone DEF Waits, Carried
      <4>2. given'[r] = c /\ stage'[r] = "entering"
        BY <1>1, <4>1 DEF IInv, TypeOK
      <4> QED BY <3>1, <4>2 DEF Carried
    <3>2. CASE c[1] # r
      BY <1>1, <3>2, DialledNames DEF Waits, Carried, IInv, TypeOK, HedgeTypeOK
    <3> QED BY <3>1, <3>2
  <2>2. Unclosed' = Unclosed
    BY DEF Unclosed
  <2> QED BY <2>1, <2>2 DEF IInv, AccountInv
<1>7. TypeOK'
  BY DialledNames, OtherNames DEF IInv, TypeOK, HedgeTypeOK
<1>8. LockInv'
  BY DEF IInv, TypeOK, StagesInv, StageInv, LockInv
<1>9. OneConnection'
  BY DEF IInv, OneConnection
<1>10. NoDeadHandle'
  BY <1>1, <1>2 DEF IInv, TypeOK, NoDeadHandle
<1>11. SharedInv'
  BY DEF IInv, SharedInv, CallersConn
<1>12. ReadersTimed'
  BY DEF IInv, TypeOK, ReadersTimed
<1> QED BY <1>3, <1>4, <1>5, <1>6, <1>7, <1>8, <1>9, <1>10, <1>11, <1>12
           DEF IInv, StagesInv

\* A dialled connection that comes to a handler with another one is ignored.
LEMMA ReuseKeeps ==
  ASSUME IInv, NEW r \in Requests, Reuse(r)
  PROVE  IInv'
<1>1. /\ UNCHANGED <<chan, sock, conn, given>>
      /\ mine' = [mine EXCEPT ![r] = conn]
      /\ stage' = [stage EXCEPT ![r] = "writing"]
  BY DEF Reuse, Use, To, dialed, hedge, handler
<1>2. TransitInv'
  BY <1>1, DialledNames DEF IInv, TypeOK, TransitInv, Waits, Carried
<1>3. ASSUME NEW q \in Requests PROVE StageInv(q)'
  <2>0. StageInv(q)
    BY DEF IInv, StagesInv
  <2>1. (Dialling(q)' <=> Dialling(q)) /\ (Calm(q)' <=> Calm(q))
    BY DEF Dialling, Calm, Reuse, dialed, hedge
  <2>2. CASE q = r
    BY <2>0, <2>1 DEF IInv, TypeOK, StageInv, Reuse, Use, To, dialed, hedge
  <2>3. CASE q # r
    BY <2>0, <2>1, <2>3 DEF StageInv, Reuse, Use, To, dialed, hedge
  <2> QED BY <2>2, <2>3
<1>4. TypeOK'
  BY DEF IInv, TypeOK, HedgeTypeOK, Reuse, Use, On, To, dialed, hedge, handler
<1>5. LockInv'
  BY DEF IInv, LockInv, Reuse, Use, To, handler
<1>6. UnbornInv'
  BY DEF IInv, UnbornInv, Handled, New, Reuse, Use, To, dialed, hedge, handler
<1>7. AccountInv'
  BY DEF IInv, AccountInv, Waits, Carried, Unclosed, Reuse, Use, To, dialed,
         hedge, handler
<1>8. OneConnection'
  BY DEF IInv, OneConnection, Reuse, Use, dialed, handler
<1>9. NoDeadHandle'
  <2>1. mine[r] = None /\ stage[r] = "entering"
    BY NoneIsNone DEF IInv, StagesInv, StageInv, Reuse
  <2>2. \A q \in Requests : /\ stage[q] = "returned" => stage'[q] = "returned"
                            /\ mine'[q] = mine[q] \/ mine[q] = None
    BY <1>1, <2>1 DEF IInv, TypeOK
  <2>3. ASSUME conn # None, sock[conn] = "closed"
        PROVE  \E q \in Requests :
                 /\ conn = Own(q)
                 /\ stage'[q] = "returned" \/ \E p \in Requests : mine'[p] = conn
    <3>1. PICK q \in Requests :
            /\ conn = Own(q)
            /\ stage[q] = "returned" \/ \E p \in Requests : mine[p] = conn
      BY <2>3 DEF IInv, NoDeadHandle
    <3> QED BY <2>2, <2>3, <3>1
  <2> QED BY <1>1, <2>3 DEF NoDeadHandle
<1>10. SharedInv'
  BY DEF IInv, SharedInv, CallersConn, Reuse, Use, On
<1>11. ReadersTimed'
  BY DEF IInv, ReadersTimed, Reuse, Use, To, dialed
<1> QED BY <1>2, <1>3, <1>4, <1>5, <1>6, <1>7, <1>8, <1>9, <1>10, <1>11
           DEF IInv, StagesInv

\* What was in transit becomes the connection there is.
LEMMA AdoptKeeps ==
  ASSUME IInv, NEW r \in Requests, Adopt(r)
  PROVE  IInv'
<1> USE DEF Adopt, Use, To, vars, dialed, hedge
<1>1. /\ stage[r] = "entering" /\ given[r] \in Conns
      /\ conn = None /\ conn' = given[r]
      /\ \A q \in Requests :
           /\ mine'[q] = IF q = r THEN given[r] ELSE mine[q]
           /\ stage'[q] = IF q = r THEN "writing" ELSE stage[q]
  BY DEF IInv, TypeOK
<1>2. given[r] = Own(r) \/ (given[r] \in Attempts /\ given[r][1] = r)
  BY <1>1, NoneIsNone DEF IInv, StagesInv, StageInv
<1>3. ASSUME NEW c \in Attempts
      PROVE  /\ Waits(c)' <=> Waits(c)
             /\ Carried(c)' <=> Carried(c) /\ c # given[r]
             /\ Waits(c) => c # given[r]
             /\ given'[c[1]] = given[c[1]]
  BY <1>1, <1>2, DialledNames DEF IInv, TransitInv, Waits, Carried
<1>4. TransitInv'
  <2> SUFFICES ASSUME NEW c \in Attempts
               PROVE  /\ Waits(c)' \/ Carried(c)' =>
                           /\ sock'[c] = "open" /\ conn' # c
                           /\ \A q \in Requests : mine'[q] # c
                      /\ Waits(c)' => given'[c[1]] # c
    BY DEF TransitInv
  <2> QED BY <1>1, <1>3 DEF IInv, TransitInv
<1>5. AccountInv'
  BY <1>1, <1>3, NoneIsNone DEF IInv, AccountInv, Unclosed
<1>6. NoDeadHandle'
  <2>1. CASE given[r] = Own(r)
    BY <1>1, <2>1 DEF NoDeadHandle
  <2>2. CASE given[r] \in Attempts /\ given[r][1] = r
    BY <1>1, <2>2 DEF NoDeadHandle, IInv, TransitInv, Carried
  <2> QED BY <1>2, <2>1, <2>2
<1>7. ASSUME NEW q \in Requests PROVE StageInv(q)'
  <2>0. StageInv(q)
    BY DEF IInv, StagesInv
  <2>1. (Dialling(q)' <=> Dialling(q)) /\ (Calm(q)' <=> Calm(q))
    BY DEF Dialling, Calm
  <2>2. CASE q = r
    BY <2>0, <2>1 DEF IInv, TypeOK, StageInv
  <2>3. CASE q # r
    BY <2>0, <2>1, <2>3 DEF StageInv
  <2> QED BY <2>2, <2>3
<1>8. TypeOK'
  BY DEF IInv, TypeOK, HedgeTypeOK, On
<1>9. LockInv'
  BY NoneIsNone DEF IInv, LockInv
<1>10. UnbornInv'
  BY DEF IInv, UnbornInv, Handled, New
<1>11. OneConnection'
  BY DEF IInv, OneConnection
<1>12. SharedInv'
  BY DEF IInv, SharedInv, CallersConn, On
<1>13. ReadersTimed'
  BY DEF IInv, ReadersTimed
<1> QED BY <1>4, <1>5, <1>6, <1>7, <1>8, <1>9, <1>10, <1>11, <1>12, <1>13
           DEF IInv, StagesInv

\* Nobody has a connection while mu is held to make one.
LEMMA ConnectKeeps ==
  ASSUME IInv, NEW r \in Requests, Connect(r)
  PROVE  IInv'
<1>1. ASSUME NEW q \in Requests PROVE StageInv(q)'
  <2>0. StageInv(q)
    BY DEF IInv, StagesInv
  <2>1. (Dialling(q)' <=> Dialling(q)) /\ (Calm(q)' <=> Calm(q))
    BY DEF Dialling, Calm, Connect, dialed, hedge
  <2> QED BY <2>0, <2>1 DEF StageInv, Connect, To, dialed, hedge
<1>2. TypeOK'
  BY DEF IInv, TypeOK, HedgeTypeOK, Connect, To, dialed, hedge, history
<1>3. LockInv'
  BY NoneIsNone DEF IInv, TypeOK, LockInv, Connect, To
<1>4. UnbornInv'
  BY DEF IInv, UnbornInv, Handled, New, Connect, To, dialed, hedge
<1>5. TransitInv'
  BY DEF IInv, TransitInv, Waits, Carried, Connect, To, dialed, hedge
<1>6. AccountInv'
  BY DEF IInv, AccountInv, Waits, Carried, Unclosed, Connect, To, dialed, hedge,
         history
<1>7. OneConnection'
  BY DEF IInv, OneConnection, Connect, dialed
<1>8. NoDeadHandle'
  BY DEF NoDeadHandle, Connect
<1>9. SharedInv'
  BY DEF IInv, SharedInv, CallersConn, Connect, history
<1>10. ReadersTimed'
  BY DEF IInv, ReadersTimed, Connect, To, dialed, history
<1> QED BY <1>1, <1>2, <1>3, <1>4, <1>5, <1>6, <1>7, <1>8, <1>9, <1>10
           DEF IInv, StagesInv

\* The new connection is nobody else's.
LEMMA ConnectedKeeps ==
  ASSUME IInv, NEW r \in Requests, Connected(r)
  PROVE  IInv'
<1> USE DEF Connected, Use, To, hedge
<1>1. /\ stage[r] = "connecting" /\ conn = None /\ conn' = New(r)
      /\ stage' = [stage EXCEPT ![r] = "writing"]
  BY DEF IInv, LockInv
<1>2. \A c \in Conns : sock'[c] = IF c = New(r) THEN "open" ELSE sock[c]
  BY DEF Opened
<1>3. \A c \in Attempts : Waits(c) \/ Carried(c) => Waits(c)' \/ Carried(c)'
  BY <1>1, DialledNames DEF Waits, Carried, IInv, TypeOK
<1>4. AccountInv'
  BY <1>1, <1>2, <1>3, NoneIsNone DEF IInv, AccountInv, Unclosed
<1>5. ASSUME NEW q \in Requests PROVE StageInv(q)'
  <2>0. StageInv(q)
    BY DEF IInv, StagesInv
  <2>1. (Dialling(q)' <=> Dialling(q)) /\ (Calm(q)' <=> Calm(q))
    BY DEF Dialling, Calm
  <2>2. CASE q = r
    BY <2>0, <2>1, <2>2, NoneIsNone, OtherNames
       DEF IInv, TypeOK, HedgeTypeOK, StageInv, LockInv, Connected, Use, On, To,
           Opened, vars, dialed, hedge, handler, request, history
  <2>3. CASE q # r
    BY <2>0, <2>1, <2>3 DEF StageInv
  <2> QED BY <2>2, <2>3
<1>6. TypeOK'
  BY NoneIsNone, DialledNames, OtherNames
     DEF IInv, TypeOK, HedgeTypeOK, Connected, Use, On, To, Opened, hedge
<1>7. LockInv'
  BY NoneIsNone DEF IInv, TypeOK, LockInv
<1>8. UnbornInv'
  BY DialledNames, OtherNames DEF IInv, TypeOK, UnbornInv, Handled, New, Opened
<1>9. TransitInv'
  BY DialledNames DEF IInv, TransitInv, Waits, Carried, Opened
<1>10. OneConnection'
  BY DEF IInv, TypeOK, LockInv, OneConnection, Opened
<1>11. NoDeadHandle'
  BY NoneIsNone, DialledNames, OtherNames
     DEF IInv, TypeOK, HedgeTypeOK, StagesInv, StageInv, LockInv, UnbornInv,
         TransitInv, Carried, NoDeadHandle, Handled, Connected, Use, On, To,
         Opened, hedge
<1>12. SharedInv'
  BY DEF IInv, SharedInv, CallersConn, On
<1>13. ReadersTimed'
  BY DEF IInv, TypeOK, StagesInv, StageInv, ReadersTimed, On, Opened
<1> QED BY <1>4, <1>5, <1>6, <1>7, <1>8, <1>9, <1>10, <1>11, <1>12, <1>13
           DEF IInv, StagesInv

\* The Connector fails: the lock is dropped and there still is no connection.
LEMMA NotConnectedKeeps ==
  ASSUME IInv, NEW r \in Requests, NotConnected(r)
  PROVE  IInv'
<1>1. ASSUME NEW q \in Requests PROVE StageInv(q)'
  <2>0. StageInv(q)
    BY DEF IInv, StagesInv
  <2>1. (Dialling(q)' <=> Dialling(q)) /\ (Calm(q)' <=> Calm(q))
    BY DEF Dialling, Calm, NotConnected, dialed, hedge
  <2> QED BY <2>0, <2>1 DEF StageInv, NotConnected, To, dialed, hedge
<1>2. TypeOK'
  BY DEF IInv, TypeOK, HedgeTypeOK, NotConnected, Unlock, To, dialed, hedge,
         history
<1>3. LockInv'
  BY NoneIsNone DEF IInv, TypeOK, LockInv, NotConnected, Unlock, To
<1>4. UnbornInv'
  BY DEF IInv, UnbornInv, Handled, New, NotConnected, To, dialed, hedge
<1>5. TransitInv'
  BY DEF IInv, TransitInv, Waits, Carried, NotConnected, To, dialed, hedge
<1>6. AccountInv'
  BY DEF IInv, AccountInv, Waits, Carried, Unclosed, NotConnected, To, dialed,
         hedge, history
<1>7. OneConnection'
  BY DEF IInv, OneConnection, NotConnected, dialed
<1>8. NoDeadHandle'
  BY DEF IInv, TypeOK, NoDeadHandle, NotConnected, To, dialed
<1>9. SharedInv'
  BY DEF IInv, SharedInv, CallersConn, NotConnected, history
<1>10. ReadersTimed'
  BY DEF IInv, ReadersTimed, NotConnected, To, dialed, history
<1> QED BY <1>1, <1>2, <1>3, <1>4, <1>5, <1>6, <1>7, <1>8, <1>9, <1>10
           DEF IInv, StagesInv

\* The deadline is that of the connection in use.
LEMMA WriteKeeps ==
  ASSUME IInv, NEW r \in Requests, Write(r)
  PROVE  IInv'
<1>1. mine[r] \in Conns
  BY DEF Write, IInv, TypeOK, StagesInv, StageInv
<1>2. TypeOK'
  BY <1>1
     DEF Write, ReadDeadline, To, IInv, TypeOK, HedgeTypeOK, dialed, hedge,
         handler, history
<1>3. ASSUME NEW q \in Requests PROVE StageInv(q)'
  <2>0. StageInv(q)
    BY DEF IInv, StagesInv
  <2>1. (Dialling(q)' <=> Dialling(q)) /\ (Calm(q)' <=> Calm(q))
    BY DEF Dialling, Calm, Write, dialed, hedge
  <2> QED BY <2>0, <2>1 DEF StageInv, Write, To, dialed, hedge
<1>4. LockInv'
  BY DEF IInv, LockInv, Write, To, handler
<1>5. UnbornInv'
  BY DEF IInv, UnbornInv, Handled, New, Write, To, dialed, hedge, handler
<1>6. TransitInv'
  BY DEF IInv, TransitInv, Waits, Carried, Write, To, dialed, hedge, handler
<1>7. AccountInv'
  BY DEF IInv, AccountInv, Waits, Carried, Unclosed, Write, To, dialed, hedge,
         handler, history
<1>8. OneConnection'
  BY DEF IInv, OneConnection, Write, dialed, handler
<1>9. NoDeadHandle'
  BY DEF IInv, TypeOK, NoDeadHandle, Write, To, dialed, handler
<1>10. SharedInv'
  BY DEF IInv, SharedInv, CallersConn, Write, history
<1>11. ReadersTimed'
  BY DEF IInv, ReadersTimed, Write, ReadDeadline, To, dialed, history
<1> QED BY <1>2, <1>3, <1>4, <1>5, <1>6, <1>7, <1>8, <1>9, <1>10, <1>11
           DEF IInv, StagesInv

\* A reader clears the deadline of its connection: whoever shared it is in
\* mingled.  It leaves the connection to the handler.
LEMMA ReadKeeps ==
  ASSUME IInv, NEW r \in Requests, Read(r)
  PROVE  IInv'
<1>1. ASSUME NEW q \in Requests PROVE StageInv(q)'
  <2>0. StageInv(q)
    BY DEF IInv, StagesInv
  <2>1. (Dialling(q)' <=> Dialling(q)) /\ (Calm(q)' <=> Calm(q))
    BY DEF Dialling, Calm, Read, dialed, hedge
  <2>2. CASE q = r
    BY <2>0, <2>1 DEF IInv, TypeOK, StageInv, Read, To, dialed, hedge
  <2>3. CASE q # r
    BY <2>0, <2>1, <2>3 DEF StageInv, Read, To, dialed, hedge
  <2> QED BY <2>2, <2>3
<1>2. TypeOK'
  BY DEF IInv, TypeOK, HedgeTypeOK, Read, ClearDeadline, To, dialed, hedge,
         handler, history
<1>3. LockInv'
  BY DEF IInv, LockInv, Read, To, handler
<1>4. UnbornInv'
  BY NoneIsNone
     DEF IInv, UnbornInv, Handled, New, Read, To, dialed, hedge, handler
<1>5. TransitInv'
  BY NoneIsNone, DialledNames
     DEF IInv, TransitInv, Waits, Carried, Read, To, dialed, hedge, handler
<1>6. AccountInv'
  BY DEF IInv, AccountInv, Waits, Carried, Unclosed, Read, To, dialed, hedge,
         handler, history
<1>7. OneConnection'
  BY DEF IInv, OneConnection, Read, dialed, handler
<1>8. NoDeadHandle'
  BY DEF IInv, TypeOK, NoDeadHandle, Read, To, dialed, handler
<1>9. SharedInv'
  BY DEF IInv, SharedInv, CallersConn, Read, history
<1>10. ReadersTimed'
  BY DEF IInv, TypeOK, StagesInv, StageInv, SharedInv, ReadersTimed, Read,
         ClearDeadline, To, dialed, history
<1> QED BY <1>1, <1>2, <1>3, <1>4, <1>5, <1>6, <1>7, <1>8, <1>9, <1>10
           DEF IInv, StagesInv

\* The deadline of a broken connection is cleared: its other readers will see
\* that it is broken.
LEMMA FailKeeps ==
  ASSUME IInv, NEW r \in Requests, Fail(r)
  PROVE  IInv'
<1>1. ASSUME NEW q \in Requests PROVE StageInv(q)'
  <2>0. StageInv(q)
    BY DEF IInv, StagesInv
  <2>1. (Dialling(q)' <=> Dialling(q)) /\ (Calm(q)' <=> Calm(q))
    BY DEF Dialling, Calm, Fail, dialed, hedge
  <2> QED BY <2>0, <2>1 DEF IInv, TypeOK, StageInv, Fail, To, dialed, hedge
<1>2. TypeOK'
  BY DEF IInv, TypeOK, HedgeTypeOK, Fail, ClearDeadline, To, dialed, hedge,
         handler, history
<1>3. LockInv'
  BY DEF IInv, TypeOK, LockInv, Fail, To, handler
<1>4. UnbornInv'
  BY DEF IInv, TypeOK, UnbornInv, Handled, New, Fail, To, dialed, hedge, handler
<1>5. TransitInv'
  BY DialledNames
     DEF IInv, TypeOK, TransitInv, Waits, Carried, Fail, To, dialed, hedge,
         handler
<1>6. AccountInv'
  BY DialledNames
     DEF IInv, TypeOK, AccountInv, Waits, Carried, Unclosed, Fail, To, dialed,
         hedge, handler, history
<1>7. OneConnection'
  BY DEF IInv, OneConnection, Fail, dialed, handler
<1>8. NoDeadHandle'
  BY DEF IInv, TypeOK, NoDeadHandle, Fail, To, dialed, handler
<1>9. SharedInv'
  BY DEF IInv, SharedInv, CallersConn, Fail, history
<1>10. ReadersTimed'
  BY DEF IInv, TypeOK, ReadersTimed, Fail, ClearDeadline, To, dialed, history
<1> QED BY <1>1, <1>2, <1>3, <1>4, <1>5, <1>6, <1>7, <1>8, <1>9, <1>10
           DEF IInv, StagesInv

\* The deadline that has passed is cleared, and the connection is broken.
LEMMA TimeOutKeeps ==
  ASSUME IInv, NEW r \in Requests, TimeOut(r)
  PROVE  IInv'
<1>1. ASSUME NEW q \in Requests PROVE StageInv(q)'
  <2>0. StageInv(q)
    BY DEF IInv, StagesInv
  <2>1. (Dialling(q)' <=> Dialling(q)) /\ (Calm(q)' <=> Calm(q))
    BY DEF Dialling, Calm, TimeOut, hedge
  <2> QED BY <2>0, <2>1 DEF StageInv, TimeOut, To, hedge
<1>2. TypeOK'
  BY DEF IInv, TypeOK, HedgeTypeOK, TimeOut, ClearDeadline, To, hedge, handler,
         history
<1>3. LockInv'
  BY DEF IInv, LockInv, TimeOut, To, handler
<1>4. UnbornInv'
  BY DEF IInv, UnbornInv, Handled, New, TimeOut, To, hedge, handler
<1>5. TransitInv'
  BY DEF IInv, TransitInv, Waits, Carried, TimeOut, To, hedge, handler
<1>6. AccountInv'
  BY DEF IInv, AccountInv, Waits, Carried, Unclosed, TimeOut, To, hedge,
         handler, history
<1>7. OneConnection'
  BY DEF IInv, OneConnection, TimeOut, handler
<1>8. NoDeadHandle'
  BY DEF IInv, TypeOK, HedgeTypeOK, NoDeadHandle, TimeOut, To, handler
<1>9. SharedInv'
  BY DEF IInv, SharedInv, CallersConn, TimeOut, history
<1>10. ReadersTimed'
  BY DEF IInv, TypeOK, HedgeTypeOK, ReadersTimed, TimeOut, ClearDeadline, To,
         history
<1> QED BY <1>1, <1>2, <1>3, <1>4, <1>5, <1>6, <1>7, <1>8, <1>9, <1>10
           DEF IInv, StagesInv

\* Only the connection there is, is closed, and with it forgotten.
LEMMA AfterErrorKeeps ==
  ASSUME IInv, NEW r \in Requests, AfterError(r)
  PROVE  IInv'
<1> USE DEF AfterError, Invalidate, To, hedge, handler, history
<1>1. /\ mine[r] \in Conns /\ stage[r] # "entering"
      /\ \A c \in Conns :
           sock'[c] = IF c = conn /\ mine[r] = conn THEN "closed" ELSE sock[c]
      /\ conn' = IF conn = mine[r] THEN None ELSE conn
  BY DEF Closed, IInv, TypeOK, StagesInv, StageInv
<1>2. \A c \in Attempts : Waits(c) \/ Carried(c) => Waits(c)' \/ Carried(c)'
  BY <1>1, DialledNames DEF Waits, Carried, IInv, TypeOK
<1>3. AccountInv'
  BY <1>1, <1>2, NoneIsNone DEF IInv, AccountInv, Unclosed
<1>4. OneConnection'
  BY <1>1, NoneIsNone DEF IInv, TypeOK, OneConnection
<1>5. ASSUME NEW q \in Requests PROVE StageInv(q)'
  <2>0. StageInv(q)
    BY DEF IInv, StagesInv
  <2>1. (Dialling(q)' <=> Dialling(q)) /\ (Calm(q)' <=> Calm(q))
    BY DEF Dialling, Calm
  <2>2. CASE q = r
    BY <2>0, <2>1 DEF IInv, TypeOK, StageInv
  <2>3. CASE q # r
    BY <2>0, <2>1, <2>3 DEF StageInv
  <2> QED BY <2>2, <2>3
<1>6. TypeOK'
  BY DEF IInv, TypeOK, HedgeTypeOK, Closed
<1>7. LockInv'
  BY DEF IInv, LockInv
<1>8. UnbornInv'
  BY NoneIsNone, DialledNames, OtherNames
     DEF IInv, UnbornInv, Handled, New, Closed
<1>9. TransitInv'
  BY NoneIsNone, DialledNames DEF IInv, TransitInv, Waits, Carried, Closed
<1>10. NoDeadHandle'
  BY DEF IInv, TypeOK, NoDeadHandle, Closed
<1>11. SharedInv'
  BY DEF IInv, SharedInv, CallersConn
<1>12. ReadersTimed'
  BY DEF IInv, TypeOK, HedgeTypeOK, ReadersTimed, Closed
<1> QED BY <1>3, <1>4, <1>5, <1>6, <1>7, <1>8, <1>9, <1>10, <1>11, <1>12
           DEF IInv, StagesInv

\* The second try will open another connection.
LEMMA RetryKeeps ==
  ASSUME IInv, NEW r \in Requests, Retry(r)
  PROVE  IInv'
<1> USE DEF Retry, To, dialed, hedge, handler
<1>1. ASSUME NEW q \in Requests
      PROVE /\ stage'[q] = "idle" => sock'[Own(q)] = "none"
            /\ q \notin retried' => sock'[<<q, -1>>] = "none"
            /\ stage'[q] \in {"idle", "dialling", "entering", "connecting"}
                 => sock'[New(q)'] = "none"
  <2>1. CASE q = r
    BY <2>1 DEF IInv, UnbornInv, TypeOK, New
  <2>2. CASE q # r
    BY <2>2 DEF IInv, UnbornInv, TypeOK, New
  <2> QED BY <2>1, <2>2
<1>2. UnbornInv'
  BY <1>1 DEF IInv, UnbornInv, Handled
<1>3. ASSUME NEW q \in Requests PROVE StageInv(q)'
  <2>0. StageInv(q)
    BY DEF IInv, StagesInv
  <2>1. (Dialling(q)' <=> Dialling(q)) /\ (Calm(q)' <=> Calm(q))
    BY DEF Dialling, Calm
  <2> QED BY <2>0, <2>1 DEF StageInv
<1>4. TypeOK'
  BY DEF IInv, TypeOK, HedgeTypeOK, history
<1>5. LockInv'
  BY DEF IInv, LockInv
<1>6. TransitInv'
  BY NoneIsNone, DialledNames
     DEF IInv, StagesInv, StageInv, TransitInv, Waits, Carried
<1>7. AccountInv'
  BY DEF IInv, AccountInv, Waits, Carried, Unclosed, history
<1>8. OneConnection'
  BY DEF IInv, OneConnection
<1>9. NoDeadHandle'
  BY DEF IInv, NoDeadHandle
<1>10. SharedInv'
  BY DEF IInv, SharedInv, CallersConn, history
<1>11. ReadersTimed'
  BY DEF IInv, ReadersTimed, history
<1> QED BY <1>2, <1>3, <1>4, <1>5, <1>6, <1>7, <1>8, <1>9, <1>10, <1>11
           DEF IInv, StagesInv

\* The timeout layer closes the caller's connection only.
LEMMA ReturnKeeps ==
  ASSUME IInv, NEW r \in Requests, InTime(r) \/ SessionOver(r)
  PROVE  IInv'
<1> USE DEF InTime, SessionOver, Back, To, vars, dialed, hedge, handler, history
<1>1. /\ UNCHANGED <<chan, conn, mine, attempt, retried>>
      /\ stage[r] \in {"answered", "erred", "overdue"}
      /\ stage' = [stage EXCEPT ![r] = "returned"]
      /\ given' = [given EXCEPT ![r] = None]
  OBVIOUS
<1>2. \A c \in Conns :
        \/ sock'[c] = sock[c]
        \/ c = Own(r) /\ given[r] = c /\ sock'[c] = "closed"
  <2>1. CASE InTime(r)
    BY <2>1
  <2>2. CASE SessionOver(r)
    BY <2>2 DEF Closed, CallersConn
  <2> QED BY <2>1, <2>2
<1>3. ASSUME NEW q \in Requests
      PROVE  /\ Own(q) \in Conns /\ New(q) \in Conns /\ <<q, -1>> \in Conns
             /\ New(q)' = New(q) /\ Own(r) # New(q) /\ Own(r) # <<q, -1>>
             /\ q # r => Own(q) # Own(r)
  BY <1>1, OtherNames DEF New
<1>4. UnbornInv'
  <2>1. \A c \in Conns : sock'[c] = "none" => ~Handled(c)'
    BY <1>1, <1>2, NoneIsNone DEF IInv, UnbornInv, Handled, TypeOK
  <2>2. \A a \in Attempts : attempt'[a] # "gone" => sock'[a] = "none"
    BY <1>1, <1>2, DialledNames DEF IInv, UnbornInv
  <2>3. ASSUME NEW q \in Requests
        PROVE /\ stage'[q] = "idle" => sock'[Own(q)] = "none"
              /\ q \notin retried' => sock'[<<q, -1>>] = "none"
              /\ stage'[q] \in {"idle", "dialling", "entering", "connecting"}
                   => sock'[New(q)'] = "none"
    BY <1>1, <1>2, <1>3 DEF IInv, UnbornInv, TypeOK
  <2> QED BY <2>1, <2>2, <2>3 DEF UnbornInv
<1>5. TransitInv'
  <2> SUFFICES ASSUME NEW c \in Attempts
               PROVE  /\ Waits(c)' <=> Waits(c)
                      /\ Carried(c)' => Carried(c)
                      /\ given'[c[1]] \in {None, given[c[1]]}
                      /\ sock'[c] = sock[c] /\ c # None
    BY <1>1 DEF IInv, TransitInv
  <2> QED BY <1>1, <1>2, DialledNames, NoneIsNone
             DEF IInv, TypeOK, Waits, Carried
<1>6. NoDeadHandle'
  BY <1>1, <1>2 DEF IInv, TypeOK, NoDeadHandle
<1>7. ASSUME NEW q \in Requests PROVE StageInv(q)'
  <2>0. StageInv(q)
    BY DEF IInv, StagesInv
  <2>1. (Dialling(q)' <=> Dialling(q)) /\ (Calm(q)' <=> Calm(q))
    BY DEF Dialling, Calm, InTime, SessionOver, Back, Closed, To, vars, dialed,
           hedge, handler, request, history
  <2> QED BY <2>0, <2>1 DEF IInv, TypeOK, StageInv
<1>8. TypeOK'
  BY DEF IInv, TypeOK, HedgeTypeOK, Closed
<1>9. LockInv'
  BY DEF IInv, TypeOK, LockInv
<1>10. AccountInv'
  BY DialledNames DEF IInv, TypeOK, AccountInv, Waits, Carried, Unclosed, Closed
<1>11. OneConnection'
  BY DEF IInv, TypeOK, OneConnection, Closed
<1>12. SharedInv'
  BY DEF IInv, SharedInv, CallersConn
<1>13. ReadersTimed'
  BY DEF IInv, TypeOK, HedgeTypeOK, CallersConn, ReadersTimed, Closed
<1> QED BY <1>4, <1>5, <1>6, <1>7, <1>8, <1>9, <1>10, <1>11, <1>12, <1>13
           DEF IInv, StagesInv

\* A connection breaks under its users.
LEMMA LoseKeeps ==
  ASSUME IInv, NEW c \in Conns, Lose(c)
  PROVE  IInv'
<1>1. TypeOK'
  BY DEF IInv, TypeOK, HedgeTypeOK, Lose, hedge, handler, request, history
<1>2. ASSUME NEW q \in Requests PROVE StageInv(q)'
  BY DEF IInv, StagesInv, StageInv, Calm, Dialling, Lose, hedge, request
<1>3. LockInv'
  BY DEF IInv, LockInv, Lose, handler, request
<1>4. UnbornInv'
  BY DEF IInv, UnbornInv, Handled, New, Lose, hedge, handler, request
<1>5. TransitInv'
  BY DEF IInv, TransitInv, Waits, Carried, Lose, hedge, handler, request
<1>6. AccountInv'
  BY DEF IInv, AccountInv, Waits, Carried, Unclosed, Lose, hedge, handler,
         request, history
<1>7. OneConnection'
  BY DEF IInv, OneConnection, Lose, handler, request
<1>8. NoDeadHandle'
  BY DEF IInv, TypeOK, HedgeTypeOK, NoDeadHandle, Lose, handler, request
<1>9. SharedInv'
  BY DEF IInv, SharedInv, CallersConn, Lose, request, history
<1>10. ReadersTimed'
  BY DEF IInv, ReadersTimed, Lose, request, history
<1> QED BY <1>1, <1>2, <1>3, <1>4, <1>5, <1>6, <1>7, <1>8, <1>9, <1>10
           DEF IInv, StagesInv

\* A connection is born: into the channel, closed, or dropped.
LEMMA DialStepKeeps ==
  ASSUME IInv, NEW a \in Attempts, DialStep(a)
  PROVE  IInv'
<1> DEFINE r == a[1]
<1> USE DEF DialStep, Dial, handler, request, history
<1>1. PICK cs \in {{}, {a}} : DialReturns(a, cs)
  OBVIOUS
<1>2. /\ r \in Requests /\ a \in Conns
      /\ attempt[a] = "dialling" /\ sock[a] = "none" /\ ~Handled(a)
      /\ None # cs /\ cs \in Results(r) /\ cs \subseteq Attempts
  <2>1. attempt[a] = "dialling"
    BY <1>1 DEF DialReturns
  <2>2. cs \in Results(r)
    BY DialledNames DEF Results
  <2> QED BY <2>1, <2>2, DialledNames, NoneIsNone DEF IInv, UnbornInv
<1>3. attempt' = [attempt EXCEPT ![a] = "gone"] /\ UNCHANGED phase
  BY <1>1 DEF DialReturns, Proceed
<1>4. \/ /\ chan[r] = None /\ cs = {a}
         /\ sock' = [sock EXCEPT ![a] = "open"]
      \/ /\ chan[r] # None /\ cs = {a}
         /\ sock' = [sock EXCEPT ![a] = "closed"]
      \/ cs = {} /\ sock' = sock
  BY <1>1, <1>2
     DEF DialReturns, CloseLoser, Opened, Closed, IInv, TypeOK, HedgeTypeOK
<1>5. \/ /\ OthersBusy(a) /\ drained' = drained
         /\ chan' = [chan EXCEPT ![r] = IF chan[r] = None THEN cs ELSE chan[r]]
      \/ /\ ~OthersBusy(a) /\ chan' = [chan EXCEPT ![r] = None]
         /\ drained' = drained \cup (IF chan[r] = None THEN cs ELSE chan[r])
  BY <1>1 DEF DialReturns
<1>6. TypeOK'
  <2>1. sock' \in [Conns -> {"none", "open", "broken", "closed"}]
    BY <1>2, <1>4 DEF IInv, TypeOK, HedgeTypeOK
  <2>2. drained' \subseteq Attempts
    BY <1>2, <1>5 DEF IInv, TypeOK, HedgeTypeOK
  <2>3. /\ chan' \in [Requests -> (SUBSET Attempts) \cup {None}]
        /\ \A q \in Requests : chan'[q] \in Results(q) \cup {None}
    BY <1>2, <1>5 DEF IInv, TypeOK, HedgeTypeOK
  <2>4. attempt' \in [Attempts -> {"none", "dialling", "gone"}]
    BY <1>3 DEF IInv, TypeOK, HedgeTypeOK
  <2> QED BY <1>3, <2>1, <2>2, <2>3, <2>4 DEF IInv, TypeOK, HedgeTypeOK
<1>7. ASSUME NEW q \in Requests PROVE StageInv(q)'
  <2>0. StageInv(q)
    BY DEF IInv, StagesInv
  <2>1. CASE q = r
    <3>1. ~Calm(r)
      BY <1>2, DialledNames DEF Calm
    <3>2. OthersBusy(a) => phase'[r] = "waiting" \/ Dialling(r)'
      <4>1. \A b \in Attempts : b # a => attempt'[b] = attempt[b]
        BY <1>3 DEF IInv, TypeOK, HedgeTypeOK
      <4> QED BY <1>2, <1>3, <4>1, OtherNames DEF OthersBusy, Dialling
    <3>3. chan'[r] # None => OthersBusy(a)
      BY <1>2, <1>5 DEF IInv, TypeOK, HedgeTypeOK
    <3> QED BY <1>3, <2>0, <2>1, <3>1, <3>2, <3>3 DEF StageInv
  <2>2. CASE q # r
    <3>1. \A i \in 1..MaxAttempts : attempt'[<<q, i>>] = attempt[<<q, i>>]
      BY <1>3, <2>2, OtherNames DEF IInv, TypeOK, HedgeTypeOK
    <3>2. (Dialling(q)' <=> Dialling(q)) /\ (Calm(q)' <=> Calm(q))
      BY <3>1 DEF Dialling, Calm
    <3>3. chan'[q] = chan[q]
      BY <1>5, <2>2 DEF IInv, TypeOK, HedgeTypeOK
    <3> QED BY <1>3, <2>0, <3>2, <3>3 DEF StageInv
  <2> QED BY <2>1, <2>2
<1>8. ASSUME NEW c \in Attempts
      PROVE  /\ Waits(c)' => Waits(c) \/ (c = a /\ sock'[c] = "open")
             /\ Carried(c)' <=> Carried(c)
             /\ Waits(c) => Waits(c)' \/ c \in drained'
             /\ c = a /\ sock'[c] = "open" => Waits(c)' \/ c \in drained'
  <2>1. /\ Carried(c)' <=> Carried(c)
        /\ c[1] # r => (Waits(c)' <=> Waits(c)) /\ c # a
    BY <1>5, DialledNames DEF Waits, Carried, IInv, TypeOK, HedgeTypeOK
  <2>2. CASE c[1] = r
    <3>1. chan'[r] = IF ~OthersBusy(a) THEN None
                     ELSE IF chan[r] = None THEN cs ELSE chan[r]
      BY <1>2, <1>5 DEF IInv, TypeOK, HedgeTypeOK
    <3>2. c # a => {c} # {a}
      OBVIOUS
    <3>3. None # {c}
      BY NoneIsNone
    <3>4. sock'[a] = "open" => chan[r] = None /\ cs = {a}
      BY <1>2, <1>4 DEF IInv, TypeOK, HedgeTypeOK
    <3> QED BY <1>2, <1>4, <1>5, <2>1, <2>2, <3>1, <3>2, <3>3, <3>4
               DEF Waits, IInv, TypeOK, HedgeTypeOK
  <2> QED BY <2>1, <2>2, <1>4, <1>5 DEF IInv, TypeOK, HedgeTypeOK
<1>9. /\ \A c \in Conns : c # a => sock'[c] = sock[c]
      /\ sock'[a] \in {"none", "open", "closed"}
  BY <1>2, <1>4 DEF IInv, TypeOK, HedgeTypeOK
<1>10. TransitInv'
  <2> SUFFICES ASSUME NEW c \in Attempts
               PROVE  /\ Waits(c)' \/ Carried(c)' =>
                           /\ sock'[c] = "open" /\ conn # c
                           /\ \A q \in Requests : mine[q] # c
                      /\ Waits(c)' => given[c[1]] # c
    BY DEF TransitInv
  <2>1. c[1] \in Requests /\ c \in Conns
    BY DialledNames
  <2>2. CASE c = a
    <3>1. ~Waits(c) /\ ~Carried(c)
      BY <1>2, <2>2 DEF IInv, TransitInv
    <3> QED BY <1>2, <1>8, <2>1, <2>2, <3>1 DEF Handled
  <2>3. CASE c # a
    BY <1>8, <1>9, <2>1, <2>3 DEF IInv, TransitInv
  <2> QED BY <2>2, <2>3
<1>11. AccountInv'
  <2> SUFFICES ASSUME NEW c \in Conns, c \in Unclosed'
               PROVE  \/ conn = c \/ c \in {Own(q) : q \in Requests}
                      \/ /\ c \in Attempts
                         /\ \/ Waits(c)' \/ Carried(c)'
                            \/ c \in drained' \cup ignored
    BY DEF AccountInv, Unclosed
  <2>1. CASE c = a
    BY <1>8, <1>9, <2>1 DEF Unclosed
  <2>2. CASE c # a
    <3>1. c \in Unclosed /\ drained \subseteq drained'
      BY <1>5, <1>9, <2>2 DEF Unclosed
    <3> QED BY <1>8, <3>1 DEF IInv, AccountInv
  <2> QED BY <2>1, <2>2
<1>12. ReadersTimed'
  <2>1. \A q \in Requests : mine[q] # a
    BY <1>2 DEF Handled
  <2> QED BY <1>9, <2>1 DEF IInv, TypeOK, StagesInv, StageInv, ReadersTimed
<1>13. LockInv'
  BY DEF IInv, LockInv
<1>14. UnbornInv'
  BY DialledNames, OtherNames
     DEF IInv, TypeOK, HedgeTypeOK, UnbornInv, Handled, New, DialReturns,
         CloseLoser, Opened, Closed, Proceed
<1>15. OneConnection'
  BY DEF IInv, TypeOK, UnbornInv, OneConnection, DialReturns, CloseLoser,
         Opened, Closed
<1>16. NoDeadHandle'
  BY DEF IInv, TypeOK, UnbornInv, NoDeadHandle, Handled, DialReturns,
         CloseLoser, Opened, Closed
<1>17. SharedInv'
  BY DEF IInv, SharedInv, CallersConn
<1> QED BY <1>6, <1>7, <1>10, <1>11, <1>12, <1>13, <1>14, <1>15, <1>16, <1>17
           DEF IInv, StagesInv

----------------------------------------------------------------------------
(* The invariant of every behaviour.                                        *)

LEMMA InitIInv == Init => IInv
<1> SUFFICES ASSUME Init PROVE IInv
  OBVIOUS
<1>1. /\ conn = None /\ mu = None /\ deadline = {} /\ retried = {}
      /\ mingled = {} /\ ignored = {} /\ drained = {}
      /\ \A r \in Requests : /\ stage[r] = "idle" /\ phase[r] = "idle"
                             /\ given[r] = None /\ mine[r] = None
                             /\ chan[r] = None
      /\ \A a \in Attempts : attempt[a] = "none"
      /\ \A c \in Conns : sock[c] = "none"
  BY DEF Init, HedgeInit
<1>2. TypeOK
  BY DEF Init, HedgeInit, TypeOK, HedgeTypeOK
<1>3. ASSUME NEW r \in Requests PROVE StageInv(r)
  <2>1. Calm(r)
    BY <1>1, OtherNames DEF Calm
  <2> QED BY <1>1, <2>1 DEF StageInv
<1>4. LockInv /\ OneConnection /\ NoDeadHandle /\ SharedInv /\ ReadersTimed
  BY <1>1, NoneIsNone
     DEF LockInv, OneConnection, NoDeadHandle, SharedInv, ReadersTimed
<1>5. UnbornInv
  BY <1>1, NoneIsNone, DialledNames, OtherNames DEF UnbornInv, Handled
<1>6. TransitInv
  BY <1>1, NoneIsNone, DialledNames DEF TransitInv, Waits, Carried
<1>7. AccountInv
  BY <1>1 DEF AccountInv, Unclosed
<1> QED BY <1>2, <1>3, <1>4, <1>5, <1>6, <1>7 DEF IInv, StagesInv

LEMMA NextIInv == ASSUME IInv, [Next]_vars PROVE IInv'
<1>1. ASSUME NEW r \in Requests, Send(r) \/ Read(r) PROVE IInv'
  BY <1>1, SendURLKeeps, SendBareKeeps, SendConnKeeps, ReadKeeps DEF Send
<1>2. ASSUME NEW r \in Requests, Step(r) PROVE IInv'
  BY <1>2, TimerFiresKeeps, DialOverKeeps, ReuseKeeps, AdoptKeeps, ConnectKeeps,
     ConnectedKeeps, NotConnectedKeeps, WriteKeeps, FailKeeps, TimeOutKeeps,
     AfterErrorKeeps, RetryKeeps, ReturnKeeps
     DEF Step
<1>3. CASE UNCHANGED vars
  <2>1. UNCHANGED <<phase, attempt, chan, sock, drained, conn, mu, stage,
                    retried, given, mine, deadline, mingled, ignored>>
    BY <1>3 DEF vars, dialed, hedge, handler, request, history
  <2>2. /\ TypeOK' /\ LockInv' /\ OneConnection' /\ NoDeadHandle'
        /\ ReadersTimed'
    BY <2>1 DEF IInv, TypeOK, HedgeTypeOK, LockInv, OneConnection, NoDeadHandle,
                ReadersTimed
  <2>3. StagesInv'
    BY <2>1 DEF IInv, StagesInv, StageInv, Calm, Dialling
  <2>4. UnbornInv'
    BY <2>1 DEF IInv, UnbornInv, Handled, New
  <2>5. TransitInv' /\ AccountInv'
    BY <2>1 DEF IInv, TransitInv, AccountInv, Unclosed, Waits, Carried
  <2>6. SharedInv'
    BY <2>1 DEF IInv, SharedInv, CallersConn
  <2> QED BY <2>2, <2>3, <2>4, <2>5, <2>6 DEF IInv
<1> QED BY <1>1, <1>2, <1>3, DialStepKeeps, LoseKeeps DEF Next

LEMMA Invariance == Spec => []IInv
BY InitIInv, NextIInv, PTL DEF Spec

----------------------------------------------------------------------------
(* What follows for every behaviour.                                        *)

\* Every variable keeps its type.
THEOREM TypeCorrect == Spec => []TypeOK
<1>1. IInv => TypeOK
  BY DEF IInv
<1> QED BY <1>1, Invariance, PTL

\* A connection that is not closed is in somebody's hands, or was lost in one of
\* two ways: dropped by recycleDialState (rws/hedge.go) or brought to a handler
\* that had one (client.go l.56).
THEOREM ConnectionsAccounted == Spec => []Accounted
<1>1. IInv => Accounted
  <2> SUFFICES ASSUME IInv, NEW c \in Unclosed, c \notin drained \cup ignored
               PROVE  Owned(c)
    BY DEF Accounted
  <2>1. CASE conn = c \/ c \in {Own(r) : r \in Requests}
    BY <2>1 DEF Owned
  <2>2. CASE c \in Attempts /\ (Waits(c) \/ Carried(c))
    <3>1. c[1] \in Requests
      BY <2>2, DialledNames
    <3>2. CASE Waits(c)
      <4>1. chan[c[1]] = {c} /\ chan[c[1]] # None
        BY <2>2, <3>2, NoneIsNone DEF Waits
      <4>2. phase[c[1]] = "waiting" \/ Dialling(c[1])
        BY <3>1, <4>1 DEF IInv, StagesInv, StageInv
      <4> QED BY <3>1, <4>1, <4>2 DEF Owned
    <3>3. CASE Carried(c)
      BY <3>1, <3>3 DEF Carried, Owned
    <3> QED BY <2>2, <3>2, <3>3
  <2> QED BY <2>1, <2>2 DEF IInv, AccountInv
<1> QED BY <1>1, Invariance, PTL

\* All round trips are on the handler's connection, or on a closed one
\* (client.go l.68-80).
THEOREM OneAtATime == Spec => []OneConnection
<1>1. IInv => OneConnection
  BY DEF IInv
<1> QED BY <1>1, Invariance, PTL

\* A handler keeps no connection it has closed (client.go l.75-80): the timeout
\* layer may close one under its hands, the caller's (timeout.go), and a retry
\* bring a closed one, which whoever is on it will have the handler forget.
THEOREM NoDeadConnection == Spec => []NoDeadHandle
<1>1. IInv => NoDeadHandle
  BY DEF IInv
<1> QED BY <1>1, Invariance, PTL

\* Nobody reads without a deadline from a connection that is alive, unless he
\* shared one: then another request's deferred SetReadDeadline may have cleared
\* his (client.go l.24, timeout.go).
THEOREM ReadersAreTimed == Spec => []ReadersTimed
<1>1. IInv => ReadersTimed
  BY DEF IInv
<1> QED BY <1>1, Invariance, PTL

\* The handler lets go of a connection only to close it, and never replaces one
\* by another in a step (client.go l.56-66, l.75-80).
THEOREM HandlerCloses ==
  Spec => [][conn # None /\ conn' # conn =>
               conn' = None /\ sock'[conn] = "closed"]_vars
<1>1. ASSUME IInv, [Next]_vars, conn # None, conn' # conn
      PROVE  conn' = None /\ sock'[conn] = "closed"
  <2> USE DEF IInv, TypeOK, HedgeTypeOK
  <2>1. ASSUME NEW r \in Requests, Connected(r) PROVE FALSE
    BY <1>1, <2>1 DEF Connected, LockInv
  <2>2. ASSUME NEW r \in Requests, AfterError(r)
        PROVE  conn' = None /\ sock'[conn] = "closed"
    BY <1>1, <2>2 DEF AfterError, Invalidate, Closed
  <2>3. \E r \in Requests : Connected(r) \/ AfterError(r)
    BY <1>1
       DEF Next, Send, Step, SendURL, SendConn, SendBare, TimerFires,
           DialOver, Reuse, Adopt, Connect, NotConnected, Write, Read, Fail,
           TimeOut, Retry, InTime, SessionOver, DialStep, Lose, vars,
           handler
  <2> QED BY <2>1, <2>2, <2>3
<1>2. IInv /\ [Next]_vars => [conn # None /\ conn' # conn =>
                                conn' = None /\ sock'[conn] = "closed"]_vars
  BY <1>1
<1> QED BY <1>2, Invariance, PTL DEF Spec
=============================================================================
