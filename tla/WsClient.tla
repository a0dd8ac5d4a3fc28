------------------------------ MODULE WsClient ------------------------------
(***************************************************************************)
(* rws/client.go, rws/retry.go and rws/timeout.go: a PersistentHandler       *)
(* shares one connection among all requests, adopts the one a hedged dial   *)
(* brings, or calls its Connector, and drops it after an error; WsHandler   *)
(* writes a message and reads an answer under a read deadline that belongs  *)
(* to the connection; the retry layer may call again; the timeout layer,    *)
(* with Read and Session set, sets one more deadline and may find the       *)
(* session over.                                                            *)
(*                                                                          *)
(* Writes do not overlap in time, nor do reads (gorilla/websocket panics,   *)
(* or races, if they do); between its write and its read a request is open  *)
(* to all others.  The server answers sooner, later or never.               *)
(***************************************************************************)
EXTENDS WsHedge

VARIABLES conn, mu,   \* of the PersistentHandler; who holds mu, or None
          stage,      \* where each request is
          retried,    \* requests on their second and last try
          given,      \* req.Conn, or None
          mine,       \* activeConn, from its adoption to its release
          deadline,   \* connections with a read deadline
          mingled,    \* requests that shared a connection (history)
          ignored     \* connections dialled for nothing (history)

handler == <<conn, mu>>
request == <<stage, retried, given, mine>>
history == <<mingled, ignored>>
vars    == <<dialed, handler, request, deadline, history>>

TypeOK ==
  /\ HedgeTypeOK
  /\ conn \in Conns \cup {None}
  /\ mu \in Requests \cup {None}
  /\ stage \in [Requests -> {"idle", "dialling", "entering", "connecting",
                             "writing", "reading", "failed", "timedOut",
                             "answered", "erred", "overdue", "returned"}]
  /\ retried \subseteq Requests
  /\ given \in [Requests -> Conns \cup {None}]
  /\ mine \in [Requests -> Conns \cup {None}]
  /\ deadline \subseteq Conns
  /\ mingled \subseteq Requests
  /\ ignored \subseteq Attempts

Init ==
  /\ HedgeInit
  /\ conn = None /\ mu = None
  /\ stage = [r \in Requests |-> "idle"]
  /\ retried = {}
  /\ given = [r \in Requests |-> None]
  /\ mine = [r \in Requests |-> None]
  /\ deadline = {}
  /\ mingled = {} /\ ignored = {}

----------------------------------------------------------------------------
To(r, l) == stage' = [stage EXCEPT ![r] = l]

(* The hedge layer.                                                         *)

\* The connection that the caller of r may bring.
Own(r) == <<r, -2>>

\* A request with a URL and no connection is dialled for.
SendURL(r) ==
  /\ stage[r] = "idle"
  /\ Start(r)
  /\ To(r, "dialling")
  /\ UNCHANGED <<handler, retried, given, mine, deadline, history>>

\* The fast path: without a URL ...
SendBare(r) ==
  /\ stage[r] = "idle"
  /\ To(r, "entering")
  /\ UNCHANGED <<dialed, handler, retried, given, mine, deadline, history>>

\* ... or with a connection that the caller has opened, on which the timeout
\* layer has set a read deadline.
SendConn(r) ==
  /\ stage[r] = "idle"
  /\ given' = [given EXCEPT ![r] = Own(r)]
  /\ sock' = Opened({Own(r)})
  /\ deadline' = deadline \cup {Own(r)}
  /\ To(r, "entering")
  /\ UNCHANGED <<hedge, drained, handler, retried, mine, history>>

\* The hedge returns the error of its winner, or calls the handler with the
\* winner's connection.
DialOver(r) ==
  /\ Receive(r)
  /\ IF chan[r] = {}
       THEN To(r, "erred") /\ UNCHANGED given
       ELSE /\ \E c \in chan[r] : given' = [given EXCEPT ![r] = c]
            /\ To(r, "entering")
  /\ UNCHANGED <<handler, retried, mine, deadline, history>>

----------------------------------------------------------------------------
(* PersistentHandler.                                                       *)

\* The connection of the caller, until the timeout layer returns.
CallersConn(r) == {Own(r)} \cap {given[r]}

\* Requests that may still set or clear deadlines of c, or close it.
On(c) == {q \in Requests : mine[q] = c \/ c \in CallersConn(q)}

Use(r, c) == LET others == On(c) \ {r} IN
             /\ mine' = [mine EXCEPT ![r] = c]
             /\ mingled' = IF others = {} THEN mingled
                                          ELSE mingled \cup others \cup {r}
             /\ To(r, "writing")

\* Takes the connection there is, whatever the request brings ...
Reuse(r) ==
  /\ stage[r] = "entering" /\ mu = None
  /\ conn # None
  /\ Use(r, conn)
  /\ ignored' = ignored \cup ({given[r]} \cap Attempts)
  /\ UNCHANGED <<dialed, handler, retried, given, deadline>>

\* ... or adopts that one ...
Adopt(r) ==
  /\ stage[r] = "entering" /\ mu = None
  /\ conn = None /\ given[r] # None
  /\ conn' = given[r]
  /\ Use(r, given[r])
  /\ UNCHANGED <<dialed, mu, retried, given, deadline, ignored>>

\* ... or calls the Connector with mu held.
Connect(r) ==
  /\ stage[r] = "entering" /\ mu = None
  /\ conn = None /\ given[r] = None
  /\ mu' = r
  /\ To(r, "connecting")
  /\ UNCHANGED <<dialed, conn, retried, given, mine, deadline, history>>

\* What the Connector opens: another connection each time.
New(r) == <<r, IF r \in retried THEN -1 ELSE 0>>

Connected(r) ==
  /\ stage[r] = "connecting"
  /\ sock' = Opened({New(r)})
  /\ conn' = New(r) /\ mu' = None
  /\ Use(r, New(r))
  /\ UNCHANGED <<hedge, drained, retried, given, deadline, ignored>>

\* Mutant: forgets the lock on the way out.
KeepLock == UNCHANGED mu

Unlock == mu' = None

NotConnected(r) ==
  /\ stage[r] = "connecting"
  /\ Unlock
  /\ To(r, "erred")
  /\ UNCHANGED <<dialed, conn, retried, given, mine, deadline, history>>

\* Mutant: closes the connection and keeps it.
CloseOnly(r) == sock' = Closed({mine[r]} \cap {conn}) /\ UNCHANGED conn

\* Mutant: forgets the connection of whoever has reconnected meanwhile.
InvalidateAny(r) == sock' = Closed({mine[r]}) /\ conn' = None

\* Closes and forgets the connection, unless somebody else has.
Invalidate(r) == /\ sock' = Closed({mine[r]} \cap {conn})
                 /\ conn' = IF conn = mine[r] THEN None ELSE conn

AfterError(r) ==
  /\ stage[r] \in {"failed", "timedOut"} /\ mu = None
  /\ Invalidate(r)
  /\ mine' = [mine EXCEPT ![r] = None]
  /\ To(r, IF stage[r] = "failed" THEN "erred" ELSE "overdue")
  /\ UNCHANGED <<hedge, drained, mu, retried, given, deadline, history>>

----------------------------------------------------------------------------
(* WsHandler.                                                               *)

\* Mutant: does not ask whether the request came with a connection.
DeadlineUnchecked(r) == {given[r]}

\* Mutant: a deadline for the connection the request came with.
DeadlineOfGiven(r) == CallersConn(r)

\* SetReadDeadline on activeConn.
ReadDeadline(r) == {mine[r]}

\* The deferred SetReadDeadline(time.Time{}).
ClearDeadline(r) == deadline' = deadline \ {mine[r]}

\* Sets the deadline and writes the message.
Write(r) ==
  /\ stage[r] = "writing" /\ sock[mine[r]] = "open"
  /\ deadline' = deadline \cup ReadDeadline(r)
  /\ To(r, "reading")
  /\ UNCHANGED <<dialed, handler, retried, given, mine, history>>

\* An answer comes, to its own message or to one of another reader.
Read(r) ==
  /\ stage[r] = "reading" /\ sock[mine[r]] = "open"
  /\ ClearDeadline(r)
  /\ mine' = [mine EXCEPT ![r] = None]
  /\ To(r, "answered")
  /\ UNCHANGED <<dialed, handler, retried, given, history>>

\* The connection is lost, or another request has closed it or run into its
\* deadline, which every later read reports again.
Fail(r) ==
  /\ stage[r] \in {"writing", "reading"} /\ sock[mine[r]] # "open"
  /\ ClearDeadline(r)
  /\ \/ To(r, "failed")
     \/ sock[mine[r]] = "broken" /\ To(r, "timedOut")
  /\ UNCHANGED <<dialed, handler, retried, given, mine, history>>

\* The read deadline passes; no read of this connection succeeds any more.
TimeOut(r) ==
  /\ stage[r] = "reading" /\ sock[mine[r]] = "open" /\ mine[r] \in deadline
  /\ sock' = [sock EXCEPT ![mine[r]] = "broken"]
  /\ ClearDeadline(r)
  /\ To(r, "timedOut")
  /\ UNCHANGED <<hedge, drained, handler, retried, given, mine, history>>

----------------------------------------------------------------------------
\* The retry layer tries once more, with the request as it was (bound: once, and
\* only requests that dial no URL, since a second dial is one more request).
Retry(r) ==
  /\ stage[r] \in {"erred", "overdue"} /\ r \notin retried /\ phase[r] = "idle"
  /\ retried' = retried \cup {r}
  /\ To(r, "entering")
  /\ UNCHANGED <<dialed, handler, given, mine, deadline, history>>

(* The timeout layer; its req.Conn is the one the caller gave, if any, and  *)
(* its deferred calls clear the deadline of that one.                       *)

Back(r) == /\ deadline' = deadline \ CallersConn(r)
           /\ given' = [given EXCEPT ![r] = None]
           /\ To(r, "returned")

InTime(r) == /\ stage[r] \in {"answered", "erred", "overdue"}
             /\ Back(r)
             /\ UNCHANGED <<dialed, handler, retried, mine, history>>

\* The session deadline has passed: the answer is dropped, the connection
\* closed.  (A timeout of the read is told before the session is looked at.)
SessionOver(r) ==
  /\ stage[r] \in {"answered", "erred"}
  /\ sock' = Closed(CallersConn(r))
  /\ Back(r)
  /\ UNCHANGED <<hedge, drained, handler, retried, mine, history>>

\* The remote end, or the network, ends a connection; nobody sees it before the
\* next round trip.
Lose(c) == /\ sock[c] = "open" /\ \E r \in Requests : mine[r] = c
           /\ sock' = [sock EXCEPT ![c] = "broken"]
           /\ UNCHANGED <<hedge, drained, handler, request, deadline, history>>

----------------------------------------------------------------------------
Send(r) == SendURL(r) \/ SendBare(r) \/ SendConn(r)

\* A step of a request that waits for no server.
Step(r) == \/ TimerFires(r) /\ UNCHANGED <<handler, request, deadline, history>>
           \/ DialOver(r)
           \/ Reuse(r) \/ Adopt(r)
           \/ Connect(r) \/ Connected(r) \/ NotConnected(r)
           \/ Write(r) \/ Fail(r) \/ TimeOut(r) \/ AfterError(r)
           \/ Retry(r) \/ InTime(r) \/ SessionOver(r)

DialStep(a) == Dial(a) /\ UNCHANGED <<handler, request, deadline, history>>

Next == \/ \E r \in Requests : Send(r) \/ Step(r) \/ Read(r)
        \/ \E a \in Attempts : DialStep(a)
        \/ \E c \in Conns : Lose(c)

Spec == Init /\ [][Next]_vars

\* Goroutines are scheduled, timers fire, and dials and the Connector return in
\* the end; a server need not answer.
FairSpec == /\ Spec
            /\ \A r \in Requests : WF_vars(Step(r))
            /\ \A a \in Attempts : WF_vars(DialStep(a))
----------------------------------------------------------------------------
(* Safety.                                                                  *)

\* A dial for r goes on.
Dialling(r) == \E i \in 1..MaxAttempts : attempt[<<r, i>>] = "dialling"

\* Who still has connection c in hand: the handler, a round trip, a request on
\* its way to the handler, a dial that goes on, or the caller who opened it.
Owned(c) ==
  \/ conn = c
  \/ \E r \in Requests :
       \/ mine[r] = c
       \/ given[r] = c /\ stage[r] = "entering"
       \/ chan[r] = {c} /\ (phase[r] = "waiting" \/ Dialling(r))
  \/ c \in {Own(r) : r \in Requests}

Unclosed == {c \in Conns : sock[c] \in {"open", "broken"}}

\* However dials, hand-overs, errors and invalidations interleave, a connection
\* that is not closed is in somebody's hands, or it was lost in one of two ways:
\* it lost the race but found the channel free again, or its request came upon
\* a handler that had a connection.
Accounted == \A c \in Unclosed : Owned(c) \/ c \in drained \cup ignored

\* All round trips are on the handler's connection; those that an invalidation
\* left behind are on a closed one and will fail (client.go l.72-80).
OneConnection ==
  \A r \in Requests : mine[r] \in {None, conn} \/ sock[mine[r]] = "closed"

\* The handler keeps no connection that it has closed.  Only one that came from a
\* caller may be closed under its hands, when the timeout layer finds the session
\* of that caller over, or be closed when it comes, with a retry: then somebody is
\* still on it, who will fail and have the handler forget it.
NoDeadHandle ==
  conn # None /\ sock[conn] = "closed" =>
    \E r \in Requests : /\ conn = Own(r)
                        /\ stage[r] = "returned" \/ \E q \in Requests : mine[q] = conn

----------------------------------------------------------------------------
(* Liveness, under FairSpec.                                                *)

\* With a read timeout every request returns although the server is silent,
\* connections break and the Connector fails, unless it shared a connection:
\* another request may have cleared its deadline.
Returns ==
  \A r \in Requests :
    stage[r] # "idle" ~> (stage[r] = "returned" \/ r \in mingled)

----------------------------------------------------------------------------
(* What the repository says and the code does not keep.                     *)

\* rws/hedge.go: "The first successful connection is used; others are cleanly
\* closed."  The others: who lost the race is in somebody's hands or closed (what
\* becomes of a winner that is not used is a question of its own).
OthersClosed == \A c \in (Unclosed \cap Attempts) \ ignored : Owned(c)

\* rws/client.go: "Apply per-request read timeout": with a read timeout nobody
\* waits for ever for a silent server, at least if one request reads at a time, as
\* gorilla/websocket demands.
ReadsAlone ==
  \A r, q \in Requests : stage[r] = "reading" /\ stage[q] = "reading" => r = q

ReadsEnd ==
  []ReadsAlone => \A r \in Requests : stage[r] = "reading" ~> stage[r] # "reading"
============================================================================
