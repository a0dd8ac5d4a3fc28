------------------------------ MODULE WsHedge ------------------------------
(***************************************************************************)
(* rws/hedge.go: a WebSocket request that names a URL dials it by hedged    *)
(* attempts and hands the connection of the winner on.  The coordinator is  *)
(* that of Hedge without a context of the caller; its pooled state, which   *)
(* Hedge shows to be clean whenever it is taken, is private to the request  *)
(* here.  Nor is dropping a reference a step of its own: nothing depends on  *)
(* it but who empties the channel in the end.  What is new is that a result *)
(* owns a connection, which whoever drops the result has to close.          *)
(*                                                                          *)
(* A connection is named by who opened it: <<r, i>> by the i-th attempt of  *)
(* request r, <<r, 0>> by the Connector for r and <<r, -1>> when r is       *)
(* retried, <<r, -2>> by the caller of r.                                   *)
(***************************************************************************)
EXTENDS Integers

CONSTANTS Requests, None,
          MaxAttempts   \* maxAttempts

ASSUME AttemptsAssumption == MaxAttempts \in Nat /\ MaxAttempts >= 2

VARIABLES phase,    \* where the coordinator of each request is
          attempt,  \* where each attempt is
          chan,     \* dialState.resCh: None, or a result
          sock,     \* the local end of each connection
          drained   \* connections that recycleDialState dropped (history)

Attempts == Requests \X (1..MaxAttempts)
Conns    == Requests \X (-2..MaxAttempts)

hedge  == <<phase, attempt, chan>>
dialed == <<hedge, sock, drained>>

\* A result as the set of its connections: none if the dial failed.
Results(r) == {{}} \cup {{<<r, i>>} : i \in 1..MaxAttempts}

ASSUME NoneAssumption == /\ None \notin Conns \cup Requests
                         /\ \A r \in Requests : None \notin Results(r)

HedgeTypeOK ==
  /\ phase \in [Requests -> {"idle", "waiting", "returned"}]
  /\ attempt \in [Attempts -> {"none", "dialling", "gone"}]
  /\ chan \in [Requests -> (SUBSET Attempts) \cup {None}]
  /\ \A r \in Requests : chan[r] \in Results(r) \cup {None}
  /\ sock \in [Conns -> {"none", "open", "broken", "closed"}]
  /\ drained \subseteq Attempts

HedgeInit ==
  /\ phase = [r \in Requests |-> "idle"]
  /\ attempt = [a \in Attempts |-> "none"]
  /\ chan = [r \in Requests |-> None]
  /\ sock = [c \in Conns |-> "none"]
  /\ drained = {}

----------------------------------------------------------------------------
Phase(r, l)   == phase' = [phase EXCEPT ![r] = l]
Proceed(a, l) == attempt' = [attempt EXCEPT ![a] = l]

Opened(cs) == [c \in Conns |-> IF c \in cs THEN "open" ELSE sock[c]]
Closed(cs) == [c \in Conns |-> IF c \in cs THEN "closed" ELSE sock[c]]

\* Fires the primary attempt.
Start(r) ==
  /\ phase[r] = "idle"
  /\ Phase(r, "waiting")
  /\ Proceed(<<r, 1>>, "dialling")
  /\ UNCHANGED <<chan, sock, drained>>

\* The delay passes without a result: one more attempt.
TimerFires(r) ==
  /\ phase[r] = "waiting"
  /\ \E i \in 2..MaxAttempts : /\ attempt[<<r, i>>] = "none"
                               /\ attempt[<<r, i - 1>>] # "none"
                               /\ Proceed(<<r, i>>, "dialling")
  /\ UNCHANGED <<phase, chan, sock, drained>>

\* Whether others than a hold a reference to the dialState.
OthersBusy(a) == \/ phase[a[1]] = "waiting"
                 \/ \E i \in 1..MaxAttempts :
                      <<a[1], i>> # a /\ attempt[<<a[1], i>>] = "dialling"

\* Takes the first result, cancels the other dials, which may succeed all the
\* same, and drops the coordinator's reference: the channel is empty.
Receive(r) ==
  /\ phase[r] = "waiting"
  /\ chan[r] # None
  /\ chan' = [chan EXCEPT ![r] = None]
  /\ Phase(r, "returned")
  /\ UNCHANGED <<attempt, sock, drained>>

\* Mutant: the loser goes, and its connection stays.
LeaveOpen(a, cs) == Opened(cs)

\* An attempt that finds the channel full closes what it dialled.
CloseLoser(a, cs) == IF chan[a[1]] = None THEN Opened(cs) ELSE Closed(cs)

\* The dialer returns; the attempt reports unless the channel is full, and drops
\* its reference.  The last one runs recycleDialState, which drops the result
\* in the channel.
DialReturns(a, cs) ==
  LET held == IF chan[a[1]] = None THEN cs ELSE chan[a[1]] IN
  /\ attempt[a] = "dialling"
  /\ sock' = CloseLoser(a, cs)
  /\ IF OthersBusy(a)
       THEN chan' = [chan EXCEPT ![a[1]] = held] /\ UNCHANGED drained
       ELSE chan' = [chan EXCEPT ![a[1]] = None] /\ drained' = drained \cup held
  /\ Proceed(a, "gone")
  /\ UNCHANGED phase

\* A dial ends with an error or with a connection.
Dial(a) == DialReturns(a, {}) \/ DialReturns(a, {a})
============================================================================
