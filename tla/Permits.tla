------------------------------ MODULE Permits ------------------------------
(***************************************************************************)
(* What limiter/brr.go promises the layers around it: a client gets its      *)
(* permit in one step, and only while fewer are out than the bound, however  *)
(* many loads and swaps that step is made of; it gives back the one it has.  *)
(* The bound is the highest limit there was: it may be raised at any time.   *)
(***************************************************************************)
EXTENDS Integers

CONSTANTS Clients

VARIABLES out,     \* clients with a permit
          used,    \* how many they are
          bound    \* the most there may be

permitVars == <<out, used, bound>>

Init == out = {} /\ used = 0 /\ bound \in Nat \ {0}

Take(c) == /\ c \notin out
           /\ used < bound
           /\ out' = out \cup {c}
           /\ used' = used + 1
           /\ UNCHANGED bound

Give(c) == /\ c \in out
           /\ out' = out \ {c}
           /\ used' = used - 1
           /\ UNCHANGED bound

Raise == /\ bound' \in Nat /\ bound' > bound
         /\ UNCHANGED <<out, used>>

Next == Raise \/ \E c \in Clients : Take(c) \/ Give(c)

Spec == Init /\ [][Next]_permitVars
=============================================================================
