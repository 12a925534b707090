---------------------------- MODULE OrderLedger ----------------------------
(***************************************************************************)
(* What the order book of the engine promises, whatever the link to the    *)
(* server does: an order that ended never works again, and the position    *)
(* counts every execution at most once.  A working order may be lost from  *)
(* sight and be seen again.  Module OrderBook is the detailed              *)
(* specification, of the engine's handlers and the server's messages.      *)
(***************************************************************************)
EXTENDS Naturals

CONSTANTS Orders, Fills

VARIABLES
    live,           \* the orders held as working
    over,           \* the orders that ended
    counted,        \* the executions in the position
    position        \* the position of the orders' contract

vars == <<live, over, counted, position>>

Init == live = {} /\ over = {} /\ counted = {} /\ position = 0

Open(o) == o \notin live \cup over /\ live' = live \cup {o} /\ UNCHANGED over

Close(o) == o \in live /\ live' = live \ {o} /\ over' = over \cup {o}

LoseSight(o) == o \in live /\ live' = live \ {o} /\ UNCHANGED over

\* What may happen to an order.
Turn(o) == Open(o) \/ Close(o) \/ LoseSight(o) \/ UNCHANGED <<live, over>>

\* An execution joins the position.
Count(e) == e \notin counted /\ counted' = counted \cup {e} /\ position' = position + 1

\* One order changes, an execution is counted, or both at once.
Next == \E o \in Orders : Turn(o) /\ (UNCHANGED <<counted, position>> \/ \E e \in Fills : Count(e))

Spec == Init /\ [][Next]_vars
=============================================================================
