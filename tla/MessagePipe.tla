---------------------------- MODULE MessagePipe ----------------------------
(***************************************************************************)
(* What a BTP connection promises the layer above it: in each direction,   *)
(* the messages accepted at one end come out at the other, whole, in       *)
(* order, once each, and every one of them does come out unless the        *)
(* connection is lost first.                                               *)
(***************************************************************************)
EXTENDS Sequences

CONSTANTS
    Directions,     \* the two directions of the connection
    Messages        \* what can be sent

VARIABLES
    queue,          \* in each direction, the messages accepted and not yet handed over
    out,            \* in each direction, the messages handed over
    lost            \* whether the connection is lost

vars == <<queue, out, lost>>

Init ==
    /\ queue = [d \in Directions |-> <<>>]
    /\ out = [d \in Directions |-> <<>>]
    /\ lost = FALSE

Accept(d) ==
    /\ \E m \in Messages : queue' = [queue EXCEPT ![d] = Append(@, m)]
    /\ UNCHANGED <<out, lost>>

HandOver(d) ==
    /\ queue[d] # <<>>
    /\ out' = [out EXCEPT ![d] = Append(@, Head(queue[d]))]
    /\ queue' = [queue EXCEPT ![d] = Tail(@)]
    /\ UNCHANGED lost

\* What had reached the far end is still handed over, the rest never is
Lose == lost' = TRUE /\ UNCHANGED <<queue, out>>

Next == (\E d \in Directions : Accept(d) \/ HandOver(d)) \/ Lose

Spec ==
    /\ Init /\ [][Next]_vars
    /\ \A d \in Directions : WF_vars(~lost /\ HandOver(d))
=============================================================================
