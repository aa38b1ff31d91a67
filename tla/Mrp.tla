-------------------------------- MODULE Mrp --------------------------------
(***************************************************************************)
(* The Message Reliability Protocol state of one exchange (exchange/mrp.rs)*)
(* as pure operators: one pending transmission, one owed acknowledgement.  *)
(*                                                                         *)
(* A deadline is computed by the caller from its own notion of time: the   *)
(* retry interval (base_interval, backoff, with_jitter) depends on the     *)
(* peer's activity and a random draw, so callers choose it from a set.     *)
(***************************************************************************)
EXTENDS Integers

CONSTANTS
    MaxTransmissions,   \* MRP_MAX_TRANSMISSIONS, 5 in the code
    None                \* the absent value of an Option

ASSUME MrpAssumption == MaxTransmissions \in Nat \ {0}

NewMrp == [tx |-> None, ack |-> None]

IsAwaitingAck(m) == m.tx # None

\* Mrp::on_send, and its refusal; mutant: a second message replaces the pending one
NeverBusy(m) == FALSE
Busy(m) == IsAwaitingAck(m)
OnSend(m, counter, deadline) ==
    [m EXCEPT !.tx = [counter |-> counter, sent |-> 1, deadline |-> deadline]]

\* Mrp::take_piggyback: the counter to carry, and the state without it
Piggyback(m) == IF m.ack = None THEN None ELSE m.ack.counter
TakePiggyback(m) == [m EXCEPT !.ack = None]

\* Mrp::on_reliable_received: duplicates owe an acknowledgement as well
OnReliableReceived(m, counter, deadline) ==
    [m EXCEPT !.ack = [counter |-> counter, deadline |-> deadline]]

\* Mrp::on_ack: an acknowledgement of anything else is ignored
OnAck(m, counter) ==
    IF IsAwaitingAck(m) /\ m.tx.counter = counter THEN [m EXCEPT !.tx = None] ELSE m

\* Mrp::on_timeout, the owed acknowledgement's half
OnAckTimeout(m) == [m EXCEPT !.ack = None]

\* A mutant of OnTxTimeout: transmissions are not counted
OnTxTimeoutUncounted(m, deadline) == [m EXCEPT !.tx.deadline = deadline]

\* Mrp::on_timeout, the pending transmission's half
GivesUp(m) == m.tx.sent >= MaxTransmissions
OnTxTimeout(m, deadline) ==
    IF GivesUp(m) THEN [m EXCEPT !.tx = None]
    ELSE [m EXCEPT !.tx.sent = @ + 1, !.tx.deadline = deadline]
=============================================================================
