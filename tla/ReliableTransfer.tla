-------------------------- MODULE ReliableTransfer --------------------------
(***************************************************************************)
(* What an exchange promises its two upper layers, network and timers out  *)
(* of sight: each end submits numbered messages, at most one of them       *)
(* reliable and unsettled at a time; each is handed to the other end at    *)
(* most once; a reliable one is abandoned, or confirmed only after it was  *)
(* handed over. The exception is a message overtaken: the session went on  *)
(* for more than the receiver's window without it, so that it is confirmed *)
(* as a duplicate when it comes at last, and never handed over.            *)
(***************************************************************************)
EXTENDS Integers, Sequences, Functions

CONSTANTS Ends, Bodies

VARIABLES
    outcome,       \* outcome[e][b]: what became of e's message b, as e knows
    handed,        \* handed[e]: e's messages handed up at the other end, in order
    overtaken      \* overtaken[e]: e's messages too old for the other end to take

vars == <<outcome, handed, overtaken>>

Init ==
    /\ outcome = [e \in Ends |-> [b \in Bodies |-> "unsent"]]
    /\ handed = [e \in Ends |-> <<>>]
    /\ overtaken = [e \in Ends |-> {}]

Submit(e, b) ==
    /\ outcome[e][b] = "unsent"
    /\ \E how \in {"unreliable", "pending"} :
        /\ how = "pending" => \A c \in Bodies : outcome[e][c] # "pending"
        /\ outcome' = [outcome EXCEPT ![e][b] = how]
    /\ UNCHANGED handed

Settle(e, b) ==
    /\ outcome[e][b] = "pending"
    /\ \/ b \in Range(handed'[e]) \cup overtaken'[e]
          /\ outcome' = [outcome EXCEPT ![e][b] = "confirmed"]
       \/ outcome' = [outcome EXCEPT ![e][b] = "abandoned"]

Hand(e, b) ==
    /\ outcome[e][b] # "unsent"
    /\ b \notin Range(handed[e]) \cup overtaken[e]
    /\ handed' = [handed EXCEPT ![e] = Append(@, b)]

\* One arriving message may carry a body, confirm one of the other end's, and overtake
\* those before it
Next ==
    /\ \/ UNCHANGED <<outcome, handed>>
       \/ \E e \in Ends, b \in Bodies :
            \/ Submit(e, b)
            \/ Settle(e, b) /\ UNCHANGED handed
            \/ Hand(e, b) /\ UNCHANGED outcome
            \/ \E d \in Ends \ {e}, c \in Bodies : Hand(e, b) /\ Settle(d, c)
    /\ \A e \in Ends :
        /\ overtaken[e] \subseteq overtaken'[e]
        /\ \A b \in overtaken'[e] \ overtaken[e] : outcome[e][b] # "unsent"

Spec == Init /\ [][Next]_vars
=============================================================================
