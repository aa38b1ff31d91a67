-------------------------- MODULE ReliableExchange --------------------------
(***************************************************************************)
(* One exchange of one secure session between its initiator and its        *)
(* responder: Messaging's send, acknowledge, receive and poll at both      *)
(* ends (messaging.rs) over Mrp and CounterWindow, and a network that      *)
(* loses, delays, reorders and duplicates.                                 *)
(*                                                                         *)
(* A message sent stays in net and may arrive at any time, any number of   *)
(* times or never. Timers are untimed: one that is running may expire.     *)
(***************************************************************************)
EXTENDS CounterWindow, Mrp, Sequences, Functions

CONSTANTS
    Bodies,        \* the payloads an upper layer may submit, 1 .. some bound
    MaxCounter,    \* MaxCounter[n]: bound on the counters end n uses
    CanBeFull      \* whether an exchange table may be found full on receipt

Ends == {"initiator", "responder"}
Other(n) == IF n = "initiator" THEN "responder" ELSE "initiator"

ASSUME ExchangeAssumption ==
    MaxCounter \in [Ends -> Counters] /\ CanBeFull \in BOOLEAN /\ Bodies \subseteq Nat

\* Mrp's state, a table entry, and a datagram
Mrps ==
    [tx : {None} \cup [counter : Counters, sent : 1 .. MaxTransmissions, deadline : {0}],
     ack : {None} \cup [counter : Counters, deadline : {0}]]
Entries == [mrp : Mrps, ephemeral : BOOLEAN]
Datagrams ==
    [from : Ends, counter : Counters, reliable : BOOLEAN, ack : {None} \cup Counters,
     body : {None} \cup Bodies]

\* The absent value is none of the values that may be there
ASSUME NoneIsApart ==
    /\ None \notin Entries /\ None \notin Bodies /\ None \notin Counters
    /\ None \notin [counter : Counters, sent : 1 .. MaxTransmissions, deadline : {0}]
    /\ None \notin [counter : Counters, deadline : {0}]

VARIABLES
    ex,            \* ex[n]: end n's table entry for this exchange, or None
    next,          \* next[n]: end n's next message counter
    rx,            \* rx[n]: end n's CounterWindow for the session
    net,           \* the datagrams ever sent
    outcome,       \* history: outcome[n][b], see ReliableTransfer
    handed         \* history: handed[n], n's bodies handed up at the other end

vars == <<ex, next, rx, net, outcome, handed>>

NewExchange(ephemeral) == [mrp |-> NewMrp, ephemeral |-> ephemeral]

\* The sender's knowledge of its pending message, once it is settled
Settled(n, how) == [b \in Bodies |-> IF outcome[n][b] = "pending" THEN how ELSE outcome[n][b]]

Init ==
    /\ ex = [n \in Ends |-> IF n = "initiator" THEN NewExchange(FALSE) ELSE None]
    /\ next = [n \in Ends |-> 1]
    /\ rx = [n \in Ends |-> FreshWindow("SecureUnicast")]
    /\ net = {}
    /\ outcome = [n \in Ends |-> [b \in Bodies |-> "unsent"]]
    /\ handed = [n \in Ends |-> <<>>]

-----------------------------------------------------------------------------
\* Messaging::send of the next body on an open exchange
Send(n, b, reliable) ==
    /\ ex[n] # None /\ next[n] <= MaxCounter[n]
    /\ outcome[n][b] = "unsent" /\ \A c \in Bodies : c < b => outcome[n][c] # "unsent"
    /\ reliable => ~Busy(ex[n].mrp)
    /\ LET m == TakePiggyback(ex[n].mrp)
       IN  ex' = [ex EXCEPT ![n].mrp = IF reliable THEN OnSend(m, next[n], 0) ELSE m]
    /\ next' = [next EXCEPT ![n] = @ + 1]
    /\ net' = net \cup {[from |-> n, counter |-> next[n], reliable |-> reliable,
                         ack |-> Piggyback(ex[n].mrp), body |-> b]}
    /\ outcome' = [outcome EXCEPT ![n][b] = IF reliable THEN "pending" ELSE "unreliable"]
    /\ UNCHANGED <<rx, handed>>

\* Messaging::send refused with Busy, after the piggyback and a counter were taken
SendBusy(n) ==
    /\ ex[n] # None /\ next[n] <= MaxCounter[n]
    /\ Busy(ex[n].mrp)
    /\ ex' = [ex EXCEPT ![n].mrp = TakePiggyback(@)]
    /\ next' = [next EXCEPT ![n] = @ + 1]
    /\ UNCHANGED <<rx, net, outcome, handed>>

\* Removing the table entry; a transmission still pending is given up with it
Drop(n) ==
    /\ ex' = [ex EXCEPT ![n] = None]
    /\ outcome' = [outcome EXCEPT ![n] = Settled(n, "abandoned")]

\* Messaging::acknowledge on an exchange whose reliability state is m
AcknowledgeWith(n, m) ==
    /\ IF ex[n].ephemeral
       THEN Drop(n)
       ELSE ex' = [ex EXCEPT ![n].mrp = TakePiggyback(m)] /\ UNCHANGED outcome
    /\ IF m.ack = None
       THEN UNCHANGED <<next, net>>
       ELSE /\ next[n] <= MaxCounter[n]
            /\ next' = [next EXCEPT ![n] = @ + 1]
            /\ net' = net \cup {[from |-> n, counter |-> next[n], reliable |-> FALSE,
                                 ack |-> Piggyback(m), body |-> None]}
    /\ UNCHANGED <<rx, handed>>

Acknowledge(n) == ex[n] # None /\ AcknowledgeWith(n, ex[n].mrp)

\* Messaging::close, by the upper layer or by the reaper
Close(n) == ex[n] # None /\ Drop(n) /\ UNCHANGED <<next, rx, net, handed>>

-----------------------------------------------------------------------------
\* Messaging::route: the entry a message arriving at n is processed on, or None
Route(n, m, duplicate) ==
    IF ex[n] # None THEN ex[n]
    ELSE IF n = "initiator" THEN None
    ELSE IF ~duplicate THEN NewExchange(FALSE)
    ELSE IF m.reliable THEN NewExchange(TRUE)
    ELSE None

\* What receive returns as Received::Message; mutant: duplicates as well
HandsUpDuplicates(m, duplicate) == m.body # None
HandsUp(m, duplicate) == ~duplicate /\ m.body # None

\* Messaging::receive once the message is routed to entry e
Process(n, m, e, duplicate) ==
    LET acked == IF m.ack = None THEN e.mrp ELSE OnAck(e.mrp, m.ack)
    IN  /\ ex' = [ex EXCEPT ![n] = [e EXCEPT !.mrp =
                    IF m.reliable THEN OnReliableReceived(acked, m.counter, 0) ELSE acked]]
        /\ outcome' = IF IsAwaitingAck(e.mrp) /\ ~IsAwaitingAck(acked)
                      THEN [outcome EXCEPT ![n] = Settled(n, "confirmed")] ELSE outcome
        /\ handed' = IF HandsUp(m, duplicate)
                     THEN [handed EXCEPT ![m.from] = Append(@, m.body)] ELSE handed

\* Messaging::receive: the counter is judged first, whatever becomes of the message
Receive(n, m) ==
    /\ m.from = Other(n)
    /\ rx' = [rx EXCEPT ![n] = Accept(@, m.counter)]
    /\ LET duplicate == Verdict(rx[n], m.counter) = "Duplicate"
           e == Route(n, m, duplicate)
       IN  \/ e # None /\ Process(n, m, e, duplicate)
           \/ /\ e = None \/ (CanBeFull /\ ex[n] = None)
              /\ UNCHANGED <<ex, outcome, handed>>
    /\ UNCHANGED <<next, net>>

-----------------------------------------------------------------------------
\* poll answers Due::Acknowledge, and its caller calls acknowledge
PollAcknowledge(n) ==
    /\ ex[n] # None /\ ex[n].mrp.ack # None
    /\ AcknowledgeWith(n, OnAckTimeout(ex[n].mrp))

\* Mutant of PollRetransmit: the message is encoded again, with what is owed by now
PollRetransmitReencoded(n) ==
    /\ ex[n] # None /\ IsAwaitingAck(ex[n].mrp) /\ ~GivesUp(ex[n].mrp)
    /\ ex' = [ex EXCEPT ![n].mrp = OnTxTimeout(TakePiggyback(@), 0)]
    /\ net' = net \cup {[m EXCEPT !.ack = Piggyback(ex[n].mrp)] :
                         m \in {o \in net : o.from = n /\ o.counter = ex[n].mrp.tx.counter}}
    /\ UNCHANGED <<next, rx, outcome, handed>>

\* poll answers Due::Retransmit: the same bytes go out again, and net has them
PollRetransmit(n) ==
    /\ ex[n] # None /\ IsAwaitingAck(ex[n].mrp) /\ ~GivesUp(ex[n].mrp)
    /\ ex' = [ex EXCEPT ![n].mrp = OnTxTimeout(@, 0)]
    /\ UNCHANGED <<next, rx, net, outcome, handed>>

\* poll answers Due::Abandoned, having closed the exchange
PollAbandoned(n) ==
    /\ ex[n] # None /\ IsAwaitingAck(ex[n].mrp) /\ GivesUp(ex[n].mrp)
    /\ Drop(n)
    /\ UNCHANGED <<next, rx, net, handed>>

Next ==
    \E n \in Ends :
        \/ \E b \in Bodies, reliable \in BOOLEAN : Send(n, b, reliable)
        \/ SendBusy(n)
        \/ Acknowledge(n)
        \/ Close(n)
        \/ \E m \in net : Receive(n, m)
        \/ PollAcknowledge(n)
        \/ PollRetransmit(n)
        \/ PollAbandoned(n)

\* The device loop calls poll at every wake_at, so an expired transmission timer
\* is always served; nothing is assumed of the network or of the upper layers
Fairness == \A n \in Ends : WF_vars(PollRetransmit(n) \/ PollAbandoned(n))

Spec == Init /\ [][Next]_vars /\ Fairness

-----------------------------------------------------------------------------
Promised == {"unsent", "unreliable", "pending", "confirmed", "abandoned"}
Pending(n) == {b \in Bodies : outcome[n][b] = "pending"}

\* Every variable has its type, and each end's counter supply covers its datagrams
TypeOK ==
    /\ ex \in [Ends -> {None} \cup Entries]
    /\ next \in [Ends -> Nat] /\ \A n \in Ends : next[n] \in 1 .. MaxCounter[n] + 1
    /\ rx \in [Ends -> Windows]
    /\ net \subseteq Datagrams /\ \A m \in net : m.counter < next[m.from]
    /\ outcome \in [Ends -> [Bodies -> Promised]]
    /\ handed \in [Ends -> Seq(Bodies)]

\* A datagram is identified by its counter: no end puts two different ones on the
\* wire under one counter, so a retransmission is never a nonce reuse
OneDatagramPerCounter ==
    \A m, o \in net : m.from = o.from /\ m.counter = o.counter => m = o

\* What an end waits for is what its table entry says it waits for, and it was sent:
\* send, on_ack, give-up and close keep the upper layer's view and Mrp in step
PendingIsOnTheWire ==
    \A n \in Ends :
        /\ (ex[n] # None /\ IsAwaitingAck(ex[n].mrp)) <=> Pending(n) # {}
        /\ Pending(n) # {} => \E m \in net :
            /\ m.from = n /\ m.counter = ex[n].mrp.tx.counter
            /\ m.reliable /\ Pending(n) = {m.body}

\* The messages of n that have fallen behind the other end's window
Overtaken(n) ==
    {m.body : m \in {o \in net : o.from = n /\ o.body # None
                               /\ rx[Other(n)].max > o.counter + WindowSize}}

\* An acknowledgement settles the message it names and no other: whatever is
\* confirmed to its sender was handed up by the other end's receive, unless the session
\* went on by more than a window before it came and it was taken for a duplicate
ConfirmedWasHanded ==
    \A n \in Ends : \A b \in Bodies :
        outcome[n][b] = "confirmed" => b \in Range(handed[n]) \cup Overtaken(n)

\* Stop and wait keeps order: a confirmed message is never overtaken by a reliable
\* one its sender submitted later (on_send's Busy)
ConfirmedInOrder ==
    \A n \in Ends : \A i, j \in 1 .. Len(handed[n]) :
        (i < j /\ handed[n][j] < handed[n][i] /\ outcome[n][handed[n][i]] # "unreliable")
            => outcome[n][handed[n][j]] # "confirmed"

\* Every reliable message is settled: acknowledged, given up after
\* MaxTransmissions, or dropped with its exchange (Mrp::on_timeout). An end is then left
\* with none pending, however often it sends again
EventuallySettled == \A n \in Ends : Pending(n) # {} ~> Pending(n) = {}

\* The exchange implements what it promises its upper layers
Promise == INSTANCE ReliableTransfer WITH overtaken <- [n \in Ends |-> Overtaken(n)]
Implements == Promise!Spec
=============================================================================
