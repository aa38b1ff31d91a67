----------------------------- MODULE Messaging -----------------------------
(***************************************************************************)
(* A node's session and exchange tables (messaging.rs, session.rs,         *)
(* exchange/table.rs) under arbitrary traffic: installing and evicting     *)
(* sessions, opening, routing, reaping and closing exchanges, and the      *)
(* reliability timers of every open exchange.                              *)
(*                                                                         *)
(* When a session was last used is kept as an order among the sessions, so *)
(* a use makes a session the last in it. Timers count down and idle times  *)
(* count up with Tick. What CounterWindow says of an arriving counter      *)
(* is an input here, and so is whether its acknowledgement names the       *)
(* pending message: ReplayProtection and ReliableExchange check those. The *)
(* Unsecured Session Context, which only fills header fields, is left out. *)
(***************************************************************************)
EXTENDS Mrp, FiniteSets, Functions

CONSTANTS
    SessionIds,     \* local session ids
    Unsecured,      \* the unsecured session's id, 0 in the code
    Fabrics,        \* fabric indexes
    ExchangeIds,    \* an initial segment of Nat, the u16 exchange ids
    PeerIds,        \* the exchange ids peers choose for exchanges they initiate
    MaxSessions,    \* S, the capacity of the session table
    MaxExchanges,   \* X, the capacity of the exchange table
    AckWait,        \* MRP_STANDALONE_ACK_TIMEOUT, in ticks
    RetryWaits,     \* the retransmission intervals, in ticks
    IdleTimeout     \* EXCHANGE_IDLE_TIMEOUT, in ticks

ASSUME MessagingAssumption ==
    /\ Unsecured \notin SessionIds
    /\ MaxSessions \in Nat \ {0} /\ MaxExchanges \in Nat \ {0}
    /\ PeerIds \subseteq ExchangeIds
    /\ IsFiniteSet(ExchangeIds) /\ MaxExchanges < Cardinality(ExchangeIds)
    /\ ExchangeIds = 0 .. Cardinality(ExchangeIds) - 1
    /\ AckWait \in Nat /\ RetryWaits \subseteq Nat /\ IdleTimeout \in Nat

VARIABLES
    sessions,       \* the session table, a set of [id, fabric]
    older,          \* SessionTimestamp: <<a, b>> when a was last used before b
    exchanges,      \* the exchange table: key :> entry
    nextId          \* ExchangeTable::next_id

vars == <<sessions, older, exchanges, nextId>>

Keys == [session : SessionIds \cup {Unsecured}, id : ExchangeIds, role : {"initiator", "responder"}]
Open == DOMAIN exchanges
Live == {s.id : s \in sessions}
FullOffByOne == Cardinality(Open) > MaxExchanges    \* mutant of Full
Full == Cardinality(Open) >= MaxExchanges

Entry(ephemeral) == [mrp |-> NewMrp, ephemeral |-> ephemeral, idle |-> 0]

Init ==
    /\ sessions = {} /\ older = {}
    /\ exchanges = <<>>
    /\ nextId \in ExchangeIds

-----------------------------------------------------------------------------
\* SessionTimestamp set to now, by next_counter and accept_counter
Latest(order, ids, id) == {p \in order : p[1] # id} \cup ((ids \ {id}) \X {id})
Use(id) ==
    /\ older' = IF id \in Live THEN Latest(older, Live, id) ELSE older
    /\ UNCHANGED sessions

\* SessionTable::least_recently_used
LeastRecentlyUsed == {id \in Live : \A p \in older : p[2] # id}

\* SessionTable::remove and remove_fabric
WithoutSessions(ids) == {s \in sessions : s.id \notin ids}
WithoutAge(ids) == {p \in older : p[1] \notin ids /\ p[2] \notin ids}
Drop(ids) == sessions' = WithoutSessions(ids) /\ older' = WithoutAge(ids)

WithoutExchangesKept(id) == exchanges    \* mutant of WithoutExchanges
WithoutExchanges(id) == Restrict(exchanges, {k \in Open : k.session # id})
Put(table, key, entry) == [k \in DOMAIN table \cup {key} |-> IF k = key THEN entry ELSE table[k]]

AbandonedByIdle(e) == e.idle > IdleTimeout    \* mutant of Abandoned: a pending message is no excuse
Abandoned(e) == ~IsAwaitingAck(e.mrp) /\ e.idle > IdleTimeout

ReapedNever == exchanges    \* mutant of Reaped

\* ExchangeTable::reap
Reaped == Restrict(exchanges, {k \in Open : ~Abandoned(exchanges[k])})

\* ExchangeTable::allocate_id: the first id from next_id on that is not in use
Successor(id) == (id + 1) % Cardinality(ExchangeIds)
InUse(session, id) == [session |-> session, id |-> id, role |-> "initiator"] \in Open
Distance(id) == (id - nextId) % Cardinality(ExchangeIds)
Allocated(session) ==
    CHOOSE id \in ExchangeIds :
        /\ ~InUse(session, id)
        /\ \A other \in ExchangeIds : ~InUse(session, other) => Distance(id) <= Distance(other)

\* ExchangeTable::open_initiator; the id is spent even when there is no room
OpenInitiator(session) ==
    /\ \E id \in ExchangeIds : ~InUse(session, id)
    /\ LET id == Allocated(session)
           key == [session |-> session, id |-> id, role |-> "initiator"]
       IN  /\ nextId' = Successor(id)
           /\ exchanges' = IF Full THEN exchanges ELSE Put(exchanges, key, Entry(FALSE))

\* Messaging::open, open_to, open_unsecured, open_unsecured_to
OpenExchange(session) ==
    /\ session \in Live \cup {Unsecured}
    /\ OpenInitiator(session)
    /\ UNCHANGED <<sessions, older>>

\* open on a session that has gone, as a stale subscription does: the send that
\* follows answers NoSession and the exchange is closed at once (light.rs)
OpenStale(session) ==
    /\ session \in SessionIds \ Live
    /\ nextId' = Successor(Allocated(session))
    /\ UNCHANGED <<sessions, older, exchanges>>

\* Messaging::close
CloseExchange(key) ==
    /\ exchanges' = Restrict(exchanges, Open \ {key})
    /\ UNCHANGED <<sessions, older, nextId>>

-----------------------------------------------------------------------------
\* SessionTable::insert, once the sessions of gone have left: an id in use is refused
Insert(gone, id, fabric) ==
    IF id \in Live \ gone THEN Drop(gone)
    ELSE /\ sessions' = WithoutSessions(gone) \cup {[id |-> id, fabric |-> fabric]}
         /\ older' = Latest(WithoutAge(gone), Live \ gone, id)

\* Messaging::install_session, with room for the session
Install(id, fabric) ==
    /\ Cardinality(sessions) < MaxSessions
    /\ Insert({}, id, fabric)
    /\ UNCHANGED <<exchanges, nextId>>

\* Messaging::install_session, with the table full: the report to the evicted peer is
\* framed on an exchange of its own, which goes with the session, or there is no room for it
Evict(victim, id, fabric) ==
    /\ Cardinality(sessions) >= MaxSessions
    /\ victim \in LeastRecentlyUsed
    /\ IF Full THEN UNCHANGED <<sessions, older, exchanges>>
       ELSE Insert({victim}, id, fabric) /\ exchanges' = WithoutExchanges(victim)
    /\ nextId' = Successor(Allocated(victim))

\* Messaging::close_session
CloseSession(id) ==
    /\ id \in Live
    /\ Drop({id})
    /\ exchanges' = WithoutExchanges(id)
    /\ UNCHANGED nextId

\* Messaging::remove_fabric
RemoveFabric(fabric) ==
    LET doomed == {s.id : s \in {t \in sessions : t.fabric = fabric}}
    IN  /\ doomed # {}
        /\ exchanges' = Restrict(exchanges, {k \in Open : k.session \notin doomed})
        /\ Drop(doomed)
        /\ UNCHANGED nextId

-----------------------------------------------------------------------------
\* What distinguishes arriving messages: registered decides only about opening, a
\* standalone acknowledgement acknowledges, a CLOSE_SESSION report ends its session
Messages ==
    {m \in [session : SessionIds \cup {Unsecured}, id : ExchangeIds, initiator : BOOLEAN,
            reliable : BOOLEAN, registered : BOOLEAN, acks : BOOLEAN,
            kind : {"data", "ack", "close"}] :
        /\ IF m.initiator THEN m.id \in PeerIds ELSE m.registered
        /\ m.kind # "data" => m.registered /\ ~m.reliable /\ m.acks = (m.kind = "ack")
        /\ m.session = Unsecured => m.kind # "close"}

\* ExchangeTable::find_for_message
KeyOf(m) ==
    [session |-> m.session, id |-> m.id, role |-> IF m.initiator THEN "responder" ELSE "initiator"]

\* Messaging::route, rules 1 and 2 for a message that matches no exchange
OpensResponder(m, duplicate) == m.initiator /\ ~duplicate /\ m.registered
OpensEphemeral(m, duplicate) == m.initiator /\ (duplicate \/ ~m.registered) /\ m.reliable

\* insert_under_pressure reaps only when the table is full
UnderPressure == IF Full THEN Reaped ELSE exchanges

\* Messaging::receive up to route: there is a session, or none is needed
Arrives(m) == m.session \in Live \cup {Unsecured}

\* receive refused: no exchange and none to open (rule 3), or no room for one
ReceiveRefused(m, duplicate) ==
    /\ Arrives(m)
    /\ KeyOf(m) \notin Open
    /\ IF OpensResponder(m, duplicate) \/ OpensEphemeral(m, duplicate)
       THEN Cardinality(DOMAIN UnderPressure) >= MaxExchanges /\ exchanges' = UnderPressure
       ELSE UNCHANGED exchanges
    /\ Use(m.session)
    /\ UNCHANGED nextId

\* The table and the entry a message is processed on
Routed(m, duplicate) ==
    IF KeyOf(m) \in Open THEN exchanges
    ELSE Put(UnderPressure, KeyOf(m), Entry(~OpensResponder(m, duplicate)))

Processed(e, m) ==
    LET acked == IF m.acks /\ IsAwaitingAck(e.mrp) THEN OnAck(e.mrp, e.mrp.tx.counter) ELSE e.mrp
    IN  [e EXCEPT !.idle = 0,
                  !.mrp = IF m.reliable THEN OnReliableReceived(acked, 0, AckWait) ELSE acked]

\* receive routed: Duplicate, Acknowledged, Message, or SessionClosed
Receive(m, duplicate) ==
    /\ Arrives(m)
    /\ KeyOf(m) \in Open \/ ( /\ OpensResponder(m, duplicate) \/ OpensEphemeral(m, duplicate)
                              /\ Cardinality(DOMAIN UnderPressure) < MaxExchanges )
    /\ LET table == Routed(m, duplicate)
           done == [table EXCEPT ![KeyOf(m)] = Processed(@, m)]
       IN  IF m.kind = "close" /\ ~duplicate /\ m.session # Unsecured
           THEN /\ Drop({m.session})
                /\ exchanges' = Restrict(done, {k \in DOMAIN done : k.session # m.session})
           ELSE /\ Use(m.session)
                /\ exchanges' = done
    /\ UNCHANGED nextId

-----------------------------------------------------------------------------
\* Messaging::send; Busy is found after the piggyback was taken
Send(key, reliable, wait) ==
    /\ key \in Open
    /\ LET m == TakePiggyback(exchanges[key].mrp)
       IN  exchanges' = [exchanges EXCEPT ![key].mrp =
                            IF reliable /\ ~Busy(m) THEN OnSend(m, 0, wait) ELSE m]
    /\ Use(key.session)
    /\ UNCHANGED nextId

\* Messaging::acknowledge; an ephemeral exchange closes with it
Acknowledge(key) ==
    /\ key \in Open
    /\ exchanges' = IF exchanges[key].ephemeral
                    THEN Restrict(exchanges, Open \ {key})
                    ELSE [exchanges EXCEPT ![key].mrp = TakePiggyback(@)]
    /\ IF exchanges[key].mrp.ack = None THEN UNCHANGED <<sessions, older>> ELSE Use(key.session)
    /\ UNCHANGED nextId

AckExpired(m) == m.ack # None /\ m.ack.deadline = 0
TxExpired(m) == IsAwaitingAck(m) /\ m.tx.deadline = 0
Expired(key) == AckExpired(exchanges[key].mrp) \/ TxExpired(exchanges[key].mrp)

\* Messaging::poll: reap, then serve one expired exchange, its acknowledgement first
Poll(key, wait) ==
    /\ key \in DOMAIN Reaped /\ Expired(key)
    /\ LET m == exchanges[key].mrp
       IN  exchanges' =
             IF AckExpired(m) THEN [Reaped EXCEPT ![key].mrp = OnAckTimeout(@)]
             ELSE IF GivesUp(m) THEN Restrict(Reaped, DOMAIN Reaped \ {key})
             ELSE [Reaped EXCEPT ![key].mrp = OnTxTimeout(@, wait)]
    /\ UNCHANGED <<sessions, older, nextId>>

PollReap ==
    /\ \A key \in DOMAIN Reaped : ~Expired(key)
    /\ exchanges' = Reaped
    /\ UNCHANGED <<sessions, older, nextId>>

CountDown(t) == IF t = 0 THEN 0 ELSE t - 1
Sooner(timer) == IF timer = None THEN None ELSE [timer EXCEPT !.deadline = CountDown(@)]
Aged(e) == [e EXCEPT !.idle = IF @ > IdleTimeout THEN @ ELSE @ + 1,
                     !.mrp = [tx |-> Sooner(@.tx), ack |-> Sooner(@.ack)]]

\* One tick of time, at which nothing need be polled yet
Tick ==
    /\ exchanges' = [k \in Open |-> Aged(exchanges[k])]
    /\ UNCHANGED <<sessions, older, nextId>>

Next ==
    \/ \E s \in SessionIds \cup {Unsecured} : OpenExchange(s)
    \/ \E s \in SessionIds : OpenStale(s) \/ CloseSession(s)
    \/ \E s \in SessionIds, f \in Fabrics :
        \/ Install(s, f)
        \/ \E victim \in LeastRecentlyUsed : Evict(victim, s, f)
    \/ \E f \in Fabrics : RemoveFabric(f)
    \/ \E m \in Messages, duplicate \in BOOLEAN : ReceiveRefused(m, duplicate) \/ Receive(m, duplicate)
    \/ \E key \in Open :
        \/ CloseExchange(key)
        \/ \E reliable \in BOOLEAN, wait \in RetryWaits : Send(key, reliable, wait)
        \/ Acknowledge(key)
        \/ \E wait \in RetryWaits : Poll(key, wait)
    \/ PollReap
    \/ Tick

\* Time passes, and the device loop polls at wake_at until nothing is due, so each
\* expired exchange is served
PollAny(key) == \E wait \in RetryWaits : Poll(key, wait)

Fairness ==
    /\ WF_vars(Tick)
    /\ WF_vars(PollReap \/ \E key \in Open : PollAny(key))
    /\ \A key \in Keys : WF_vars(key \in Open /\ PollAny(key))

Spec == Init /\ [][Next]_vars /\ Fairness

-----------------------------------------------------------------------------
\* An entry: at most one message awaits its acknowledgement, sent a bounded number of
\* times, and at most one acknowledgement is owed
Entries ==
    [mrp : [tx : [counter : {0}, sent : 1 .. MaxTransmissions, deadline : Nat] \cup {None},
            ack : [counter : {0}, deadline : Nat] \cup {None}],
     ephemeral : BOOLEAN,
     idle : Nat]

\* Every variable has its type, and the tables are within their capacities
TypeOK ==
    /\ sessions \subseteq [id : SessionIds, fabric : Fabrics]
    /\ IsFiniteSet(sessions) /\ Cardinality(sessions) <= MaxSessions
    /\ older \subseteq Live \X Live
    /\ exchanges \in [Open -> Entries] /\ Open \subseteq Keys
    /\ IsFiniteSet(Open) /\ Cardinality(Open) <= MaxExchanges
    /\ nextId \in ExchangeIds

\* Session ids are unique, and an exchange never outlives its session: whichever way a
\* session ends (close, eviction, fabric removal, the peer's CLOSE_SESSION), its
\* exchanges end with it, so a later session of the same id inherits none
NoOrphanExchange ==
    /\ \A s, t \in sessions : s.id = t.id => s = t
    /\ \A key \in Open : key.session \in Live \cup {Unsecured}

\* A session ends: it is closed, evicted, its fabric is removed, or the peer closes it
SessionEnds(id) ==
    \/ CloseSession(id)
    \/ \E new \in SessionIds, f \in Fabrics : Evict(id, new, f)
    \/ \E f \in Fabrics : [id |-> id, fabric |-> f] \in sessions /\ RemoveFabric(f)
    \/ \E m \in Messages : m.session = id /\ m.kind = "close" /\ Receive(m, FALSE)

\* An exchange that still waits for an acknowledgement leaves the table only by being
\* closed, with its session, on giving up, or by acknowledging on an ephemeral exchange:
\* the reaper and the pressure of arriving messages never take it
PendingNeverReaped ==
    [][\A key \in Open \ DOMAIN exchanges' :
        IsAwaitingAck(exchanges[key].mrp) =>
            \/ CloseExchange(key) \/ Acknowledge(key)
            \/ \E wait \in RetryWaits : Poll(key, wait) /\ GivesUp(exchanges[key].mrp)
            \/ SessionEnds(key.session)]_vars

\* No entry is held for ever: each is closed, or heard from again, time after time,
\* so a full table always drains (reap, give-up and their wake-ups)
EntriesDrain ==
    \A key \in Keys : []<>(key \notin Open \/ exchanges[key].idle = 0)
=============================================================================
