------------------------------ MODULE EventLog ------------------------------
(***************************************************************************)
(* The event log (dm/events.rs): the numbers a node gives its events, which *)
(* must not come back after a restart although only one in every           *)
(* NUMBER_RESERVATION is written to storage, and the rings, one for each   *)
(* priority, that hold the latest records.                                 *)
(***************************************************************************)
EXTENDS Integers, FiniteSets

CONSTANTS
    Priorities,     \* the rings of the store
    Capacity,       \* the records one ring holds
    Kinds,          \* the event paths there can be; every event is of one kind
    Block,          \* NUMBER_RESERVATION, 1000 in the code
    MaxNumber       \* bound: the numbers a run hands out are below this one

ASSUME EventAssumption ==
    /\ Capacity \in Nat \ {0} /\ Block \in Nat \ {0} /\ MaxNumber \in Nat

VARIABLES
    numbers,        \* EventNumbers: next and reserved_through
    durable,        \* the reservation in storage
    log,            \* for each priority, the records in its ring
    issued          \* history: one past the highest number any event was given

events == <<numbers, durable, log, issued>>

Record == [number : Nat, kind : Kinds]

EventTypeOK ==
    /\ numbers \in [next : Nat, reserved : Nat]
    /\ durable \in Nat /\ issued \in Nat
    /\ log \in [Priorities -> SUBSET Record]

\* EventNumbers::restore
Restored(persisted) == [next |-> persisted, reserved |-> persisted]

EventInit ==
    /\ numbers = Restored(0) /\ durable = 0
    /\ log = [p \in Priorities |-> {}]
    /\ issued = 0

-----------------------------------------------------------------------------
\* EventNumbers::reservation: whether a number must be reserved before the next is given
Owes == numbers.next >= numbers.reserved

\* EventNumbers::reservation: the device writes what is owed to storage...
StoreReservation ==
    /\ Owes /\ numbers.next < MaxNumber
    /\ durable # numbers.next + Block
    /\ durable' = numbers.next + Block
    /\ UNCHANGED <<numbers, log, issued>>

\* A mutant of ConfirmReservation: the reservation is taken before it is written
ConfirmUnwritten ==
    /\ Owes
    /\ numbers' = [numbers EXCEPT !.reserved = numbers.next + Block]
    /\ UNCHANGED <<durable, log, issued>>

\* ... and says so: EventStore::reserved
ConfirmReservation ==
    /\ Owes
    /\ durable = numbers.next + Block
    /\ numbers' = [numbers EXCEPT !.reserved = durable]
    /\ UNCHANGED <<durable, log, issued>>

\* PriorityBuffer::push: a full ring drops its oldest record
Pushed(ring, record) ==
    {record} \cup
    {r \in ring : Cardinality({q \in ring : q.number > r.number}) < Capacity - 1}

\* EventStore::record; NeedsReservation, when a number is owed, records nothing
RecordEvent(priority, kind) ==
    /\ ~Owes /\ numbers.next < MaxNumber
    /\ log' = [log EXCEPT ![priority] =
                   Pushed(@, [number |-> numbers.next, kind |-> kind])]
    /\ numbers' = [numbers EXCEPT !.next = @ + 1]
    /\ issued' = IF numbers.next < issued THEN issued ELSE numbers.next + 1
    /\ UNCHANGED durable

\* A restart: the rings are lost, the numbers resume at the stored reservation
EventRestart ==
    /\ numbers' = Restored(durable)
    /\ log' = [p \in Priorities |-> {}]
    /\ UNCHANGED <<durable, issued>>

\* What EventStore::matching yields from a number on; it sorts what it collects
Matching(kind, from) ==
    {r \in UNION {log[p] : p \in Priorities} : r.kind = kind /\ r.number >= from}

-----------------------------------------------------------------------------
\* No number is given twice, across every restart: the next one to be given out of
\* RAM is above every number an event ever had (EventNumbers::restore and next).
NumbersNeverReused == numbers.next >= issued
=============================================================================
