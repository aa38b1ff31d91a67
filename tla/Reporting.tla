----------------------------- MODULE Reporting -----------------------------
(***************************************************************************)
(* Subscriptions on the publisher: the table and its dirty sets            *)
(* (im/subscription.rs), the reports the server builds from them           *)
(* (im/server.rs), what survives a restart (im/persist.rs), and the device *)
(* loop that primes, reports and follows what is in flight                 *)
(* (examples/light.rs).                                                    *)
(*                                                                         *)
(* The loop is one task: an event is handled whole, and before the next is *)
(* looked at the subscriptions then due are reported on, one after the     *)
(* other (todo). Every instant is kept as the time since the last report.  *)
(* A path stands for a cluster instance with what is subscribed of it; a   *)
(* peer has at most one session at a time.                                 *)
(***************************************************************************)
EXTENDS EventLog, Sequences, FiniteSetsExt, Functions

CONSTANTS
    Peers,          \* the subscribers
    FabricOf,       \* the fabric of each peer's session, or None over PASE
    Attributes,     \* the attribute paths
    Request,        \* what each peer asks for: its paths in order, its event paths in
                    \* order (each a kind of event), the urgent ones, and the intervals
    DirtyPaths,     \* DIRTY_PATHS, 8 in the code
    ChunkSize,      \* information blocks that fit in one message
    MaxSubscriptions, PerFabric, Fabrics, \* the table's size and shares
    MaxReporting,   \* reports in flight at once, 8 in the code
    MaxSleep,       \* bound: the longest step of time
    MaxId,          \* bound: the subscription ids a run hands out
    None

Ids == 1 .. MaxId

ASSUME ReportingAssumption ==
    /\ Request \in [Peers -> [paths : Seq(Attributes), kinds : Seq(Kinds),
                             urgent : SUBSET Kinds, min : Nat, max : Nat \ {0}]]
    /\ \A peer \in Peers : Request[peer].min <= Request[peer].max
    /\ ChunkSize \in Nat \ {0} /\ DirtyPaths \in Nat \ {0} /\ MaxReporting \in Nat
    /\ MaxId \in Nat /\ MaxSleep \in Nat
    /\ None \notin {"more", "last"} /\ None \notin Fabrics
    /\ FabricOf \in [Peers -> Fabrics \cup {None}]
    /\ IsFiniteSet(Fabrics) /\ MaxSubscriptions \in Nat /\ PerFabric \in Nat
    /\ PerFabric * Cardinality(Fabrics) <= MaxSubscriptions

VARIABLES
    subs,           \* the subscription table: for each id its subscription, or None
    lastId,         \* last_id
    saved,          \* the subscriptions in storage
    live,           \* the peers with a session
    priming,        \* pending_subscribe of each subscription: None, "more" or "last"
    reporting,      \* the reports the loop takes to be in flight
    open,           \* for each subscription, the exchanges open for its reports
    todo,           \* due_now: what is left of this round's reports, in the order of the ids
    twin,           \* history: what each subscriber was sent; see Twin
    repeated        \* history: whether some event number was sent twice

table == <<subs, lastId, saved>>
loop == <<live, priming, reporting, open, todo>>
history == <<twin, repeated>>
vars == <<events, table, loop, history>>

START == [path |-> 0, eventPath |-> 0, eventFrom |-> 0, done |-> FALSE]
Cursor == [path : Nat, eventPath : Nat, eventFrom : Nat, done : BOOLEAN]

Subscription ==
    [peer : Peers, bound : BOOLEAN, age : Nat, dirty : Seq(Attributes), full : BOOLEAN,
     cursor : Cursor, urgent : BOOLEAN, from : Nat, through : Nat]

ASSUME NoneAssumption == None \notin Subscription

\* stale: the paths that changed since they last went out; lapsed: those that changed
\* while a priming or a report of several messages was part-way, were in a message of such
\* a report that could not be sent, or were left over by a report that did not fit in the
\* one message the loop sends; delivered: the event numbers sent for the first event path;
\* failed: whether the last report could not be sent
Twin == [stale : SUBSET Attributes, lapsed : SUBSET Attributes, delivered : SUBSET Nat,
         failed : BOOLEAN]
Unsent == [stale |-> {}, lapsed |-> {}, delivered |-> {}, failed |-> FALSE]

\* Every variable keeps its type, and a dirty set fits its bound.
TypeOK ==
    /\ EventTypeOK
    /\ subs \in [Ids -> Subscription \cup {None}]
    /\ \A id \in Ids : subs[id] # None => Len(subs[id].dirty) <= DirtyPaths
    /\ lastId \in 0 .. MaxId
    /\ saved \subseteq [id : Ids, peer : Peers, from : Nat]
    /\ live \subseteq Peers
    /\ priming \in [Ids -> {None, "more", "last"}]
    /\ reporting \subseteq Ids /\ open \in [Ids -> Nat]
    /\ todo \subseteq Ids \X {"Data", "KeepAlive"}
    /\ twin \in [Ids -> Twin] /\ repeated \in BOOLEAN

Active == {id \in Ids : subs[id] # None}

Init ==
    /\ EventInit
    /\ subs = [id \in Ids |-> None] /\ lastId = 0 /\ saved = {}
    /\ live = {} /\ priming = [id \in Ids |-> None]
    /\ reporting = {} /\ open = [id \in Ids |-> 0] /\ todo = {}
    /\ twin = [id \in Ids |-> Unsent] /\ repeated = FALSE

-----------------------------------------------------------------------------
(* The subscription, im/subscription.rs *)

\* DirtySet::insert: one change too many and the whole subscription is to be reported
Inserted(s, path) ==
    IF s.full \/ path \in Range(s.dirty) THEN s
    ELSE IF Len(s.dirty) = DirtyPaths THEN [s EXCEPT !.full = TRUE, !.dirty = <<>>]
    ELSE [s EXCEPT !.dirty = Append(@, path)]

\* What was subscribed to
Asked(s) == Request[s.peer]

HasPending(s) == s.full \/ s.dirty # <<>> \/ s.urgent

\* Subscription::due, and the reason
Due(s) == s.age >= Asked(s).max \/ (HasPending(s) /\ s.age >= Asked(s).min)
Reason(s) == IF HasPending(s) THEN "Data" ELSE "KeepAlive"

\* Subscription::next_deadline, as the time to it
NextDeadline(s) == (IF HasPending(s) THEN Asked(s).min ELSE Asked(s).max) - s.age

Least(a, b) == IF a < b THEN a ELSE b
Larger(a, b) == IF a < b THEN b ELSE a

\* A mutant of Reported: the bookmark stays where it is
ReportedUnmarked(s) ==
    [peer |-> s.peer, bound |-> s.bound, age |-> 0, dirty |-> <<>>, full |-> FALSE,
     cursor |-> START, urgent |-> FALSE, from |-> s.from, through |-> 0]

\* Subscription::reported
Reported(s) ==
    [peer |-> s.peer, bound |-> s.bound, age |-> 0, dirty |-> <<>>, full |-> FALSE,
     cursor |-> START, urgent |-> FALSE, from |-> Larger(s.from, s.through), through |-> 0]

\* SubscriptionTable::subscribe and the reprime the device asks for at once
Subscribed(peer) ==
    [peer |-> peer, bound |-> TRUE, age |-> 0, dirty |-> <<>>, full |-> TRUE,
     cursor |-> START, urgent |-> FALSE, from |-> 0, through |-> 0]

\* SubscriptionTable::insert_restored
FromStorage(d) == [Subscribed(d.peer) EXCEPT !.bound = FALSE, !.from = d.from]

-----------------------------------------------------------------------------
(* Server::report_chunk for a Data report, im/server.rs *)

\* The number the events of a path are served from: the bookmark is that of the path the
\* message resumes at, and every later path starts over
Floor(cursor, i) == IF i = cursor.eventPath + 1 THEN cursor.eventFrom ELSE 0

\* The events a message could carry, by event path and number, and the order it takes them in
Waiting(kinds, cursor) ==
    UNION {{<<i, r.number>> : r \in Matching(kinds[i], Floor(cursor, i))} :
               i \in cursor.eventPath + 1 .. Len(kinds)}
Precedes(x, y) == x[1] < y[1] \/ (x[1] = y[1] /\ x[2] < y[2])

\* serve_event_path, one path after the other until the message is full: as many as there is
\* room for go out, and the cursor stays at the first path that has some left
ServeEvents(kinds, cursor, room) ==
    LET waiting == Waiting(kinds, cursor)
        sent == {x \in waiting : Cardinality({y \in waiting : Precedes(y, x)}) < room}
        stop == Min({x[1] : x \in waiting \ sent})
        Past(i) == {x[2] + 1 : x \in {y \in sent : y[1] = i}}
        served == cursor.eventPath < Len(kinds)
    IN  [sent |-> sent, fits |-> sent = waiting,
         path |-> IF sent = waiting THEN Len(kinds) ELSE stop - 1,
         from |-> IF sent # waiting THEN Max({Floor(cursor, stop)} \cup Past(stop))
                  ELSE IF served THEN 0 ELSE cursor.eventFrom,
         through |-> Max({IF served THEN cursor.eventFrom ELSE 0} \cup {x[2] + 1 : x \in sent})]

\* Subscription::report_source: the paths of a report, and where a message of it begins
List(s) == IF s.full THEN Asked(s).paths ELSE s.dirty
Resumed(s) ==
    LET cursor == IF s.cursor.done THEN START ELSE s.cursor
    IN  IF cursor = START THEN [cursor EXCEPT !.eventFrom = s.from] ELSE cursor

\* One message of a Data report: what it carries, and the subscription it leaves
Chunk(s) ==
    LET list == List(s)
        cursor == Resumed(s)
        path == IF cursor.path >= Len(list) THEN cursor.path
                ELSE Least(cursor.path + ChunkSize, Len(list))
        cut == path < Len(list)
        served == ServeEvents(Asked(s).kinds, cursor, ChunkSize - (path - cursor.path))
        more == cut \/ ~served.fits
    IN  [paths |-> {list[i] : i \in cursor.path + 1 .. path},
         numbers |-> IF cut THEN {} ELSE {x[2] : x \in {y \in served.sent : y[1] = 1}},
         more |-> more,
         sub |-> [s EXCEPT !.cursor =
                               IF cut THEN [cursor EXCEPT !.path = path]
                               ELSE [path |-> path, eventPath |-> served.path,
                                     eventFrom |-> served.from, done |-> ~more],
                           !.through = IF cut THEN @ ELSE Larger(@, served.through)]]

\* A KeepAlive report carries nothing
Empty(s) ==
    [paths |-> {}, numbers |-> {}, more |-> FALSE, sub |-> [s EXCEPT !.cursor.done = TRUE]]

-----------------------------------------------------------------------------
(* The device loop, examples/light.rs *)

\* A mutant of DueNow: only what is pending is reported
DueNowPending(subscriptions, pending) ==
    LET due == {id \in Ids : /\ subscriptions[id] # None /\ subscriptions[id].bound
                             /\ HasPending(subscriptions[id]) /\ pending[id] = None}
    IN  {<<id, "Data">> : id \in due}

\* The top of the loop: SubscriptionTable::due without what is still being primed
DueNow(subscriptions, pending) ==
    LET due == {id \in Ids : /\ subscriptions[id] # None /\ subscriptions[id].bound
                             /\ Due(subscriptions[id]) /\ pending[id] = None}
    IN  {<<id, Reason(subscriptions[id])>> : id \in due}

\* An event is taken once the round before it is over, and starts the next round
Event == todo = {}
NextRound == todo' = DueNow(subs', priming')

\* What the subscriber was sent, after one more message
After(seen, chunk) ==
    [stale |-> seen.stale \ chunk.paths, lapsed |-> seen.lapsed \ chunk.paths,
     delivered |-> seen.delivered \cup chunk.numbers, failed |-> FALSE]

Repeats(id, chunk) == repeated' = (repeated \/ twin[id].delivered \cap chunk.numbers # {})

\* A subscriber of whom nothing is known
Unknown(peer) == [Unsent EXCEPT !.stale = Range(Request[peer].paths)]

\* What f holds, with d for the ids that are gone
Without(f, gone, d) == [id \in Ids |-> IF id \in gone THEN d ELSE f[id]]

\* A series of messages was begun and is not over
PartWay(s) == s.cursor # START /\ ~s.cursor.done

\* intersect_cluster: whether the subscription has something of what changed
Covers(id, path) == id \in Active /\ path \in Range(Asked(subs[id]).paths)

\* What a change that goes through Inserted does to what is known of the subscriber
Changed(id, path) ==
    LET stale == twin[id].stale \cup {path}
    IN  [twin[id] EXCEPT
            !.stale = stale,
            !.lapsed = IF priming[id] = None /\ ~PartWay(subs[id]) THEN @
                       ELSE IF Inserted(subs[id], path).full # subs[id].full THEN stale
                       ELSE @ \cup {path}]

\* A handler changed a cluster: SubscriptionTable::note_cluster_change
Change(path) ==
    /\ Event
    /\ subs' = [id \in Ids |-> IF Covers(id, path) THEN Inserted(subs[id], path) ELSE subs[id]]
    /\ twin' = [id \in Ids |-> IF Covers(id, path) THEN Changed(id, path) ELSE twin[id]]
    /\ UNCHANGED <<events, lastId, saved, live, priming, reporting, open, repeated>>
    /\ NextRound

\* A handler recorded an event: EventStore::record, then SubscriptionTable::note_event
Happen(priority, kind) ==
    /\ Event
    /\ RecordEvent(priority, kind)
    /\ subs' = [id \in Ids |-> IF id \in Active /\ kind \in Asked(subs[id]).urgent
                               THEN [subs[id] EXCEPT !.urgent = TRUE] ELSE subs[id]]
    /\ UNCHANGED <<lastId, saved, live, priming, reporting, open, history>>
    /\ NextRound

\* A mutant of Admits: a session without a fabric takes whatever is free
AdmitsFree(peer, kept) ==
    IF FabricOf[peer] = None THEN MaxSubscriptions > Cardinality(kept)
    ELSE PerFabric > Cardinality({id \in kept : FabricOf[subs[id].peer] = FabricOf[peer]})

\* SubscriptionTable::admit: a fabric has its share, a session without one what is
\* left over when every fabric has claimed its own
Admits(peer, kept) ==
    LET ofFabric == {id \in kept : FabricOf[subs[id].peer] = FabricOf[peer]}
        claimed == {id \in kept : FabricOf[subs[id].peer] # None}
        free == MaxSubscriptions - Cardinality(kept)
        owed == PerFabric * Cardinality(Fabrics) - Cardinality(claimed)
    IN  IF FabricOf[peer] # None THEN Cardinality(ofFabric) < PerFabric
        ELSE free > 0 /\ free > owed

\* SubscriptionTable::remove_for_session, without KeepSubscriptions
Replaced(peer, keep) ==
    {id \in Active : ~keep /\ subs[id].peer = peer /\ subs[id].bound}

\* A SubscribeRequest: the table's subscribe, and the priming report that answers it
Subscribe(peer, keep) ==
    LET gone == Replaced(peer, keep)
        id == lastId + 1
        chunk == Chunk(Subscribed(peer))
    IN  /\ Event
        /\ peer \in live /\ lastId < MaxId
        /\ Cardinality(Active \ gone) < MaxSubscriptions /\ Admits(peer, Active \ gone)
        /\ subs' = [Without(subs, gone, None) EXCEPT ![id] = chunk.sub]
        /\ lastId' = id
        /\ priming' = [priming EXCEPT ![id] = IF chunk.more THEN "more" ELSE "last"]
        /\ twin' = [Without(twin, gone, Unsent) EXCEPT
                        ![id] = After(Unknown(peer), chunk)]
        /\ UNCHANGED <<events, saved, live, reporting, open, repeated>>
        /\ NextRound

\* The request refused, for its paths or for want of room: what it replaces is gone already
SubscribeRefused(peer, keep) ==
    LET gone == Replaced(peer, keep)
    IN  /\ Event
        /\ peer \in live /\ gone # {}
        /\ subs' = Without(subs, gone, None) /\ twin' = Without(twin, gone, Unsent)
        /\ UNCHANGED <<events, lastId, saved, live, priming, reporting, open, repeated>>
        /\ NextRound

\* A StatusResponse to a chunk of the priming report: the next chunk, or the
\* SubscribeResponse that makes the subscription active
StatusOnPriming(id) ==
    /\ Event
    /\ priming[id] # None
    /\ IF id \notin Active
       THEN priming' = [priming EXCEPT ![id] = None] /\ UNCHANGED <<subs, history>>
       ELSE IF priming[id] = "more"
       THEN LET chunk == Chunk(subs[id])
            IN  /\ subs' = [subs EXCEPT ![id] = chunk.sub]
                /\ priming' = [priming EXCEPT ![id] = IF chunk.more THEN "more" ELSE "last"]
                /\ twin' = [twin EXCEPT ![id] = After(@, chunk)] /\ Repeats(id, chunk)
       ELSE /\ subs' = [subs EXCEPT ![id] = Reported(@)]
            /\ priming' = [priming EXCEPT ![id] = None]
            /\ UNCHANGED history
    /\ UNCHANGED <<events, lastId, saved, live, reporting, open>>
    /\ NextRound

\* The priming report is given up by MRP, or the exchange goes idle: Interactions::forget.
\* What was delivered is not known, and the subscription is not ended.
PrimingForgotten(id) ==
    /\ Event
    /\ priming[id] # None
    /\ priming' = [priming EXCEPT ![id] = None]
    /\ twin' = [twin EXCEPT ![id].delivered = {}]
    /\ UNCHANGED <<events, table, live, reporting, open, repeated>>
    /\ NextRound

Built(id, reason) == IF reason = "Data" THEN Chunk(subs[id]) ELSE Empty(subs[id])

\* A mutant of InFlight: the table of reports in flight does not bound them
InFlightUnbounded(id) == id \in reporting

\* The loop goes past a subscription with a report in flight
InFlight(id) == id \in reporting \/ Cardinality(reporting) >= MaxReporting

\* The report whose turn it is
Turn(t) == t \in todo /\ \A u \in todo : t[1] <= u[1]

\* A due report that is not attempted: a full table of reports ends the round
ReportWaits(t) ==
    /\ Turn(t) /\ InFlight(t[1])
    /\ todo' = IF t[1] \in reporting THEN todo \ {t} ELSE {}
    /\ UNCHANGED <<events, table, live, priming, reporting, open, history>>

\* A due report: built, framed, sent, and the subscription marked reported, also where the
\* message was only the first of several
ReportSent(t) ==
    LET id == t[1]  chunk == Built(id, t[2])  seen == After(twin[id], chunk)
    IN  /\ Turn(t) /\ ~InFlight(id)
        /\ reporting' = IF Cardinality(reporting) < MaxReporting THEN reporting \cup {id}
                        ELSE reporting
        /\ open' = [open EXCEPT ![id] = @ + 1]
        /\ subs' = [subs EXCEPT ![id] = Reported(chunk.sub)]
        /\ twin' = [twin EXCEPT ![id] =
                       [seen EXCEPT !.lapsed = IF chunk.more THEN seen.stale ELSE @]]
        /\ Repeats(id, chunk)
        /\ todo' = todo \ {t}
        /\ UNCHANGED <<events, lastId, saved, live, priming>>

\* A mutant of ReportFails: the report counts although nothing went out
ReportFailsReported(t) ==
    LET id == t[1]  chunk == Built(id, t[2])
    IN  /\ Turn(t) /\ ~InFlight(id)
        /\ subs' = [subs EXCEPT ![id] = Reported(chunk.sub)]
        /\ todo' = todo \ {t}
        /\ UNCHANGED <<events, lastId, saved, live, priming, reporting, open, history>>

\* A due report built but not sent: no exchange, no frame, no address or no socket
ReportFails(t) ==
    LET id == t[1]  chunk == Built(id, t[2])
    IN  /\ Turn(t) /\ ~InFlight(id)
        /\ subs' = [subs EXCEPT ![id] = chunk.sub]
        /\ twin' = [twin EXCEPT ![id].failed = TRUE,
                                ![id].lapsed = IF chunk.more THEN @ \cup chunk.paths ELSE @]
        /\ todo' = todo \ {t}
        /\ UNCHANGED <<events, lastId, saved, live, priming, reporting, open, repeated>>

\* Received::Acknowledged or Due::Abandoned for a report: its slot and its exchange are freed
ReportSettled(id) ==
    /\ Event
    /\ open[id] > 0
    /\ reporting' = reporting \ {id}
    /\ open' = [open EXCEPT ![id] = @ - 1]
    /\ UNCHANGED <<events, table, live, priming, history>>
    /\ NextRound

\* A StatusResponse that carries the acknowledgement: the exchange is over and closed, the
\* slot is not freed
StatusOnReport(id) ==
    /\ Event
    /\ open[id] > 0
    /\ open' = [open EXCEPT ![id] = @ - 1]
    /\ UNCHANGED <<events, table, live, priming, reporting, history>>
    /\ NextRound

\* A CASE or PASE session comes up: persist::rebind for the subscriptions that wait for it
SessionUp(peer) ==
    /\ Event
    /\ peer \notin live
    /\ live' = live \cup {peer}
    /\ subs' = [id \in Ids |->
                   IF id \in Active /\ subs[id].peer = peer /\ ~subs[id].bound
                   THEN [subs[id] EXCEPT !.bound = TRUE, !.age = 0] ELSE subs[id]]
    /\ UNCHANGED <<events, lastId, saved, priming, reporting, open, history>>
    /\ NextRound

\* What goes with the subscriptions and sessions of some peers
Ended(gone, peers) ==
    /\ live' = live \ peers
    /\ subs' = Without(subs, gone, None) /\ twin' = Without(twin, gone, Unsent)
    /\ priming' = Without(priming, gone, None)
    /\ open' = Without(open, gone, 0)
    /\ UNCHANGED <<events, lastId, saved, repeated>>
    /\ NextRound

\* Received::SessionClosed, or the session is evicted: remove_for_session
SessionClosed(peer) ==
    LET gone == {id \in Active : subs[id].peer = peer /\ subs[id].bound}
    IN  /\ Event
        /\ peer \in live
        /\ reporting' = reporting \ gone
        /\ Ended(gone, {peer})

\* RemoveFabric, or the rollback of one: remove_for_fabric. The table of reports in
\* flight is left alone.
FabricRemoved(fabric) ==
    /\ Event
    /\ \E id \in Active : FabricOf[subs[id].peer] = fabric
    /\ Ended({id \in Active : FabricOf[subs[id].peer] = fabric},
             {p \in Peers : FabricOf[p] = fabric})
    /\ UNCHANGED reporting

\* persist::save: what has a fabric and a node id
Save ==
    /\ Event
    /\ saved' = {[id |-> id, peer |-> subs[id].peer, from |-> subs[id].from] :
                     id \in {x \in Active : FabricOf[subs[x].peer] # None}}
    /\ UNCHANGED <<events, subs, lastId, loop, history>>

\* The node restarts and restores what it saved
Restart ==
    /\ EventRestart
    /\ subs' = [id \in Ids |-> IF \E d \in saved : d.id = id
                               THEN FromStorage(CHOOSE d \in saved : d.id = id) ELSE None]
    /\ lastId' = Max({0} \cup {d.id : d \in saved})
    /\ live' = {} /\ priming' = [id \in Ids |-> None]
    /\ reporting' = {} /\ open' = [id \in Ids |-> 0] /\ todo' = {}
    /\ twin' = [id \in Ids |-> IF \E d \in saved : d.id = id
                               THEN Unknown((CHOOSE d \in saved : d.id = id).peer)
                               ELSE Unsent]
    /\ UNCHANGED <<saved, repeated>>

\* Time passes, at most to the deadline the loop sleeps until (one unit when it is past)
Tick(t) ==
    LET waits == {id \in Active : subs[id].bound}
    IN  /\ Event
        /\ \A id \in waits : t = 1 \/ t <= NextDeadline(subs[id])
        /\ subs' = [id \in Ids |->
                       IF id \in waits THEN [subs[id] EXCEPT !.age = Least(@ + t, Asked(subs[id]).max)]
                       ELSE subs[id]]
        /\ UNCHANGED <<events, lastId, saved, live, priming, reporting, open, history>>
        /\ NextRound

Reserve ==
    /\ Event
    /\ StoreReservation \/ ConfirmReservation
    /\ UNCHANGED <<table, loop, history>>

Next ==
    \/ \E path \in Attributes : Change(path)
    \/ \E priority \in Priorities, kind \in Kinds : Happen(priority, kind)
    \/ \E peer \in Peers, keep \in BOOLEAN : Subscribe(peer, keep) \/ SubscribeRefused(peer, keep)
    \/ \E id \in Ids : \/ StatusOnPriming(id) \/ PrimingForgotten(id)
                       \/ ReportSettled(id) \/ StatusOnReport(id)
    \/ \E t \in todo : ReportWaits(t) \/ ReportSent(t) \/ ReportFails(t)
    \/ \E peer \in Peers : SessionUp(peer) \/ SessionClosed(peer)
    \/ \E fabric \in Fabrics : FabricRemoved(fabric)
    \/ Save \/ Restart
    \/ \E t \in 1 .. MaxSleep : Tick(t)
    \/ Reserve

Spec == Init /\ [][Next]_vars

-----------------------------------------------------------------------------
\* A change reaches the subscriber or is still to be reported: once the priming is over,
\* a path that changed after it was last sent is in the dirty set or covered by a full
\* report. The exceptions are what happens to a series part-way, where a change is ignored
\* by DirtySet::insert and the next message goes on after one that was not sent, and what
\* a report of more than one message leaves over, because the loop marks the subscription
\* reported after the first.
NoLostChange ==
    \A id \in Active : priming[id] = None =>
        twin[id].stale \ twin[id].lapsed \subseteq
            IF subs[id].full THEN Range(Asked(subs[id]).paths) ELSE Range(subs[id].dirty)

\* The bookmark of Server::report_chunk and Subscription::reported sends no event twice to
\* a subscriber that answered its priming report, however its reports fail or are cut. It
\* is the first event path that is counted: serve_chunk_with_events starts every later one
\* over at number 0.
EventsOnce == ~repeated

\* No bookmark, in the table or in storage, is ahead of the numbers still to be given,
\* also after a restart: an event of tomorrow is never taken for one already reported.
BookmarkBehind ==
    /\ \A id \in Active : subs[id].from <= numbers.next
    /\ \A d \in saved : d.from <= numbers.next

\* When the loop goes to sleep, whatever is due waits for a report in flight or for one
\* that could not be sent: neither a change nor the keep-alive is overlooked.
ReportedInTime ==
    todo = {} =>
        \A id \in Active :
            subs[id].bound /\ priming[id] = None /\ Due(subs[id])
                => InFlight(id) \/ twin[id].failed

\* A subscription has at most one report exchange open, and the loop knows of it: the
\* table of reports in flight bounds the exchanges reports can take.
OpenIsTracked == \A id \in Ids : open[id] <= 1 /\ (open[id] = 1 => id \in reporting)

\* A fabric with fewer subscriptions than its share finds room in the table, whatever
\* the other fabrics, sessions without a fabric and restarts have done to it.
FabricShare ==
    \A f \in Fabrics :
        Cardinality({id \in Active : FabricOf[subs[id].peer] = f}) < PerFabric
            => Cardinality(Active) < MaxSubscriptions
=============================================================================
