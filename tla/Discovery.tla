------------------------------ MODULE Discovery ------------------------------
(***************************************************************************)
(* The mDNS schedule of discovery/schedule.rs on a link that several hosts *)
(* share: each probes for its instance name, breaks simultaneous probes by *)
(* the order of the proposed records, announces, defends the name against  *)
(* later probes and gives it up when a probe draws an answer.              *)
(*                                                                         *)
(* Time is counted in ticks.  A schedule is polled at the instant its      *)
(* wake_at names, and a message reaches each other host within Transit     *)
(* ticks or is lost.  Instants are kept as distances: "due" is the time    *)
(* left until the next action, "window" the age of the conflict window,    *)
(* "quiet" the time since the records were last multicast.                 *)
(***************************************************************************)
EXTENDS Integers, FiniteSetsExt

CONSTANTS
    Hosts, Names,
    Rank,               \* Rank[h]: place of h's records in the order of section 8.2
    PROBES, PROBE_JITTER, PROBE_INTERVAL, TIEBREAK_DEFER,
    CONFLICT_BURST, CONFLICT_WINDOW, CONFLICT_BACKOFF,
    ANNOUNCEMENTS, ANNOUNCE_INTERVAL, MULTICAST_INTERVAL, DEFEND_INTERVAL,
    Transit,            \* a message is on the link for at most this many ticks
    MaxLost,            \* at most this many copies of messages are lost
    MaxCalls            \* at most this many calls of start, updated and stop

ASSUME DiscoveryAssumption ==
    /\ Rank \in [Hosts -> Nat]
    /\ \A g, h \in Hosts : Rank[g] = Rank[h] => g = h
    /\ PROBES > 0 /\ PROBE_JITTER > 0 /\ 2 * Transit < PROBE_INTERVAL
    /\ TIEBREAK_DEFER > PROBE_INTERVAL
    /\ DEFEND_INTERVAL <= PROBE_INTERVAL

VARIABLES
    sched,      \* sched[h]: the Schedule of h
    name,       \* name[h]: the instance name h probes for or owns
    quiet,      \* quiet[h]: time since h last multicast its records (MulticastLimiter)
    defends,    \* defends[h]: h owes a probe an answer
    link,       \* the copies of messages on their way
    lost,       \* copies lost so far
    calls       \* calls of start, updated and stop so far

vars == <<sched, name, quiet, defends, link, lost, calls>>

Phases == {"Idle", "Probing", "Announcing", "Established", "Renaming", "Leaving"}

MaxDue == Max({PROBE_JITTER + CONFLICT_BACKOFF, PROBE_INTERVAL, TIEBREAK_DEFER,
               ANNOUNCE_INTERVAL * 2^ANNOUNCEMENTS})

Schedule == [phase : Phases, due : 0..MaxDue, sent : 0..Max({PROBES, ANNOUNCEMENTS}),
             conflicts : 0..CONFLICT_BURST, window : 0..CONFLICT_WINDOW,
             throttled : BOOLEAN]

Message == [kind : {"probe", "response"}, name : Names, from : Hosts, to : Hosts,
            age : 0..Transit]

\* Schedule::new.
New == [phase |-> "Idle", due |-> 0, sent |-> 0, conflicts |-> 0, window |-> 0,
        throttled |-> FALSE]

\* The hosts have drawn the same name; which one makes no difference.
Init ==
    /\ sched = [h \in Hosts |-> New]
    /\ name = [h \in Hosts |-> CHOOSE n \in Names : TRUE]
    /\ quiet = [h \in Hosts |-> MULTICAST_INTERVAL]
    /\ defends = [h \in Hosts |-> FALSE]
    /\ link = {}
    /\ lost = 0
    /\ calls = 0

-----------------------------------------------------------------------------
(* The methods of Schedule, on one schedule s.                             *)

Draws == 0..(PROBE_JITTER - 1)

MayRespond(s) == s.phase \in {"Announcing", "Established"}

FirstProbeDelay(s, randomness) ==
    randomness + (IF s.throttled THEN CONFLICT_BACKOFF ELSE 0)

Start(s, randomness) ==
    [s EXCEPT !.phase = "Probing", !.sent = 0, !.due = FirstProbeDelay(s, randomness)]

Updated(s) ==
    IF MayRespond(s) THEN [s EXCEPT !.phase = "Announcing", !.sent = 0, !.due = 0] ELSE s

Stop(s) ==
    IF MayRespond(s) THEN [s EXCEPT !.phase = "Leaving", !.sent = 0, !.due = 0]
                     ELSE [s EXCEPT !.phase = "Idle"]

\* The counter saturates at the burst, the only value it is compared with.
NoteConflict(s) ==
    LET opens == s.conflicts = 0 \/ s.window >= CONFLICT_WINDOW
        count == IF opens THEN 1 ELSE Min({s.conflicts + 1, CONFLICT_BURST})
    IN  [s EXCEPT !.window = IF opens THEN 0 ELSE @,
                  !.conflicts = count,
                  !.throttled = (@ /\ ~opens) \/ count >= CONFLICT_BURST]

\* Mutant: a probing host starts over under the name it has just lost.
OnConflictReprobes(s, randomness) ==
    IF s.phase \in {"Probing", "Announcing", "Established"}
    THEN Start(NoteConflict(s), randomness)
    ELSE NoteConflict(s)

OnConflict(s, randomness) ==
    LET t == NoteConflict(s)
    IN  CASE t.phase = "Probing" -> [t EXCEPT !.phase = "Renaming", !.sent = 0, !.due = 0]
          [] MayRespond(t)       -> Start(t, randomness)
          [] OTHER               -> t

OnTiebreakLoss(s) ==
    IF s.phase = "Probing" THEN [s EXCEPT !.sent = 0, !.due = TIEBREAK_DEFER] ELSE s

\* Whether wake_at has come.
Due(s) == s.phase \notin {"Idle", "Established"} /\ s.due = 0

Probe(s) == [s EXCEPT !.sent = @ + 1, !.due = PROBE_INTERVAL]

Announce(s) ==
    IF s.sent + 1 >= ANNOUNCEMENTS
    THEN [s EXCEPT !.sent = @ + 1, !.phase = "Established"]
    ELSE [s EXCEPT !.sent = @ + 1, !.phase = "Announcing",
                   !.due = ANNOUNCE_INTERVAL * 2^s.sent]

\* Whether the probes have passed.
Claims(s) == s.sent >= PROBES

-----------------------------------------------------------------------------
(* The host around the schedule, and the link.                             *)

\* A host that no longer may respond drops the answer it owes.
Put(h, s, owes) ==
    /\ sched' = [sched EXCEPT ![h] = s]
    /\ defends' = [defends EXCEPT ![h] = owes /\ MayRespond(s)]

\* One copy of a multicast for every other host.
Copies(h, kind) ==
    [kind : {kind}, name : {name[h]}, from : {h}, to : Hosts \ {h}, age : {0}]

Multicast(h, kind) == link' = link \cup Copies(h, kind)

\* The limiter counts the records, which a probe does not answer with.
MulticastRecords(h) ==
    /\ Multicast(h, "response")
    /\ quiet' = [quiet EXCEPT ![h] = 0]

\* The calls of the application: boot or link change, new record data, shutdown.
Call(h, s) ==
    /\ calls < MaxCalls
    /\ calls' = calls + 1
    /\ Put(h, s, defends[h])
    /\ UNCHANGED <<name, quiet, link, lost>>

CallStart(h) == \E randomness \in Draws : Call(h, Start(sched[h], randomness))

CallUpdated(h) == Call(h, Updated(sched[h]))

CallStop(h) == Call(h, Stop(sched[h]))

PollProbe(h) ==
    /\ Due(sched[h]) /\ sched[h].phase = "Probing" /\ ~Claims(sched[h])
    /\ Put(h, Probe(sched[h]), FALSE)
    /\ Multicast(h, "probe")
    /\ UNCHANGED <<name, quiet, lost, calls>>

PollClaim(h) ==
    /\ Due(sched[h]) /\ sched[h].phase = "Probing" /\ Claims(sched[h])
    /\ Put(h, Announce([sched[h] EXCEPT !.sent = 0]), FALSE)
    /\ MulticastRecords(h)
    /\ UNCHANGED <<name, lost, calls>>

PollAnnounce(h) ==
    /\ Due(sched[h]) /\ sched[h].phase = "Announcing"
    /\ Put(h, Announce(sched[h]), defends[h])
    /\ MulticastRecords(h)
    /\ UNCHANGED <<name, lost, calls>>

\* The goodbye deletes what caches hold; no schedule listens to it.
PollGoodbye(h) ==
    /\ Due(sched[h]) /\ sched[h].phase = "Leaving"
    /\ Put(h, [sched[h] EXCEPT !.phase = "Idle"], FALSE)
    /\ quiet' = [quiet EXCEPT ![h] = 0]
    /\ UNCHANGED <<name, link, lost, calls>>

\* poll yields Rename; the host draws another name and calls renamed.
PollRename(h) ==
    /\ Due(sched[h]) /\ sched[h].phase = "Renaming"
    /\ \E n \in Names \ {name[h]}, randomness \in Draws :
          /\ name' = [name EXCEPT ![h] = n]
          /\ Put(h, Start(sched[h], randomness), FALSE)
    /\ UNCHANGED <<quiet, link, lost, calls>>

\* Mutant: a defence waits the second that every other answer waits.
MayDefendLate(h) == quiet[h] >= MULTICAST_INTERVAL

\* MulticastLimiter::may_send with "defending" set.
MayDefend(h) == quiet[h] >= DEFEND_INTERVAL

Defend(h) ==
    /\ defends[h] /\ MayDefend(h)
    /\ Put(h, sched[h], FALSE)
    /\ MulticastRecords(h)
    /\ UNCHANGED <<name, lost, calls>>

\* tiebreak: the records of one host are later than those of the other.
Lost(h, other) == Rank[h] < Rank[other]

\* A message that does not name this host's name is none of its business.
Receive(m) ==
    LET h == m.to
        s == sched[h]
    IN  /\ link' = link \ {m}
        /\ \/ /\ m.name # name[h]
              /\ UNCHANGED <<sched, defends>>
           \/ /\ m.name = name[h] /\ m.kind = "response"
              /\ \E randomness \in Draws : Put(h, OnConflict(s, randomness), defends[h])
           \/ /\ m.name = name[h] /\ m.kind = "probe"
              /\ Put(h, IF Lost(h, m.from) THEN OnTiebreakLoss(s) ELSE s, TRUE)
        /\ UNCHANGED <<name, quiet, lost, calls>>

Lose(m) ==
    /\ lost < MaxLost
    /\ lost' = lost + 1
    /\ link' = link \ {m}
    /\ UNCHANGED <<sched, name, quiet, defends, calls>>

\* The age of the window, which nobody asks for before the first conflict.
Aged(s) == IF s.conflicts = 0 THEN 0 ELSE Min({s.window + 1, CONFLICT_WINDOW})

\* Nothing that is due is put off; only a rename waits for the application.
Tick ==
    /\ \A h \in Hosts : /\ Due(sched[h]) => sched[h].phase = "Renaming"
                        /\ defends[h] => ~MayDefend(h)
    /\ \A m \in link : m.age < Transit
    /\ sched' = [h \in Hosts |-> [sched[h] EXCEPT !.due = Max({@ - 1, 0}),
                                                  !.window = Aged(sched[h])]]
    /\ quiet' = [h \in Hosts |-> Min({quiet[h] + 1, MULTICAST_INTERVAL})]
    /\ link' = {[m EXCEPT !.age = @ + 1] : m \in link}
    /\ UNCHANGED <<name, defends, lost, calls>>

Poll(h) ==
    PollProbe(h) \/ PollClaim(h) \/ PollAnnounce(h) \/ PollGoodbye(h) \/ Defend(h)

Deliver == \E m \in link : Receive(m)

Next ==
    \/ \E h \in Hosts : CallStart(h) \/ CallUpdated(h) \/ CallStop(h) \/ Poll(h) \/ PollRename(h)
    \/ Deliver
    \/ \E m \in link : Lose(m)
    \/ Tick

\* Time does not stop: what is due is polled, what is not lost arrives, the clock
\* goes on.  And a host that is told to rename does.
Fairness ==
    /\ WF_vars(Tick \/ Deliver \/ \E h \in Hosts : Poll(h))
    /\ \A h \in Hosts : WF_vars(PollRename(h))

Spec == Init /\ [][Next]_vars /\ Fairness

-----------------------------------------------------------------------------
\* Every schedule, limiter and message has its type.
TypeOK ==
    /\ sched \in [Hosts -> Schedule]
    /\ name \in [Hosts -> Names]
    /\ quiet \in [Hosts -> 0..MULTICAST_INTERVAL]
    /\ defends \in [Hosts -> BOOLEAN]
    /\ link \subseteq Message
    /\ lost \in 0..MaxLost
    /\ calls \in 0..MaxCalls

\* The name is unique on the link (the module comment of schedule.rs): however
\* the hosts start, restart, stop and rename, and though up to MaxLost copies of
\* probes, announcements and defences are lost, no two hosts answer for one name.
UniqueOwner ==
    \A g, h \in Hosts :
        g # h /\ MayRespond(sched[g]) /\ MayRespond(sched[h]) => name[g] # name[h]

\* A host that probes ends up with a name of its own or is stopped: tiebreaks,
\* conflicts and renames never go round for ever (the comment of on_conflict).
ProbeSettles ==
    \A h \in Hosts :
        sched[h].phase = "Probing" ~> (MayRespond(sched[h]) \/ sched[h].phase = "Idle")
=============================================================================
