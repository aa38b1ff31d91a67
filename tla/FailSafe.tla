------------------------------ MODULE FailSafe ------------------------------
(***************************************************************************)
(* The fail-safe context of commissioning/failsafe.rs, as operators on its *)
(* value: what arming, completing and expiring do to it, and the Cleanup   *)
(* they ask of the device. Deadlines are kept as the time left to them, so *)
(* that `now` needs no bound. The breadcrumb and changed_networks, which   *)
(* decide nothing here, are left out.                                      *)
(***************************************************************************)
EXTENDS Integers

CONSTANTS
    MaxIndex,       \* the last fabric index, 254 in the code
    MaxCumulative,  \* max_cumulative_seconds of BasicCommissioningInfo
    None            \* the absent value of an Option

Indexes == 1 .. MaxIndex
NoFabric == 0       \* the fabric index of a session that has none

Progress ==
    [added_noc : BOOLEAN, updated_noc : BOOLEAN,
     csr_requested : BOOLEAN, added_trusted_root : BOOLEAN]

\* held is history: for how long this context has been armed
Armed ==
    [expires : 0 .. MaxCumulative, cumulative : 0 .. MaxCumulative,
     fabric : Indexes \cup {NoFabric}, progress : Progress,
     held : 0 .. MaxCumulative]

Cleanups ==
    [close_case_sessions_for : Indexes \cup {NoFabric},
     remove_fabric : Indexes \cup {NoFabric}, discard_pending : BOOLEAN]

ASSUME FailSafeAssumption ==
    /\ MaxIndex \in Nat \ {0} /\ MaxCumulative \in Nat \ {0}
    /\ None \notin Armed /\ None \notin Cleanups

-----------------------------------------------------------------------------
HasExpired(armed) == armed.expires = 0 \/ armed.cumulative = 0

\* FailSafe::armed: the context, unless it has lapsed; expiry is lazy
Live(fs) == fs # None /\ ~HasExpired(fs)
Lapsed(fs) == fs # None /\ HasExpired(fs)

Deadline(seconds, cumulative) ==
    IF seconds > cumulative THEN cumulative ELSE seconds

NewContext(seconds, accessing) ==
    [expires |-> Deadline(seconds, MaxCumulative), cumulative |-> MaxCumulative,
     fabric |-> accessing, held |-> 0,
     progress |-> [added_noc |-> FALSE, updated_noc |-> FALSE,
                   csr_requested |-> FALSE, added_trusted_root |-> FALSE]]

\* A mutant of Rearmed: a re-arm restarts the cumulative timer too
RearmedAfresh(armed, seconds) ==
    [armed EXCEPT !.expires = Deadline(seconds, MaxCumulative),
                  !.cumulative = MaxCumulative]

Rearmed(armed, seconds) ==
    [armed EXCEPT !.expires = Deadline(seconds, armed.cumulative)]

Recorded(armed, step) == [armed EXCEPT !.progress[step] = TRUE]

UsedNoc(armed) == armed.progress.added_noc \/ armed.progress.updated_noc

\* A mutant of Cleanup: the context's fabric goes, whether or not it was added in it
CleanupAnyFabric(armed) ==
    [close_case_sessions_for |-> IF UsedNoc(armed) THEN armed.fabric ELSE NoFabric,
     remove_fabric |-> armed.fabric,
     discard_pending |-> armed.progress.added_trusted_root
                            \/ (armed.progress.csr_requested /\ ~UsedNoc(armed))]

\* FailSafe::expire_now: what the device is asked to undo. The two steps it undoes
\* by discard_pending are one field; revert_noc_for, which it ignores, is left out
Cleanup(armed) ==
    [close_case_sessions_for |-> IF UsedNoc(armed) THEN armed.fabric ELSE NoFabric,
     remove_fabric |-> IF armed.progress.added_noc THEN armed.fabric ELSE NoFabric,
     discard_pending |-> armed.progress.added_trusted_root
                            \/ (armed.progress.csr_requested /\ ~UsedNoc(armed))]

\* What FailSafe::expire reports
LapsedCleanup(fs) == IF Lapsed(fs) THEN Cleanup(fs) ELSE None

\* FailSafe::arm: the context it leaves and the cleanup it reports
Arm(fs, seconds, accessing, windowOpenOverCase) ==
    LET live == IF Live(fs) THEN fs ELSE None
        same == live # None /\ live.fabric = accessing
        result(context, cleanup) == [fs |-> context, cleanup |-> cleanup]
    IN  CASE live = None /\ (windowOpenOverCase \/ seconds = 0)
               -> result(None, LapsedCleanup(fs))
          [] live = None /\ ~windowOpenOverCase /\ seconds # 0
               -> result(NewContext(seconds, accessing), LapsedCleanup(fs))
          [] same /\ seconds = 0 -> result(None, Cleanup(live))
          [] same /\ seconds # 0 -> result(Rearmed(live, seconds), None)
          [] live # None /\ ~same -> result(live, None)

\* One unit of time passes
Elapse(n) == IF n = 0 THEN 0 ELSE n - 1
Elapsed(fs) ==
    [fs EXCEPT !.expires = Elapse(fs.expires), !.cumulative = Elapse(fs.cumulative),
               !.held = IF fs.held < MaxCumulative THEN fs.held + 1 ELSE fs.held]
=============================================================================
