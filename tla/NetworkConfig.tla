---------------------------- MODULE NetworkConfig ----------------------------
(***************************************************************************)
(* The Networks list of clusters/network_commissioning.rs, which every     *)
(* command may change only under the fail-safe and which must come back    *)
(* when the fail-safe ends without CommissioningComplete.  The list is     *)
(* saved lazily, at the first change of a context, and reverted by the     *)
(* device when a command of General Commissioning reports a Cleanup.       *)
(*                                                                         *)
(* The fail-safe (commissioning/failsafe.rs) is kept to what the list sees *)
(* of it: the fabric of its context, whether the context has changed the   *)
(* list, and whether its time has run out, which nothing notices before    *)
(* the next ArmFailSafe or CommissioningComplete.                          *)
(***************************************************************************)
EXTENDS Naturals, Sequences, SequencesExt

CONSTANTS NetworkIds,  \* SSIDs or extended PAN ids
          Capacity,    \* N, MaxNetworks
          Fabrics,     \* the administrators' fabrics
          Pase,        \* the accessing fabric of a PASE session: none
          None

VARIABLES networks,   \* the list, in order of precedence
          saved,      \* the snapshot, or None
          armed,      \* the fail-safe context, or None
          known,      \* the networks whose credentials the driver holds
          committed,  \* history: the list as last completed or reverted to
          dropped     \* history: a Cleanup was computed and not applied

vars == <<networks, saved, armed, known, committed, dropped>>

Accessing == Fabrics \union {Pase}
Entry == [id : NetworkIds, connected : BOOLEAN]
Context == [fabric : Accessing, changed : BOOLEAN, lapsed : BOOLEAN]

ASSUME CapacityAssumption == Capacity \in Nat

\* None is a value of its own, neither a list nor a context.
ASSUME NoneIsApart == None \notin Seq(Entry) /\ None \notin Context

Ids(list) == {list[i].id : i \in DOMAIN list}
Position(list, id) == CHOOSE i \in DOMAIN list : list[i].id = id

\* The list holds at most N networks, each once, at most one of them connected.
TypeOK ==
  /\ networks \in Seq(Entry) /\ Len(networks) <= Capacity
  /\ \A i, j \in DOMAIN networks :
       i # j => networks[i].id # networks[j].id
                /\ ~(networks[i].connected /\ networks[j].connected)
  /\ saved \in {None} \union Seq(Entry)
  /\ armed \in {None} \union Context
  /\ known \subseteq NetworkIds
  /\ committed \in Seq(Entry) /\ dropped \in BOOLEAN

Init ==
  /\ networks = <<>> /\ saved = None /\ armed = None
  /\ known = {} /\ committed = <<>> /\ dropped = FALSE

-----------------------------------------------------------------------------
(* The fail-safe, and what the device does with its outcome.               *)

Live == armed # None /\ ~armed.lapsed
Lapsed == armed # None /\ armed.lapsed
HeldBy(f) == Live /\ armed.fabric = f

NewContext(f) == [fabric |-> f, changed |-> FALSE, lapsed |-> FALSE]

\* Aftermath::Rollback: Lifecycle::FailSafeExpired reaches `restore`.
Rollback ==
  /\ networks' = IF saved = None THEN networks ELSE saved
  /\ saved' = None
  /\ dropped' = FALSE
  /\ UNCHANGED <<known, committed>>

NoOutcome == UNCHANGED <<networks, saved, known, committed, dropped>>

\* ArmFailSafe with a time: a new context, after the Cleanup of a lapsed one,
\* or the same context re-armed.  A live context of another fabric refuses.
ArmFailSafe(f) ==
  /\ ~Live
  /\ armed' = NewContext(f)
  /\ IF Lapsed THEN Rollback ELSE NoOutcome

\* Mutant: the context ends and its Cleanup goes nowhere.
DisarmOnly(f) ==
  /\ Lapsed \/ HeldBy(f)
  /\ armed' = None
  /\ NoOutcome

\* ArmFailSafe(0), or one that is refused for an open window: a lapsed context
\* is owed its Cleanup, and the holder's own context ends.
Disarm(f) ==
  /\ Lapsed \/ HeldBy(f)
  /\ armed' = None
  /\ Rollback

\* AddNOC over PASE moves the context to the new fabric.
AdoptFabric(f) ==
  /\ HeldBy(Pase)
  /\ armed' = [armed EXCEPT !.fabric = f]
  /\ NoOutcome

\* CommissioningComplete from the context's fabric: `commit`.
Complete(f) ==
  /\ HeldBy(f)
  /\ armed' = None
  /\ saved' = None
  /\ committed' = networks /\ dropped' = FALSE
  /\ UNCHANGED <<networks, known>>

\* CommissioningComplete that finds its context lapsed.
CompleteTooLate ==
  /\ Lapsed
  /\ armed' = None
  /\ Rollback

\* RevokeCommissioning ends a context PASE holds; invoke drops the Cleanup.
Revoke ==
  /\ HeldBy(Pase)
  /\ armed' = None
  /\ dropped' = TRUE
  /\ UNCHANGED <<networks, saved, known, committed>>

\* The context's time runs out.
Lapse ==
  /\ Live
  /\ armed' = [armed EXCEPT !.lapsed = TRUE]
  /\ NoOutcome

-----------------------------------------------------------------------------
(* The commands.  Each requires the fail-safe armed.                       *)

\* Mutant: every context starts from the list it finds.
SnapshotAnew == networks

\* NetworkStore::snapshot keeps the one it has.
Snapshot == IF saved = None THEN networks ELSE saved

\* require_fail_safe and record_change, before anything else is looked at.
RecordChange ==
  /\ Live
  /\ saved' = IF armed.changed THEN saved ELSE Snapshot
  /\ armed' = [armed EXCEPT !.changed = TRUE]
  /\ UNCHANGED <<committed, dropped>>

\* AddOrUpdate: the driver takes the credentials first; a listed network keeps
\* its place, a new one goes last if there is room.
AddOrUpdate(id) ==
  /\ RecordChange
  /\ known' = known \union {id}
  /\ networks' = IF id \in Ids(networks) \/ Len(networks) >= Capacity THEN networks
                 ELSE Append(networks, [id |-> id, connected |-> FALSE])

\* The driver refuses the credentials, or the dataset has no network id.
AddRefused ==
  /\ RecordChange
  /\ UNCHANGED <<known, networks>>

RemoveNetwork(id) ==
  /\ RecordChange
  /\ IF id \in Ids(networks)
     THEN /\ networks' = RemoveAt(networks, Position(networks, id))
          /\ known' = known \ {id}
     ELSE UNCHANGED <<networks, known>>

\* NetworkStore::reorder: remove, then insert.
Moved(list, from, to) == InsertAt(RemoveAt(list, from), to, list[from])

ReorderNetwork(id, to) ==
  /\ RecordChange
  /\ networks' = IF id \in Ids(networks) /\ to <= Len(networks)
                 THEN Moved(networks, Position(networks, id), to) ELSE networks
  /\ UNCHANGED known

\* set_connected, and set_all_disconnected with id = None.
Connected(list, id) == [i \in DOMAIN list |-> [list[i] EXCEPT !.connected = list[i].id = id]]

\* ConnectNetwork: the driver succeeds only with the network's credentials.
ConnectNetwork(id, ok) ==
  /\ RecordChange
  /\ ok => id \in known
  /\ networks' = IF id \notin Ids(networks) THEN networks
                 ELSE Connected(networks, IF ok THEN id ELSE None)
  /\ UNCHANGED known

Next ==
  \/ \E f \in Accessing : ArmFailSafe(f) \/ Disarm(f)
  \/ \E f \in Fabrics : AdoptFabric(f) \/ Complete(f)
  \/ CompleteTooLate \/ Revoke \/ Lapse
  \/ \E id \in NetworkIds : AddOrUpdate(id) \/ RemoveNetwork(id)
  \/ AddRefused
  \/ \E id \in NetworkIds, to \in 1..Capacity : ReorderNetwork(id, to)
  \/ \E id \in NetworkIds, ok \in BOOLEAN : ConnectNetwork(id, ok)

Spec == Init /\ [][Next]_vars

-----------------------------------------------------------------------------

\* Whatever contexts were armed, lapsed, re-armed or revoked since, a rollback now
\* would leave the list that was last completed or reverted to: the snapshot is the
\* list the first change found, and without one the list was not changed.
RollbackRestores == (IF saved = None THEN networks ELSE saved) = committed

\* A list that nobody completed lives only as long as the context that made
\* it, unless RevokeCommissioning has dropped the Cleanup of that context.
ListIsHeld == networks # committed => armed # None \/ dropped
=============================================================================
