--------------------------- MODULE Commissioning ---------------------------
(***************************************************************************)
(* Joining and leaving fabrics: the handlers of GeneralCommissioning,      *)
(* AdministratorCommissioning and OperationalCredentials over the state    *)
(* they share (the fail-safe, the commissioning window, the fabric table   *)
(* and the key store), and what the device loop of examples/light.rs does  *)
(* after each of them, under several administrators at once.               *)
(*                                                                         *)
(* An InvokeRequest carries one command (max_paths_per_invoke is 1), so a  *)
(* command and its aftermath are one step. A certificate chain is the root *)
(* it ends in: one fabric id under each root, and a chain that does not    *)
(* validate is a refused command. Reads, labels and vendor statements      *)
(* change nothing modelled here.                                           *)
(***************************************************************************)
EXTENDS FailSafe, FiniteSets

CONSTANTS
    Capacity,       \* the places in the fabric table, FABRICS
    Handles,        \* the key handles the key store may hand out
    Roots,          \* the root certificates administrators bring
    Lengths,        \* the ExpiryLengthSeconds administrators ask for
    WindowLength    \* how long a commissioning window stays open

Fabrics == [root : Roots, key : Handles]
\* stale is history: the credential was left by a fail-safe context before this one
PendingCsrs == [key : Handles, for_update : BOOLEAN, stale : BOOLEAN]
PendingRoots == [root : Roots, stale : BOOLEAN]
Windows == [left : 0 .. WindowLength, admin : Indexes \cup {NoFabric}]
\* One session stands for all of its kind and fabric: nothing tells them apart, since
\* dispatch_one gives its InteractionContext no session
Sessions == [kind : {"Pase", "Case"}, fabric : Indexes \cup {NoFabric}]

ASSUME CommissioningAssumption ==
    /\ Capacity \in 1 .. MaxIndex
    /\ Lengths \subseteq Nat /\ WindowLength \in Nat \ {0}
    /\ None \notin PendingCsrs \cup PendingRoots \cup Windows \cup Handles

VARIABLES
    failsafe,       \* the armed context, or None
    window,         \* the commissioning window, or None
    fabrics,        \* the fabric table: a function on the indexes in use
    last,           \* the table's last_index
    keys,           \* the operational keys in the key store
    csr,            \* pending_csr, or None
    root,           \* pending_root, or None
    sessions,       \* the secure sessions of the node
    scoped,         \* the indexes for which clusters hold fabric-scoped data
    committed,      \* history: the fabrics CommissioningComplete was accepted for
    leaked          \* history: the keys whose CSR could not be signed

credentials == <<fabrics, last, keys, csr, root, scoped, committed, leaked>>
vars == <<failsafe, window, credentials, sessions>>

Init ==
    /\ failsafe = None /\ window = None
    /\ fabrics = <<>> /\ last = 0
    /\ keys = {} /\ csr = None /\ root = None
    /\ sessions = {} /\ scoped = {}
    /\ committed = {} /\ leaked = {}

Joined == DOMAIN fabrics
WindowOpen == window # None /\ window.left > 0

-----------------------------------------------------------------------------
\* The sessions of the node, as the secure channel makes and closes them

EstablishPase ==
    /\ sessions' = sessions \cup {[kind |-> "Pase", fabric |-> NoFabric]}
    /\ UNCHANGED <<failsafe, window, credentials>>

\* Channel::sigma3 looks the fabric up when the handshake ends
EstablishCase(i) ==
    /\ i \in Joined
    /\ sessions' = sessions \cup {[kind |-> "Case", fabric |-> i]}
    /\ UNCHANGED <<failsafe, window, credentials>>

CloseSession(s) ==
    /\ s \in sessions
    /\ sessions' = sessions \ {s}
    /\ UNCHANGED <<failsafe, window, credentials>>

-----------------------------------------------------------------------------
\* What the device does after a command: the Aftermath and the FabricChange

KeyOf(pending) == IF pending = None THEN {} ELSE {pending.key}

\* A mutant of ForgetFabric: only the cleanup's own list closes sessions
ForgetFabricOnly(gone, closing) ==
    /\ sessions' = {s \in sessions : s.fabric \notin closing}
    /\ scoped' = scoped \ gone
    /\ committed' = committed \ gone
    /\ fabrics' = [i \in Joined \ gone |-> fabrics[i]]

\* OperationalCredentials::remove_fabric and the FabricChange::Removed it leaves to
\* the device: every session, and all fabric-scoped data, of the fabrics `gone`
ForgetFabric(gone, closing) ==
    /\ sessions' = {s \in sessions : s.fabric \notin gone \cup closing}
    /\ scoped' = scoped \ gone
    /\ committed' = committed \ gone
    /\ fabrics' = [i \in Joined \ gone |-> fabrics[i]]

\* CommissioningWindow::forget_fabric
Forgotten(gone) ==
    IF window # None /\ window.admin \in gone
    THEN [window EXCEPT !.admin = NoFabric] ELSE window

\* What is left of a pending credential; anew says that a new context finds it there
Left(pending, dropped, anew) ==
    IF pending = None \/ dropped THEN None
    ELSE [pending EXCEPT !.stale = pending.stale \/ anew]

\* The device's Aftermath::Rollback
Rollback(cleanup, anew) ==
    LET gone == {cleanup.remove_fabric} \cap Joined
        closing == {cleanup.close_case_sessions_for} \ {NoFabric}
        dropped == cleanup.discard_pending
    IN  /\ ForgetFabric(gone, closing)
        /\ keys' = (keys \ {fabrics[i].key : i \in gone})
                        \ (IF dropped THEN KeyOf(csr) ELSE {})
        /\ csr' = Left(csr, dropped, anew) /\ root' = Left(root, dropped, anew)
        /\ window' = Forgotten(gone)
        /\ UNCHANGED <<last, leaked>>

\* No cleanup: nothing changes but the history of what a new context found
NoRollback(anew) ==
    /\ csr' = Left(csr, FALSE, anew) /\ root' = Left(root, FALSE, anew)
    /\ UNCHANGED <<window, fabrics, last, keys, sessions, scoped, committed, leaked>>

-----------------------------------------------------------------------------
\* GeneralCommissioning. An accessing fabric is what it takes for CASE

OverCase(s) == s.fabric # NoFabric

ArmFailSafe(s, seconds) ==
    LET result == Arm(failsafe, seconds, s.fabric, WindowOpen /\ OverCase(s))
        anew == ~Live(failsafe) /\ result.fs # None
    IN  /\ failsafe' = result.fs
        /\ IF result.cleanup = None THEN NoRollback(anew)
                                    ELSE Rollback(result.cleanup, anew)

\* FailSafe::complete on a context that lapsed unnoticed
CompleteTooLate(s) ==
    /\ Lapsed(failsafe) /\ OverCase(s)
    /\ failsafe' = None
    /\ Rollback(Cleanup(failsafe), FALSE)

MayComplete(s) == Live(failsafe) /\ OverCase(s) /\ s.fabric = failsafe.fabric

\* The PASE sessions it reports for closing are left open by the device
CommissioningComplete(s) ==
    /\ MayComplete(s)
    /\ failsafe' = None /\ window' = None
    /\ committed' = committed \cup ({s.fabric} \cap Joined)
    /\ UNCHANGED <<fabrics, last, keys, csr, root, sessions, scoped, leaked>>

-----------------------------------------------------------------------------
\* AdministratorCommissioning

OpenCommissioningWindow(s) ==
    /\ ~WindowOpen /\ ~Live(failsafe)
    /\ window' = [left |-> WindowLength, admin |-> s.fabric]
    /\ UNCHANGED <<failsafe, credentials, sessions>>

\* invoke drops the cleanup that revoke_commissioning reports
RevokeCommissioning ==
    /\ window' = None
    /\ failsafe' = IF Live(failsafe) /\ failsafe.fabric = NoFabric
                   THEN None ELSE failsafe
    /\ UNCHANGED <<credentials, sessions>>

-----------------------------------------------------------------------------
\* OperationalCredentials. Every command reaps first: what an ended context left
\* pending is dropped, and the key of a dropped CSR with it

\* A mutant of Reaps: reap trusts an armed context, whatever it has seen
ReapsUnlessArmed(step) == ~Live(failsafe)

Reaps(step) == ~Live(failsafe) \/ ~failsafe.progress[step]

ReapedCsr == IF Reaps("csr_requested") THEN None ELSE csr
ReapedRoot == IF Reaps("added_trusted_root") THEN None ELSE root
ReapedKeys == IF Reaps("csr_requested") THEN keys \ KeyOf(csr) ELSE keys

\* A command that is refused, or that changes nothing modelled
OtherCommand ==
    /\ csr' = ReapedCsr /\ root' = ReapedRoot /\ keys' = ReapedKeys
    /\ UNCHANGED <<failsafe, window, fabrics, last, sessions, scoped, committed, leaked>>

\* require_fail_safe, and the refusal of a second NOC in one context
MayChange == Live(failsafe) /\ ~UsedNoc(failsafe)

\* CSRRequest: the key before this one goes first, whatever becomes of the new one
CSRRequest(s, for_update) ==
    LET others == keys \ KeyOf(csr)
        generated(k) ==
            /\ keys' = others \cup {k}
            /\ csr' = [key |-> k, for_update |-> for_update, stale |-> FALSE]
            /\ failsafe' = Recorded(failsafe, "csr_requested")
            /\ UNCHANGED leaked
        \* build_csr or sign_nocsr fails
        unsigned(k) ==
            /\ keys' = others \cup {k} /\ leaked' = leaked \cup {k}
            /\ csr' = None /\ UNCHANGED failsafe
    IN  /\ MayChange
        /\ for_update => OverCase(s)
        /\ root' = ReapedRoot
        /\ \/ \E k \in Handles \ others : generated(k)
           \/ \E k \in Handles \ others : unsigned(k)
           \/ keys' = others /\ csr' = None /\ UNCHANGED <<failsafe, leaked>>
        /\ UNCHANGED <<window, fabrics, last, sessions, scoped, committed>>

AddTrustedRootCertificate(r) ==
    /\ MayChange /\ ~failsafe.progress.added_trusted_root
    /\ root' = [root |-> r, stale |-> FALSE]
    /\ csr' = ReapedCsr /\ keys' = ReapedKeys
    /\ failsafe' = Recorded(failsafe, "added_trusted_root")
    /\ UNCHANGED <<window, fabrics, last, sessions, scoped, committed, leaked>>

Least(S) == CHOOSE i \in S : \A j \in S : i <= j
Above == {i \in Indexes \ Joined : i > last}

\* FabricTable::allocate_index: the next free index after the last, cyclically
AllocateIndex == IF Above # {} THEN Least(Above) ELSE Least(Indexes \ Joined)

\* Step 10a of AddNOC: the PASE session that ran it gets the new fabric's index
Bound(s, index) ==
    IF OverCase(s) THEN sessions
    ELSE (sessions \ {s}) \cup {[s EXCEPT !.fabric = index]}

\* A mutant of Adopted: the context stays with the fabric that armed it
NotAdopted(index) == Recorded(failsafe, "added_noc")

Adopted(index) == [Recorded(failsafe, "added_noc") EXCEPT !.fabric = index]

\* A mutant of UsedCsr: the CSR stays pending after its key has a fabric
KeptCsr == csr' = csr

\* Both NOC commands: the key now belongs to the fabric
UsedCsr == csr' = None

AddNOC(s) ==
    /\ MayChange
    /\ ReapedCsr # None /\ ~csr.for_update
    /\ ReapedRoot # None
    /\ \A i \in Joined : fabrics[i].root # root.root
    /\ Cardinality(Joined) < Capacity
    /\ LET index == AllocateIndex
       IN  /\ fabrics' = [i \in Joined \cup {index} |->
                IF i = index THEN [root |-> root.root, key |-> csr.key] ELSE fabrics[i]]
           /\ last' = index
           /\ failsafe' = Adopted(index)
           /\ scoped' = scoped \cup {index}
           /\ sessions' = Bound(s, index)
    /\ UsedCsr /\ root' = None
    /\ UNCHANGED <<window, keys, committed, leaked>>

UpdateNOC(s) ==
    /\ MayChange /\ ~failsafe.progress.added_trusted_root
    /\ ReapedCsr # None /\ csr.for_update
    /\ s.fabric \in Joined
    /\ fabrics' = [fabrics EXCEPT ![s.fabric].key = csr.key]
    /\ keys' = keys \ {fabrics[s.fabric].key}
    /\ UsedCsr /\ root' = ReapedRoot
    /\ failsafe' = Recorded(failsafe, "updated_noc")
    /\ UNCHANGED <<window, last, sessions, scoped, committed, leaked>>

RemoveFabric(i) ==
    /\ i \in Joined
    /\ ForgetFabric({i}, {})
    /\ csr' = ReapedCsr /\ root' = ReapedRoot
    /\ keys' = ReapedKeys \ {fabrics[i].key}
    /\ window' = Forgotten({i})
    /\ UNCHANGED <<failsafe, last, leaked>>

-----------------------------------------------------------------------------
Tick ==
    /\ failsafe # None \/ WindowOpen
    /\ failsafe' = IF failsafe = None THEN None ELSE Elapsed(failsafe)
    /\ window' = IF window = None THEN None ELSE [window EXCEPT !.left = Elapse(@)]
    /\ UNCHANGED <<credentials, sessions>>

Command(s) ==
    \/ \E seconds \in Lengths : ArmFailSafe(s, seconds)
    \/ CompleteTooLate(s)
    \/ CommissioningComplete(s)
    \/ OpenCommissioningWindow(s)
    \/ RevokeCommissioning
    \/ OtherCommand
    \/ \E for_update \in BOOLEAN : CSRRequest(s, for_update)
    \/ \E r \in Roots : AddTrustedRootCertificate(r)
    \/ AddNOC(s)
    \/ UpdateNOC(s)
    \/ \E i \in Indexes : RemoveFabric(i)

Next ==
    \/ EstablishPase
    \/ \E i \in Indexes : EstablishCase(i)
    \/ \E s \in sessions : CloseSession(s) \/ Command(s)
    \/ Tick

Spec == Init /\ [][Next]_vars

-----------------------------------------------------------------------------
\* Type invariant: every variable holds a value of its Rust type, and the table is
\* within its capacity.
TypeOK ==
    /\ failsafe \in Armed \cup {None} /\ window \in Windows \cup {None}
    /\ Joined \in SUBSET Indexes /\ fabrics \in [Joined -> Fabrics]
    /\ Cardinality(Joined) <= Capacity /\ last \in 0 .. MaxIndex
    /\ keys \in SUBSET Handles /\ leaked \in SUBSET Handles
    /\ csr \in PendingCsrs \cup {None} /\ root \in PendingRoots \cup {None}
    /\ sessions \in SUBSET Sessions
    /\ scoped \in SUBSET Indexes /\ committed \in SUBSET Indexes

\* However often its administrator re-arms it, a fail-safe context is live for less
\* than max_cumulative_seconds: re-arming never moves the cumulative deadline.
HoldBounded == Live(failsafe) => failsafe.held < MaxCumulative

\* The key store holds exactly the keys of the fabrics, the key of the pending CSR and
\* the keys whose CSR could not be signed, each key once: no command destroys the key
\* of a fabric in the table, gives two owners one key, or otherwise leaves one behind.
KeysAccounted ==
    LET owned == {fabrics[i].key : i \in Joined}
    IN  /\ keys = owned \cup KeyOf(csr) \cup leaked
        /\ owned \cap (KeyOf(csr) \cup leaked) = {} /\ KeyOf(csr) \cap leaked = {}
        /\ \A i, j \in Joined : fabrics[i].key = fabrics[j].key => i = j

\* A fabric whose commissioning was never completed is the fabric of the fail-safe
\* context that added it, so that the context's expiry will remove it.
UncommittedIsHeld ==
    \A i \in Joined \ committed :
        failsafe # None /\ failsafe.progress.added_noc /\ failsafe.fabric = i

\* The credentials a NOC command uses were made in its own fail-safe context: neither a
\* CSR nor a root that an ended context left pending is adopted by a later one (reap).
NoStaleCredential ==
    [][Live(failsafe) /\ ~UsedNoc(failsafe) /\ failsafe' # None /\ UsedNoc(failsafe')
        => /\ ~csr.stale
           /\ failsafe'.progress.added_noc => ~root.stale]_vars

\* Every fabric index that a session, a cluster's fabric-scoped data or the
\* commissioning window holds is of a fabric in the table: since indexes are reused,
\* one that outlived its fabric would pass to the next.
IndexesResolve ==
    /\ \A s \in sessions : s.fabric \in Joined \cup {NoFabric}
    /\ scoped \subseteq Joined
    /\ window # None => window.admin \in Joined \cup {NoFabric}

\* A committed fabric leaves the table by a RemoveFabric command only: no expiry,
\* disarming or completion of any fail-safe context rolls it back.
CommittedStays ==
    [][\A i \in committed : i \notin DOMAIN fabrics' => RemoveFabric(i)]_vars
=============================================================================
