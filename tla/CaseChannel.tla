----------------------------- MODULE CaseChannel -----------------------------
(***************************************************************************)
(* Operational sessions: the CASE handshake (sc/case.rs) run by several    *)
(* initiators against one device, whose secure channel (sc/channel.rs)     *)
(* keeps a single responder, while its fabric table and its session table  *)
(* change between the messages of a handshake.                             *)
(*                                                                         *)
(* A handshake is named by the attempt that drew its randomness: an        *)
(* attempt number stands for the initiator's random, ephemeral key and     *)
(* session id, and for the keys the handshake derives.  A credential is a  *)
(* NOC of the device: a fabric and a node id.  What the cryptography       *)
(* guarantees is taken for granted: a message opens under the keys of its  *)
(* own handshake and no others, and a chain verifies against the root of   *)
(* its own fabric and no other.                                            *)
(***************************************************************************)
EXTENDS Integers, FiniteSets, Option

CONSTANTS Nodes,        \* the initiators
          Creds,        \* the NOCs the device may hold
          First,        \* the one it was commissioned with
          FabricOf,     \* [Creds -> fabrics]: the root a NOC chains to
          FabricId,     \* [fabrics -> ids]: the fabric id its NOCs carry
          MemberOf,     \* [Nodes -> fabrics]
          LocalIds,     \* the session ids the device can draw
          MaxSessions,  \* S of Messaging
          LastIndex,    \* the highest fabric index (254)
          MaxAttempts,  \* bound: handshakes started
          MaxChanges    \* bound: changes of the fabric table

Fabrics == {FabricOf[c] : c \in Creds}
Indexes == 1..LastIndex
Attempts == 1..MaxAttempts

\* Nothing in the code makes the fabric ids of two roots differ: they are the
\* administrators' choice.  `sigma3` looks a fabric up by its id alone.
ASSUME FabricIdsDistinct ==
  \A f, g \in Fabrics : FabricId[f] = FabricId[g] => f = g

ASSUME CaseConstants ==
  /\ FabricOf \in [Creds -> Fabrics] /\ MemberOf \in [Nodes -> Fabrics]
  /\ IsFiniteSet(LocalIds)
  /\ LastIndex \in Nat \ {0} /\ MaxSessions \in Nat \ {0}
  /\ MaxAttempts \in Nat /\ MaxChanges \in Nat
  /\ First \in Creds /\ None \notin Creds

VARIABLES fabrics,    \* the device's fabric table: index -> credential or None
          lastIndex,  \* `last_index` of the table
          slot,       \* the channel's one responder, with case_local and case_fabric
          sessions,   \* the device's CASE sessions
          node,       \* each node's initiator, and the session it ends in
          net,        \* messages in transit
          attempts,   \* handshakes started
          changes,    \* changes of the fabric table
          installed   \* history: every session the device ever installed

device == <<fabrics, lastIndex, slot, sessions, changes, installed>>
vars == <<fabrics, lastIndex, slot, sessions, node, net, attempts, changes, installed>>

Responder ==
  [state : {"AwaitingSigma3", "Done"}, attempt : Attempts, cred : Creds,
   local : LocalIds, index : Indexes]

\* `local` is the NOC whose node id the session seals with.
Session ==
  [id : LocalIds, node : Nodes, attempt : Attempts, index : Indexes, local : Creds]

Initiator ==
  [state : {"Idle", "AwaitingSigma2", "AwaitingFinished", "Failed", "Established"},
   attempt : Attempts \union {0}, cred : Creds \union {None},
   peer : LocalIds \union {None}]

Message ==
  [type : {"Sigma1"}, node : Nodes, attempt : Attempts, cred : Creds]
    \union [type : {"Sigma2"}, node : Nodes, attempt : Attempts, local : LocalIds]
    \union [type : {"Sigma3", "Finished", "Refused"}, node : Nodes, attempt : Attempts]

\* Every part of the state has its type, the session table holds at most S
\* sessions, and no two of them answer to one local session id.
TypeOK ==
  /\ fabrics \in [Indexes -> Creds \union {None}]
  /\ lastIndex \in Indexes
  /\ slot \in Responder \union {None}
  /\ sessions \subseteq Session
  /\ Cardinality(sessions) <= MaxSessions
  /\ \A s, t \in sessions : s.id = t.id => s = t
  /\ node \in [Nodes -> Initiator]
  /\ net \subseteq Message
  /\ attempts \in 0..MaxAttempts /\ changes \in 0..MaxChanges
  /\ installed \subseteq Session

\* A device commissioned onto its first fabric.
Init ==
  /\ fabrics = [i \in Indexes |-> IF i = 1 THEN First ELSE None]
  /\ lastIndex = 1
  /\ slot = None /\ sessions = {} /\ installed = {}
  /\ node = [n \in Nodes |-> [state |-> "Idle", attempt |-> 0, cred |-> None, peer |-> None]]
  /\ net = {} /\ attempts = 0 /\ changes = 0

-----------------------------------------------------------------------------
(* The fabric table.                                                       *)

Joined == {i \in Indexes : fabrics[i] # None}

\* allocate_index: the first free index after the last one given out.
Ahead(i) == IF i > lastIndex THEN i - lastIndex ELSE i + LastIndex - lastIndex
AllocateIndex ==
  CHOOSE i \in Indexes \ Joined : \A j \in Indexes \ Joined : Ahead(i) <= Ahead(j)

\* AddNOC on a root and fabric id the device is not on yet (FabricConflict
\* otherwise), ending in `insert`.
AddNoc(c) ==
  /\ changes < MaxChanges
  /\ Joined # Indexes
  /\ \A i \in Joined : FabricOf[fabrics[i]] # FabricOf[c]
  /\ fabrics' = [fabrics EXCEPT ![AllocateIndex] = c]
  /\ lastIndex' = AllocateIndex
  /\ changes' = changes + 1
  /\ UNCHANGED <<slot, sessions, node, net, attempts, installed>>

\* UpdateNOC, on a session of the fabric: it keeps its index, its root and its
\* id; the node id is the new NOC's.  Sessions and the channel's responder stay.
UpdateNoc(i, c) ==
  /\ changes < MaxChanges
  /\ \E s \in sessions : s.index = i
  /\ i \in Joined /\ fabrics[i] # c /\ FabricOf[fabrics[i]] = FabricOf[c]
  /\ fabrics' = [fabrics EXCEPT ![i] = c]
  /\ changes' = changes + 1
  /\ UNCHANGED <<lastIndex, slot, sessions, node, net, attempts, installed>>

\* Mutant: the fabric's sessions outlive it.
RemoveFabricOnly(i) ==
  /\ changes < MaxChanges
  /\ i \in Joined
  /\ fabrics' = [fabrics EXCEPT ![i] = None]
  /\ changes' = changes + 1
  /\ UNCHANGED <<lastIndex, slot, sessions, node, net, attempts, installed>>

\* RemoveFabric, with the sessions the application closes after the answer.
\* The channel is not told: a responder that has answered Sigma1 stays.
RemoveFabric(i) ==
  /\ changes < MaxChanges
  /\ i \in Joined
  /\ fabrics' = [fabrics EXCEPT ![i] = None]
  /\ sessions' = {s \in sessions : s.index # i}
  /\ changes' = changes + 1
  /\ UNCHANGED <<lastIndex, slot, node, net, attempts, installed>>

-----------------------------------------------------------------------------
(* The initiators.                                                         *)

\* CaseInitiator::start.
Start(n, c) ==
  /\ attempts < MaxAttempts
  /\ node[n].state \notin {"AwaitingSigma2", "AwaitingFinished"}
  /\ FabricOf[c] = MemberOf[n]
  /\ attempts' = attempts + 1
  /\ node' = [node EXCEPT ![n] = [state |-> "AwaitingSigma2", attempt |-> attempts + 1,
                                  cred |-> c, peer |-> None]]
  /\ net' = net \union {[type |-> "Sigma1", node |-> n, attempt |-> attempts + 1, cred |-> c]}
  /\ UNCHANGED device

\* The initiator's exchange runs out of retransmissions: what is on its way to
\* the node is lost, what the node sent may still arrive.
GiveUp(n) ==
  /\ node[n].state \in {"AwaitingSigma2", "AwaitingFinished"}
  /\ node' = [node EXCEPT ![n].state = "Failed"]
  /\ net' = {m \in net : m.node # n \/ m.type \in {"Sigma1", "Sigma3"}}
  /\ UNCHANGED attempts /\ UNCHANGED device

Answers(m, type, state) ==
  /\ m.type = type
  /\ node[m.node].state = state /\ node[m.node].attempt = m.attempt

\* handle_sigma2: the device's chain and node id are those Sigma1 asked for,
\* the keys are derived and Sigma3 goes out.
OnSigma2(m) ==
  /\ Answers(m, "Sigma2", "AwaitingSigma2")
  /\ node' = [node EXCEPT ![m.node].state = "AwaitingFinished", ![m.node].peer = m.local]
  /\ net' = (net \ {m})
       \union {[type |-> "Sigma3", node |-> m.node, attempt |-> m.attempt]}
  /\ UNCHANGED attempts /\ UNCHANGED device

\* accept_finished on success: the node builds its end of the session.
OnFinished(m) ==
  /\ Answers(m, "Finished", "AwaitingFinished")
  /\ node' = [node EXCEPT ![m.node].state = "Established"]
  /\ net' = net \ {m}
  /\ UNCHANGED attempts /\ UNCHANGED device

\* Any other StatusReport.
OnRefused(m) ==
  /\ Answers(m, "Refused", "AwaitingSigma2")
  /\ node' = [node EXCEPT ![m.node].state = "Failed"]
  /\ net' = net \ {m}
  /\ UNCHANGED attempts /\ UNCHANGED device

-----------------------------------------------------------------------------
(* The device.                                                             *)

\* accept_sigma1's lookup: the destination identifier is a digest of the
\* root, the fabric id, the node id and the IPK.
Destination(c) == {i \in Joined : fabrics[i] = c}

\* sigma1: the channel's slot is overwritten or cleared, whatever it held.
OnSigma1(m, id) ==
  /\ m.type = "Sigma1"
  /\ slot' = IF Destination(m.cred) = {} THEN None
             ELSE [state |-> "AwaitingSigma3", attempt |-> m.attempt, cred |-> m.cred,
                   local |-> id, index |-> CHOOSE i \in Destination(m.cred) : TRUE]
  /\ net' = (net \ {m}) \union
       {IF Destination(m.cred) = {}
        THEN [type |-> "Refused", node |-> m.node, attempt |-> m.attempt]
        ELSE [type |-> "Sigma2", node |-> m.node, attempt |-> m.attempt, local |-> id]}
  /\ UNCHANGED <<fabrics, lastIndex, sessions, changes, installed, node, attempts>>

\* Mutant: the fabric of Sigma1 is taken from the responder's memory.
VerifiesRemembered(m) ==
  /\ slot.state = "AwaitingSigma3" /\ slot.attempt = m.attempt
  /\ MemberOf[m.node] = FabricOf[slot.cred]

\* accept_sigma3, handle_sigma3 and verify_peer: the fabric Sigma1 resolved is
\* still there, the message opens under this handshake's keys, and the
\* initiator's chain leads to that fabric's root and carries its id.
Verifies(m) ==
  /\ slot.state = "AwaitingSigma3" /\ slot.attempt = m.attempt
  /\ slot.index \in Joined
  /\ MemberOf[m.node] = FabricOf[fabrics[slot.index]]
  /\ FabricId[MemberOf[m.node]] = FabricId[FabricOf[slot.cred]]

\* The table's fabrics with the id of the initiator's chain.
Named(m) == {i \in Joined : FabricId[FabricOf[fabrics[i]]] = FabricId[MemberOf[m.node]]}

\* install_session: with the table full the least recently used session goes
\* first, and which one that is depends on traffic.
Room(v) == IF Cardinality(sessions) < MaxSessions THEN v = {} ELSE \E s \in sessions : v = {s}

\* `insert` refuses an id still taken: the victim is gone all the same, the
\* responder stays in the slot, and nothing is answered.
Taken(id, v) == \E s \in sessions \ v : s.id = id

Finished(m) == [type |-> "Finished", node |-> m.node, attempt |-> m.attempt]

\* into_session on the fabric found, and install_session.
Install(m, i, v) ==
  LET s == [id |-> slot.local, node |-> m.node, attempt |-> m.attempt, index |-> i,
            local |-> fabrics[i]]
      refused == Taken(slot.local, v)
  IN  /\ sessions' = IF refused THEN sessions \ v ELSE (sessions \ v) \union {s}
      /\ installed' = IF refused THEN installed ELSE installed \union {s}
      /\ slot' = IF refused THEN [slot EXCEPT !.state = "Done"] ELSE None
      /\ net' = IF refused THEN net \ {m} ELSE (net \ {m}) \union {Finished(m)}

\* sigma3 without a responder: SILENT.
Sigma3Silent(m) ==
  /\ m.type = "Sigma3" /\ slot = None
  /\ net' = net \ {m}
  /\ UNCHANGED <<slot, fabrics, lastIndex, sessions, changes, installed, node, attempts>>

\* sigma3 that does not verify: the slot is cleared, whoever's it was, and the
\* application sends nothing.
Sigma3Fails(m) ==
  /\ m.type = "Sigma3" /\ slot # None /\ ~Verifies(m)
  /\ slot' = None
  /\ net' = net \ {m}
  /\ UNCHANGED <<fabrics, lastIndex, sessions, changes, installed, node, attempts>>

\* sigma3 that verifies.  With no fabric of that id it answers success and
\* installs nothing.
Sigma3Accepted(m, v) ==
  /\ m.type = "Sigma3" /\ slot # None /\ Verifies(m)
  /\ Room(v)
  /\ UNCHANGED <<fabrics, lastIndex, changes, node, attempts>>
  /\ IF Named(m) = {}
     THEN /\ slot' = None
          /\ net' = (net \ {m}) \union {Finished(m)}
          /\ UNCHANGED <<sessions, installed>>
     ELSE \E i \in Named(m) : Install(m, i, v)

\* A session ends on the device: CloseSession from the peer, or its reaping.
CloseSession(s) ==
  /\ sessions' = sessions \ {s}
  /\ UNCHANGED <<fabrics, lastIndex, slot, changes, installed, node, net, attempts>>

Next ==
  \/ \E c \in Creds : AddNoc(c)
  \/ \E i \in Indexes, c \in Creds : UpdateNoc(i, c)
  \/ \E i \in Indexes : RemoveFabric(i)
  \/ \E n \in Nodes, c \in Creds : Start(n, c)
  \/ \E n \in Nodes : GiveUp(n)
  \/ \E m \in net : OnSigma2(m) \/ OnFinished(m) \/ OnRefused(m)
  \/ \E m \in net, id \in LocalIds : OnSigma1(m, id)
  \/ \E m \in net : Sigma3Silent(m) \/ Sigma3Fails(m)
  \/ \E m \in net, v \in SUBSET sessions : Sigma3Accepted(m, v)
  \/ \E s \in sessions : CloseSession(s)

Spec == Init /\ [][Next]_vars

-----------------------------------------------------------------------------

\* A node that believes in a session has one on the device: when accept_finished
\* returns success, the device installed a session of that handshake, for that
\* node, under the local session id the node will address.
SessionsAgree ==
  \A n \in Nodes : node[n].state = "Established" =>
    \E s \in installed : s.node = n /\ s.attempt = node[n].attempt /\ s.id = node[n].peer

\* A session acts for the fabric its peer belongs to: the fabric index it
\* carries (what access control, subscriptions and writes are scoped by) is
\* joined, and by the fabric of the initiator's chain, through removals,
\* rotations and reuse of indexes between Sigma1 and Sigma3.
SessionOnItsFabric ==
  \A s \in sessions : s.index \in Joined /\ FabricOf[fabrics[s.index]] = MemberOf[s.node]
=============================================================================
