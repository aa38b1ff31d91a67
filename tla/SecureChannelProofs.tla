------------------------ MODULE SecureChannelProofs ------------------------
(***************************************************************************)
(* The two secure channel protocols. PASE (PaseChannel), for any set of    *)
(* handshakes and any limit on failures: type correctness, the agreement   *)
(* of gate and responder, and section 5.5's rules 1 and 3. CASE            *)
(* (CaseChannel): the sessions it makes, for every number of nodes,        *)
(* credentials, sessions, handshakes and changes of the fabric table.      *)
(***************************************************************************)
EXTENDS CaseChannel, PaseChannel, FiniteSetTheorems, WellFoundedInduction, TLAPS

-----------------------------------------------------------------------------
(* PASE                                                                    *)

\* A handshake that holds the gate has not been counted as a failure yet
InFlight == admission \in {"Establishing", "Late"}

\* Every request answered since the last clearing has failed, or is the one in flight,
\* which leaves room for its own failure. This is what makes AttemptsBounded inductive.
Accounted ==
    /\ answered <= failures + (IF InFlight THEN 1 ELSE 0)
    /\ InFlight => failures < MaxFailures

\* Session ids are fresh: the one of a handshake in flight is no live session's, so
\* no CloseSession ends it uncounted
Fresh ==
    /\ InFlight => local \notin live
    /\ \A h \in Handshakes : PaseMessage("request", h) \in inbound => h \notin live \cup {local}

IInv == PaseTypeOK /\ HeldByResponder /\ Accounted /\ Fresh /\ SessionsAreProved

-----------------------------------------------------------------------------
\* What Channel::fail leaves behind: the gate idle, the responder gone, and one
\* more failure counted against the handshake that was in flight
LEMMA FailStep ==
    ASSUME NEW n \in 0 .. MaxFailures, IInv, Fail(n), inbound' \subseteq inbound,
           answered <= n + 1, n < MaxFailures \/ answered <= n
    PROVE  IInv'
<1> USE PaseAssumption DEF IInv
<1>1. Counted(n) \in 0 .. MaxFailures /\ answered <= Counted(n)
  BY DEF Counted, PaseTypeOK
<1>2. PaseTypeOK'
  BY <1>1 DEF PaseTypeOK, Fail
<1>3. HeldByResponder'
  BY DEF HeldByResponder, Fail
<1>4. Accounted'
  BY <1>1 DEF Accounted, InFlight, Fail, PaseTypeOK
<1>5. Fresh' /\ SessionsAreProved'
  BY DEF Fresh, InFlight, SessionsAreProved, Fail
<1> QED BY <1>2, <1>3, <1>4, <1>5

\* The room Accounted leaves is what Fail(failures) needs
LEMMA RoomToFail ==
    ASSUME IInv
    PROVE  /\ failures \in 0 .. MaxFailures
           /\ answered <= failures + 1
           /\ failures < MaxFailures \/ answered <= failures
BY PaseAssumption DEF IInv, PaseTypeOK, Accounted, InFlight

\* The same after PaseAdmission::expire has run at the start of admit
LEMMA RoomAfterExpiry ==
    ASSUME IInv, Admits
    PROVE  /\ ExpiredFailures \in 0 .. MaxFailures - 1
           /\ answered <= ExpiredFailures
BY PaseAssumption
   DEF IInv, PaseTypeOK, Accounted, InFlight, Admits, ExpiredFailures, ExpiredChannel, Counted

\* A node that has just booted satisfies it
LEMMA InitIInv == PaseInit => IInv
<1> SUFFICES ASSUME PaseInit PROVE IInv
  OBVIOUS
<1>1. inbound \subseteq [kind : {"request", "pake1", "pake3"}, h : Handshakes]
  BY DEF PaseInit, PaseMessage
<1>2. PaseTypeOK
  <2>1. failures \in 0 .. MaxFailures /\ answered \in Nat
    BY PaseAssumption DEF PaseInit
  <2> QED BY Zenon, <1>1, <2>1 DEF PaseInit, PaseTypeOK
<1>3. admission = "Idle" /\ failures = 0 /\ pase = None /\ local = None /\ live = {} /\ answered = 0
  BY DEF PaseInit
<1>4. HeldByResponder /\ Accounted /\ Fresh /\ SessionsAreProved
  BY <1>3, PaseAssumption DEF HeldByResponder, Accounted, InFlight, Fresh, SessionsAreProved
<1> QED BY <1>2, <1>4 DEF IInv

-----------------------------------------------------------------------------
\* A refused request leaves the invariant, having counted a handshake that was overdue
LEMMA RequestRefusedStep ==
    ASSUME IInv, NEW h \in Handshakes, RequestRefused(h)
    PROVE  IInv'
<1> USE PaseAssumption DEF IInv, RequestRefused, Delivered, loopVars
<1>1. ExpiredFailures \in 0 .. MaxFailures /\ ExpiredChannel \in {"Idle", "Establishing", "Established"}
  BY DEF PaseTypeOK, ExpiredFailures, ExpiredChannel, Counted
<1>2. PaseTypeOK'
  BY <1>1 DEF PaseTypeOK
<1>3. HeldByResponder'
  BY DEF HeldByResponder, ExpiredChannel
<1>4. Accounted'
  BY DEF Accounted, InFlight, ExpiredChannel, ExpiredFailures, Counted, PaseTypeOK
<1>5. Fresh' /\ SessionsAreProved'
  BY DEF Fresh, InFlight, ExpiredChannel, SessionsAreProved
<1> QED BY <1>2, <1>3, <1>4, <1>5

\* An admitted request starts a handshake the budget has room for
LEMMA RequestAnsweredStep ==
    ASSUME IInv, NEW h \in Handshakes, RequestAnswered(h)
    PROVE  IInv'
<1> USE PaseAssumption DEF IInv, RequestAnswered, loopVars
<1>1. /\ ExpiredFailures \in 0 .. MaxFailures - 1
      /\ answered <= ExpiredFailures
  BY RoomAfterExpiry
<1>2. inbound' \subseteq [kind : {"request", "pake1", "pake3"}, h : Handshakes]
  BY DEF PaseTypeOK, DeliveredFor, PaseMessage
<1>3. pase' = [h |-> h, state |-> "AwaitingPake1", pake1 |-> None]
  BY DEF PaseResponder
<1>4. PaseTypeOK'
  BY <1>1, <1>2, <1>3 DEF PaseTypeOK, Responders
<1>5. HeldByResponder'
  BY <1>3 DEF HeldByResponder, Responders
<1>6. Accounted'
  BY <1>1 DEF Accounted, InFlight, PaseTypeOK
<1>7. SessionsAreProved'
  BY DEF SessionsAreProved
<1>8. Fresh'
  <2>1. h \notin live
    BY DEF Fresh, DeliveredFor
  <2>2. ASSUME NEW g \in Handshakes, PaseMessage("request", g) \in inbound'
        PROVE  g # h /\ PaseMessage("request", g) \in inbound
    BY <2>2 DEF DeliveredFor, PaseMessage
  <2> QED BY <2>1, <2>2 DEF Fresh
<1> QED BY <1>4, <1>5, <1>6, <1>7, <1>8

\* Answering Pake1 moves only the responder's state
LEMMA Pake1AnsweredStep ==
    ASSUME IInv, NEW h \in Handshakes, Pake1Answered(h)
    PROVE  IInv'
<1> USE PaseAssumption DEF IInv, Pake1Answered, loopVars
<1>1. inbound' \subseteq [kind : {"request", "pake1", "pake3"}, h : Handshakes]
  BY DEF PaseTypeOK, DeliveredFor, PaseMessage
<1>2. pase' = [h |-> pase.h, state |-> "AwaitingPake3", pake1 |-> h]
  BY DEF PaseResponder
<1>3. pase.h \in Handshakes
  BY DEF PaseTypeOK, Responders
<1>4. PaseTypeOK'
  BY <1>1, <1>2, <1>3 DEF PaseTypeOK, Responders
<1>5. HeldByResponder'
  BY <1>2, <1>3 DEF HeldByResponder, PaseTypeOK, Responders
<1>6. Accounted' /\ SessionsAreProved'
  BY DEF Accounted, InFlight, Fresh, SessionsAreProved
<1>7. Fresh'
  <2>1. ASSUME NEW g \in Handshakes, PaseMessage("request", g) \in inbound'
        PROVE  PaseMessage("request", g) \in inbound
    BY <2>1 DEF DeliveredFor, PaseMessage
  <2> QED BY <2>1 DEF Fresh, InFlight
<1> QED BY <1>4, <1>5, <1>6, <1>7

\* A confirmed Pake3 installs the session of the handshake that proved the passcode
LEMMA Pake3EstablishesStep ==
    ASSUME IInv, NEW h \in Handshakes, Pake3Establishes(h)
    PROVE  IInv'
<1> USE PaseAssumption DEF IInv, Pake3Establishes, loopVars
<1>1. local = h /\ h \in Knows
  BY DEF HeldByResponder, Confirms
<1>2. pase' \in Responders /\ pase'.h = pase.h /\ pase'.state = "Established"
  BY DEF PaseTypeOK, Responders
<1>3. PaseTypeOK'
  BY <1>1, <1>2 DEF PaseTypeOK, Delivered
<1>4. HeldByResponder'
  BY <1>2 DEF HeldByResponder, PaseTypeOK
<1>5. Accounted'
  BY DEF Accounted, InFlight
<1>6. SessionsAreProved'
  BY <1>1 DEF SessionsAreProved
<1>7. Fresh'
  BY DEF Fresh, InFlight, Delivered
<1> QED BY <1>3, <1>4, <1>5, <1>6, <1>7

\* What the loop, the peer and the administrator do to the channel
LEMMA DeviceStep ==
    ASSUME IInv,
           \/ Release \/ Deadline \/ OpenWindow \/ CloseWindow \/ Arm \/ Disarm
           \/ \E s \in live : PeerCloses(s) \/ Evict(s)
           \/ \E m \in inbound : Silence(m)
    PROVE  IInv'
<1> USE PaseAssumption DEF IInv, channelVars, loopVars
<1>1. CASE Release
  BY <1>1 DEF Release, ReleaseDue, PaseTypeOK, HeldByResponder, Accounted, InFlight, Fresh,
     SessionsAreProved
<1>2. CASE Deadline
  BY <1>2 DEF Deadline, PaseTypeOK, HeldByResponder, Accounted, InFlight, Fresh, SessionsAreProved
<1>3. CASE OpenWindow
  BY <1>3 DEF OpenWindow, PaseTypeOK, HeldByResponder, Accounted, InFlight, Fresh, SessionsAreProved
<1>4. CASE CloseWindow
  BY Zenon, <1>4 DEF CloseWindow, PaseTypeOK, HeldByResponder, Accounted, InFlight, Fresh,
     SessionsAreProved
<1>5. CASE Arm
  BY <1>5 DEF Arm, PaseTypeOK, HeldByResponder, Accounted, InFlight, Fresh, SessionsAreProved
<1>6. CASE Disarm
  BY Zenon, <1>6 DEF Disarm, PaseTypeOK, HeldByResponder, Accounted, InFlight, Fresh, SessionsAreProved
<1>7. ASSUME NEW s \in live, PeerCloses(s)
      PROVE  IInv'
  <2>1. CASE s = local
    BY <1>7, <2>1 DEF PeerCloses, PaseTypeOK, HeldByResponder, Accounted, InFlight, Fresh,
       SessionsAreProved
  <2>2. CASE s # local
    BY <1>7, <2>2 DEF PeerCloses, PaseTypeOK, HeldByResponder, Accounted, InFlight, Fresh,
       SessionsAreProved
  <2> QED BY <2>1, <2>2
<1>8. ASSUME NEW s \in live, Evict(s)
      PROVE  IInv'
  BY <1>8 DEF Evict, PaseTypeOK, HeldByResponder, Accounted, InFlight, Fresh, SessionsAreProved
<1>9. ASSUME NEW m \in inbound, Silence(m)
      PROVE  IInv'
  BY <1>9 DEF Silence, Delivered, PaseTypeOK, HeldByResponder, Accounted, InFlight, Fresh,
     SessionsAreProved
<1> QED BY <1>1, <1>2, <1>3, <1>4, <1>5, <1>6, <1>7, <1>8, <1>9

\* Every step of the node keeps the invariant
LEMMA StepIInv == IInv /\ [PaseNext]_paseVars => IInv'
<1> SUFFICES ASSUME IInv, [PaseNext]_paseVars PROVE IInv'
  OBVIOUS
<1>1. CASE UNCHANGED paseVars
  BY <1>1 DEF paseVars, channelVars, loopVars, IInv, PaseTypeOK, HeldByResponder, Accounted, InFlight,
              Fresh, SessionsAreProved
<1>2. ASSUME NEW h \in Handshakes, RequestRejected(h)
      PROVE  IInv'
  <2>1. inbound' \subseteq inbound /\ Fail(ExpiredFailures) /\ Admits
    BY <1>2 DEF RequestRejected, Delivered
  <2>2. /\ ExpiredFailures \in 0 .. MaxFailures - 1
        /\ answered <= ExpiredFailures
    BY <2>1, RoomAfterExpiry
  <2>3. /\ ExpiredFailures \in 0 .. MaxFailures
        /\ answered <= ExpiredFailures + 1
    BY <2>2, PaseAssumption DEF IInv, PaseTypeOK
  <2> QED BY <2>1, <2>2, <2>3, FailStep
<1>3. ASSUME NEW h \in Handshakes, Pake1Fails(h) \/ Pake3Fails(h)
      PROVE  IInv'
  BY <1>3, FailStep, RoomToFail DEF Pake1Fails, Pake3Fails, Delivered
<1>4. CASE Poll
  BY <1>4, FailStep, RoomToFail DEF Poll
<1> QED
  BY <1>1, <1>2, <1>3, <1>4, RequestRefusedStep, RequestAnsweredStep, Pake1AnsweredStep,
     Pake3EstablishesStep, DeviceStep DEF PaseNext, Event

-----------------------------------------------------------------------------
\* The invariant holds throughout
LEMMA Invariance == PaseSpec => []IInv
<1>1. PaseInit => IInv
  BY InitIInv
<1>2. IInv /\ [PaseNext]_paseVars => IInv'
  BY StepIInv
<1> QED BY <1>1, <1>2, PTL DEF PaseSpec

\* Every variable of the channel, the gate and the loop keeps its type
THEOREM TypeCorrect == PaseSpec => []PaseTypeOK
<1>1. IInv => PaseTypeOK
  BY DEF IInv
<1> QED BY <1>1, Invariance, PTL

\* The commissioning channel is held only for the responder that is there
THEOREM GateAndResponderAgree == PaseSpec => []HeldByResponder
<1>1. IInv => HeldByResponder
  BY DEF IInv
<1> QED BY <1>1, Invariance, PTL

\* Section 5.5's rule 3, for any MAX_FAILED_ATTEMPTS: admit answers no more requests
\* between two clearings of the count than it allows
THEOREM AttemptsAreBounded == PaseSpec => []AttemptsBounded
<1>1. IInv => AttemptsBounded
  BY PaseAssumption DEF IInv, PaseTypeOK, Accounted, InFlight, AttemptsBounded
<1> QED BY <1>1, Invariance, PTL

\* A session is installed by pake3 only for a commissioner that knew the passcode
THEOREM OnlyProvedSessions == PaseSpec => []SessionsAreProved
<1>1. IInv => SessionsAreProved
  BY DEF IInv
<1> QED BY <1>1, Invariance, PTL

\* Section 5.5's rule 1: no request replaces the responder of a handshake in flight
THEOREM NeverTakenOver == PaseSpec => NotTakenOver
<1> DEFINE Kept == pase' # None /\ admission \in {"Establishing", "Established"}
                   => pase'.h = pase.h
<1>1. IInv /\ [PaseNext]_paseVars => [Kept]_paseVars
  <2> SUFFICES ASSUME IInv, PaseNext, pase' # None, admission \in {"Establishing", "Established"}
               PROVE  pase'.h = pase.h
    BY DEF paseVars, channelVars
  <2>1. ~Admits
    BY DEF Admits, ExpiredChannel
  <2>2. pase' = pase \/ (\E h \in Handshakes : Pake1Answered(h) \/ Pake3Establishes(h))
    BY <2>1 DEF PaseNext, Event, Release, RequestRefused, RequestAnswered, RequestRejected,
       Pake1Fails, Pake3Fails, Fail, Silence, Deadline, Poll, PeerCloses, Evict, OpenWindow,
       CloseWindow, Arm, Disarm, channelVars
  <2> QED BY <2>2 DEF Pake1Answered, Pake3Establishes, PaseResponder, IInv, PaseTypeOK, Responders
<1> QED BY <1>1, Invariance, PTL DEF PaseSpec, NotTakenOver

-----------------------------------------------------------------------------
(* The type invariant, with the limits of the session table.               *)

\* While an index is free allocate_index finds one that is not in use.
LEMMA AllocatesFree ==
  ASSUME lastIndex \in Indexes, Joined # Indexes
  PROVE  AllocateIndex \in Indexes \ Joined
<1> DEFINE S == Indexes \ Joined
           A == {Ahead(i) : i \in S}
           R == {ss \in Nat \X Nat : ss[1] < ss[2]}
<1>1. \A i \in Indexes : Ahead(i) \in Nat  BY CaseConstants DEF Ahead, Indexes
<1>2. A \subseteq Nat  BY <1>1
<1>3. A # {}  BY DEF Joined
<1>4. IsWellFoundedOn(R, Nat)  BY NatLessThanWellFounded DEF OpToRel
<1> HIDE DEF R
<1>5. PICK a \in A : \A b \in A : ~(<<b, a>> \in R)  BY Zenon, <1>2, <1>3, <1>4, WFMin
<1>6. PICK i \in S : a = Ahead(i)  BY <1>5
<1>7. ASSUME NEW j \in S  PROVE Ahead(i) <= Ahead(j)
  <2>1. Ahead(j) \in Nat /\ Ahead(i) \in Nat /\ Ahead(j) \in A  BY <1>1
  <2>2. ~(<<Ahead(j), Ahead(i)>> \in R)  BY <1>5, <1>6, <2>1
  <2>3. ~(Ahead(j) < Ahead(i))  BY <2>1, <2>2 DEF R
  <2> QED  BY <2>1, <2>3
<1> QED  BY <1>7 DEF AllocateIndex

\* The device's sessions are finitely many.
LEMMA SessionsFinite == TypeOK => IsFiniteSet(sessions)
<1> SUFFICES ASSUME TypeOK  PROVE IsFiniteSet(sessions)
  OBVIOUS
<1> DEFINE ids == {s.id : s \in sessions}
           of == [i \in ids |-> CHOOSE s \in sessions : s.id = i]
<1>1. ids \subseteq LocalIds  BY DEF TypeOK, Session
<1>2. IsFiniteSet(ids)  BY <1>1, CaseConstants, FS_Subset
<1>3. ASSUME NEW s \in sessions  PROVE of[s.id] = s
  <2>1. of[s.id] \in sessions /\ of[s.id].id = s.id  OBVIOUS
  <2> QED  BY <2>1 DEF TypeOK
<1>4. {of[i] : i \in ids} = sessions
  <2>1. \A i \in ids : of[i] \in sessions  OBVIOUS
  <2>2. \A s \in sessions : s.id \in ids  OBVIOUS
  <2> HIDE DEF of, ids
  <2> QED  BY <2>1, <2>2, <1>3
<1> HIDE DEF of, ids
<1>5. of \in [ids -> {of[i] : i \in ids}]  BY DEF of
<1>6. IsFiniteSet({of[i] : i \in ids})
  <2>1. of \in Surjection(ids, {of[i] : i \in ids})  BY <1>5 DEF Surjection
  <2> QED  BY <2>1, <1>2, FS_Surjection, Zenon
<1> QED  BY <1>4, <1>6

\* A session less, or one in the place of the victim, keeps the table's limits.
LEMMA RoomMade ==
  ASSUME TypeOK, NEW v \in SUBSET sessions, Room(v), NEW s,
         NEW T \in {sessions \ v, (sessions \ v) \union {s}}
  PROVE  IsFiniteSet(T) /\ Cardinality(T) <= MaxSessions
<1>1. IsFiniteSet(sessions) /\ Cardinality(sessions) \in Nat /\ Cardinality(sessions) <= MaxSessions
  BY SessionsFinite, FS_CardinalityType DEF TypeOK
<1>2. MaxSessions \in Nat \ {0}  BY CaseConstants
<1>3. /\ IsFiniteSet(sessions \ v) /\ Cardinality(sessions \ v) \in Nat
      /\ Cardinality(sessions \ v) < MaxSessions
  <2>1. CASE Cardinality(sessions) < MaxSessions
    <3>1. sessions \ v = sessions  BY <2>1 DEF Room
    <3> QED  BY <1>1, <2>1, <3>1
  <2>2. CASE ~(Cardinality(sessions) < MaxSessions)
    <3>1. PICK t \in sessions : v = {t}  BY <2>2 DEF Room
    <3>2. /\ IsFiniteSet(sessions \ {t})
          /\ Cardinality(sessions \ {t}) = Cardinality(sessions) - 1
      BY <1>1, FS_RemoveElement
    <3>3. Cardinality(sessions \ {t}) \in Nat  BY <3>2, FS_CardinalityType
    <3> QED  BY <1>1, <1>2, <3>1, <3>2, <3>3
  <2> QED  BY <2>1, <2>2
<1>4. CASE T = sessions \ v
  BY <1>2, <1>3, <1>4
<1>5. CASE T = (sessions \ v) \union {s}
  <2> DEFINE U == sessions \ v
  <2> HIDE DEF U
  <2>1. IsFiniteSet(U) /\ Cardinality(U) \in Nat /\ Cardinality(U) < MaxSessions
    BY <1>3 DEF U
  <2>2. IsFiniteSet(U \union {s}) /\ Cardinality(U \union {s}) \in {Cardinality(U), Cardinality(U) + 1}
    BY <2>1, FS_AddElement
  <2> QED  BY <1>2, <1>5, <2>1, <2>2 DEF U
<1> QED  BY <1>4, <1>5

\* A session gone from a finite table.
LEMMA FewerSessions ==
  ASSUME TypeOK, NEW T \in SUBSET sessions
  PROVE  Cardinality(T) <= MaxSessions
<1>1. IsFiniteSet(sessions)  BY SessionsFinite
<1>2. /\ Cardinality(T) \in Nat /\ Cardinality(sessions) \in Nat
      /\ Cardinality(T) <= Cardinality(sessions)
  BY <1>1, FS_Subset, FS_CardinalityType
<1> QED  BY <1>2, CaseConstants DEF TypeOK

\* Every message is of the set its type names.
LEMMA MessageTypes ==
  ASSUME TypeOK, NEW m \in net
  PROVE  /\ m.node \in Nodes /\ m.attempt \in Attempts
         /\ m.type = "Sigma1" => m.cred \in Creds
         /\ m.type = "Sigma2" => m.local \in LocalIds
  BY DEF TypeOK, Message

\* Init has its types.
LEMMA TypeInit == Init => TypeOK
<1> SUFFICES ASSUME Init  PROVE TypeOK
  OBVIOUS
<1>1. fabrics \in [Indexes -> Creds \union {None}]  BY CaseConstants DEF Init
<1>2. lastIndex \in Indexes  BY CaseConstants DEF Init, Indexes
<1>3. Cardinality(sessions) = 0  BY FS_EmptySet DEF Init
<1>4. node \in [Nodes -> Initiator]  BY DEF Init, Initiator
<1>5. attempts \in 0..MaxAttempts /\ changes \in 0..MaxChanges  BY CaseConstants DEF Init
<1> QED  BY <1>1, <1>2, <1>3, <1>4, <1>5, CaseConstants DEF Init, TypeOK

\* An operation of the fabric table keeps the types.
LEMMA TypeFabrics ==
  ASSUME TypeOK,
         \/ \E c \in Creds : AddNoc(c)
         \/ \E i \in Indexes, c \in Creds : UpdateNoc(i, c)
         \/ \E i \in Indexes : RemoveFabric(i)
  PROVE  TypeOK'
<1>1. CASE \E c \in Creds : AddNoc(c)
  <2>1. PICK c \in Creds : AddNoc(c)  BY <1>1
  <2>2. AllocateIndex \in Indexes  BY <2>1, AllocatesFree DEF AddNoc, TypeOK
  <2>3. fabrics' \in [Indexes -> Creds \union {None}] /\ lastIndex' \in Indexes
    BY <2>1, <2>2 DEF AddNoc, TypeOK
  <2>4. changes' \in 0..MaxChanges  BY <2>1, CaseConstants DEF AddNoc, TypeOK
  <2> QED  BY <2>1, <2>3, <2>4 DEF AddNoc, TypeOK
<1>2. CASE \E i \in Indexes, c \in Creds : UpdateNoc(i, c)
  <2>1. PICK i \in Indexes, c \in Creds : UpdateNoc(i, c)  BY <1>2
  <2>3. fabrics' \in [Indexes -> Creds \union {None}]  BY <2>1 DEF UpdateNoc, TypeOK
  <2>4. changes' \in 0..MaxChanges  BY <2>1, CaseConstants DEF UpdateNoc, TypeOK
  <2> QED  BY <2>1, <2>3, <2>4 DEF UpdateNoc, TypeOK
<1>3. CASE \E i \in Indexes : RemoveFabric(i)
  <2>1. PICK i \in Indexes : RemoveFabric(i)  BY <1>3
  <2>3. fabrics' \in [Indexes -> Creds \union {None}]  BY <2>1 DEF RemoveFabric, TypeOK
  <2>4. changes' \in 0..MaxChanges  BY <2>1, CaseConstants DEF RemoveFabric, TypeOK
  <2>5. sessions' \subseteq sessions  BY <2>1 DEF RemoveFabric
  <2>6. Cardinality(sessions') <= MaxSessions  BY Zenon, <2>5, FewerSessions
  <2> QED  BY <2>1, <2>3, <2>4, <2>5, <2>6 DEF RemoveFabric, TypeOK
<1> QED  BY <1>1, <1>2, <1>3

\* A step of an initiator keeps the types.
LEMMA TypeNodes ==
  ASSUME TypeOK,
         \/ \E n \in Nodes, c \in Creds : Start(n, c)
         \/ \E n \in Nodes : GiveUp(n)
         \/ \E m \in net : OnSigma2(m) \/ OnFinished(m) \/ OnRefused(m)
  PROVE  TypeOK'
<1> SUFFICES /\ node' \in [Nodes -> Initiator] /\ net' \subseteq Message
             /\ attempts' \in 0..MaxAttempts /\ UNCHANGED device
  BY SMTT(30) DEF TypeOK, device
<1>1. CASE \E n \in Nodes, c \in Creds : Start(n, c)
  <2>1. PICK n \in Nodes, c \in Creds : Start(n, c)  BY SMTT(30), <1>1
  <2>2. attempts + 1 \in Attempts /\ attempts' \in 0..MaxAttempts
    BY <2>1, CaseConstants DEF Start, TypeOK, Attempts
  <2>3. [state |-> "AwaitingSigma2", attempt |-> attempts + 1, cred |-> c, peer |-> None]
          \in Initiator
    BY <2>2 DEF Initiator
  <2>4. [type |-> "Sigma1", node |-> n, attempt |-> attempts + 1, cred |-> c] \in Message
    BY ZenonT(40), <2>2 DEF Message
  <2>5. node' \in [Nodes -> Initiator]  BY SMTT(30), <2>1, <2>3 DEF Start, TypeOK
  <2>6. net' \subseteq Message  BY <2>1, <2>4 DEF Start, TypeOK
  <2> QED  BY <2>1, <2>2, <2>5, <2>6 DEF Start
<1>2. ASSUME NEW n \in Nodes, NEW s \in {"AwaitingFinished", "Failed", "Established"},
             node' = [node EXCEPT ![n].state = s]
      PROVE  node' \in [Nodes -> Initiator]
  <2>1. ASSUME NEW r \in Initiator  PROVE [r EXCEPT !.state = s] \in Initiator  BY DEF Initiator
  <2> QED  BY <1>2, <2>1 DEF TypeOK
<1>3. CASE \E n \in Nodes : GiveUp(n)
  <2>1. PICK n \in Nodes : GiveUp(n)  BY <1>3
  <2> QED  BY Zenon, <2>1, <1>2 DEF GiveUp, TypeOK
<1>4. ASSUME NEW m \in net, OnSigma2(m)
      PROVE  node' \in [Nodes -> Initiator] /\ net' \subseteq Message
  <2>1. m.node \in Nodes /\ m.attempt \in Attempts /\ m.local \in LocalIds
    BY <1>4, MessageTypes DEF OnSigma2, Answers
  <2>2. ASSUME NEW r \in Initiator
        PROVE  [r EXCEPT !.state = "AwaitingFinished", !.peer = m.local] \in Initiator
    BY Zenon, <2>1 DEF Initiator
  <2>3. node' = [node EXCEPT ![m.node] =
                   [node[m.node] EXCEPT !.state = "AwaitingFinished", !.peer = m.local]]
    BY Zenon, <1>4, <2>1 DEF OnSigma2, TypeOK
  <2>4. node' \in [Nodes -> Initiator]  BY Zenon, <2>1, <2>2, <2>3 DEF TypeOK
  <2>5. [type |-> "Sigma3", node |-> m.node, attempt |-> m.attempt] \in Message
    BY <2>1 DEF Message
  <2> QED  BY <1>4, <2>4, <2>5 DEF OnSigma2, TypeOK
<1>5. ASSUME NEW m \in net, OnFinished(m) \/ OnRefused(m)
      PROVE  node' \in [Nodes -> Initiator] /\ net' \subseteq Message
  <2>1. m.node \in Nodes  BY MessageTypes
  <2> QED  BY <1>2, <1>5, <2>1 DEF OnFinished, OnRefused, TypeOK
<1> QED
  BY Zenon, <1>1, <1>3, <1>4, <1>5 DEF OnSigma2, OnFinished, OnRefused, GiveUp, TypeOK

\* A step of the device's channel, or the end of a session, keeps the types.
LEMMA TypeDevice ==
  ASSUME TypeOK,
         \/ \E m \in net, id \in LocalIds : OnSigma1(m, id)
         \/ \E m \in net : Sigma3Silent(m) \/ Sigma3Fails(m)
         \/ \E m \in net, v \in SUBSET sessions : Sigma3Accepted(m, v)
         \/ \E s \in sessions : CloseSession(s)
  PROVE  TypeOK'
<1>1. ASSUME NEW m \in net, NEW id \in LocalIds, OnSigma1(m, id)  PROVE TypeOK'
  <2>1. m.node \in Nodes /\ m.attempt \in Attempts /\ m.cred \in Creds
    BY <1>1, MessageTypes DEF OnSigma1
  <2>2. slot' \in Responder \union {None}
    <3>1. CASE Destination(m.cred) = {}
      BY SMTT(30), <1>1, <3>1 DEF OnSigma1
    <3>2. CASE Destination(m.cred) # {}
      <4>1. (CHOOSE i \in Destination(m.cred) : TRUE) \in Indexes
        BY <3>2 DEF Destination, Joined
      <4> QED  BY <1>1, <2>1, <3>2, <4>1 DEF OnSigma1, Responder
    <3> QED  BY SMTT(30), <3>1, <3>2
  <2>3. net' \subseteq Message
    <3>1. [type |-> "Refused", node |-> m.node, attempt |-> m.attempt] \in Message
      BY <2>1 DEF Message
    <3>2. [type |-> "Sigma2", node |-> m.node, attempt |-> m.attempt, local |-> id] \in Message
      BY <2>1 DEF Message
    <3> QED  BY Zenon, <1>1, <3>1, <3>2 DEF OnSigma1, TypeOK
  <2> QED  BY SMTT(30), <1>1, <2>2, <2>3 DEF OnSigma1, TypeOK
<1>2. ASSUME NEW m \in net, Sigma3Silent(m) \/ Sigma3Fails(m)  PROVE TypeOK'
  BY <1>2 DEF Sigma3Silent, Sigma3Fails, TypeOK
<1>3. ASSUME NEW m \in net, NEW v \in SUBSET sessions, Sigma3Accepted(m, v)  PROVE TypeOK'
  <2>1. m.node \in Nodes /\ m.attempt \in Attempts  BY MessageTypes
  <2>2. Finished(m) \in Message  BY <2>1 DEF Finished, Message
  <2>3. CASE Named(m) = {}
    BY SMTT(30), <1>3, <2>2, <2>3 DEF Sigma3Accepted, TypeOK
  <2>4. CASE Named(m) # {}
    <3>1. PICK i \in Named(m) : Install(m, i, v)  BY <1>3, <2>4 DEF Sigma3Accepted
    <3> DEFINE s == [id |-> slot.local, node |-> m.node, attempt |-> m.attempt, index |-> i,
                     local |-> fabrics[i]]
    <3>2. slot \in Responder  BY Zenon, <1>3 DEF Sigma3Accepted, TypeOK
    <3>3. i \in Indexes /\ fabrics[i] \in Creds  BY Zenon DEF Named, Joined, TypeOK
    <3>4. s \in Session /\ s.id = slot.local  BY <2>1, <3>2, <3>3 DEF Session, Responder
    <3>5. /\ sessions' = IF Taken(slot.local, v) THEN sessions \ v ELSE (sessions \ v) \union {s}
          /\ installed' \in {installed, installed \union {s}}
          /\ slot' \in {None, [slot EXCEPT !.state = "Done"]}
          /\ net' \in {net \ {m}, (net \ {m}) \union {Finished(m)}}
      BY <3>1 DEF Install
    <3> HIDE DEF s
    <3>6. slot' \in Responder \union {None}
      <4>1. ASSUME NEW r \in Responder  PROVE [r EXCEPT !.state = "Done"] \in Responder
        BY DEF Responder
      <4> QED  BY <3>2, <3>5, <4>1
    <3>7. Cardinality(sessions') <= MaxSessions  BY Zenon, <1>3, <3>5, RoomMade DEF Sigma3Accepted
    <3>8. sessions' \subseteq Session /\ installed' \subseteq Session /\ net' \subseteq Message
      BY <2>2, <3>4, <3>5 DEF TypeOK
    <3>9. ASSUME NEW x \in sessions', NEW y \in sessions', x.id = y.id  PROVE x = y
      BY <3>4, <3>5, <3>9 DEF Taken, TypeOK
    <3> QED  BY <1>3, <3>6, <3>7, <3>8, <3>9 DEF Sigma3Accepted, TypeOK
  <2> QED  BY <2>3, <2>4
<1>4. ASSUME NEW s \in sessions, CloseSession(s)  PROVE TypeOK'
  <2>1. sessions' \subseteq sessions  BY <1>4 DEF CloseSession
  <2>2. Cardinality(sessions') <= MaxSessions  BY <2>1, FewerSessions
  <2> QED  BY <1>4, <2>1, <2>2 DEF CloseSession, TypeOK
<1> QED  BY SMTT(30), <1>1, <1>2, <1>3, <1>4

\* The type invariant: the session table never holds more than S sessions, nor
\* two under one local session id.
THEOREM CaseTypes == Spec => []TypeOK
<1>1. TypeOK /\ [Next]_vars => TypeOK'
  <2> SUFFICES ASSUME TypeOK, [Next]_vars  PROVE TypeOK'
    OBVIOUS
  <2>1. CASE UNCHANGED vars
    BY <2>1 DEF vars, TypeOK
  <2>2. CASE Next
    BY <2>2, TypeFabrics, TypeNodes, TypeDevice DEF Next
  <2> QED  BY <2>1, <2>2
<1> QED  BY <1>1, TypeInit, PTL DEF Spec

-----------------------------------------------------------------------------
(* A session is on its peer's fabric.                                      *)

\* find-by-fabric-id in `sigma3` finds the fabric of the initiator's chain.
LEMMA NamedIsMember ==
  ASSUME TypeOK, NEW m \in net, NEW i \in Named(m)
  PROVE  i \in Joined /\ FabricOf[fabrics[i]] = MemberOf[m.node]
<1>1. i \in Joined /\ FabricId[FabricOf[fabrics[i]]] = FabricId[MemberOf[m.node]]
  BY Zenon DEF Named
<1>2. FabricOf[fabrics[i]] \in Fabrics  BY <1>1 DEF Fabrics, Joined, TypeOK
<1>3. MemberOf[m.node] \in Fabrics  BY ZenonT(60), MessageTypes, CaseConstants
<1> QED  BY <1>1, <1>2, <1>3, FabricIdsDistinct

\* No step takes a session off its peer's fabric.
LEMMA FabricStep ==
  ASSUME TypeOK, SessionOnItsFabric, Next
  PROVE  SessionOnItsFabric'
<1> USE DEF SessionOnItsFabric
<1>1. ASSUME NEW c \in Creds, AddNoc(c)  PROVE SessionOnItsFabric'
  <2>1. AllocateIndex \in Indexes \ Joined  BY <1>1, AllocatesFree DEF AddNoc, TypeOK
  <2>2. \A i \in Joined : fabrics'[i] = fabrics[i] /\ i \in Joined'
    BY Zenon, <1>1, <2>1 DEF AddNoc, Joined, TypeOK
  <2> QED  BY SMTT(30), <1>1, <2>2 DEF AddNoc
<1>2. ASSUME NEW i \in Indexes, NEW c \in Creds, UpdateNoc(i, c)  PROVE SessionOnItsFabric'
  <2>1. \A j \in Joined : FabricOf[fabrics'[j]] = FabricOf[fabrics[j]] /\ j \in Joined'
    BY Zenon, <1>2, CaseConstants DEF UpdateNoc, Joined, TypeOK
  <2> QED  BY <1>2, <2>1 DEF UpdateNoc
<1>3. ASSUME NEW i \in Indexes, RemoveFabric(i)  PROVE SessionOnItsFabric'
  <2>1. \A j \in Joined \ {i} : fabrics'[j] = fabrics[j] /\ j \in Joined'
    BY <1>3 DEF RemoveFabric, Joined, TypeOK
  <2> QED  BY SMTT(30), <1>3, <2>1 DEF RemoveFabric
<1>4. ASSUME UNCHANGED fabrics, sessions' \subseteq sessions  PROVE SessionOnItsFabric'
  BY <1>4 DEF Joined
<1>5. ASSUME NEW m \in net, NEW v \in SUBSET sessions, Sigma3Accepted(m, v)
      PROVE  SessionOnItsFabric'
  <2>1. CASE Named(m) = {}
    BY <1>4, <1>5, <2>1 DEF Sigma3Accepted
  <2>2. CASE Named(m) # {}
    <3>1. PICK i \in Named(m) : Install(m, i, v)  BY Zenon, <1>5, <2>2 DEF Sigma3Accepted
    <3> DEFINE s == [id |-> slot.local, node |-> m.node, attempt |-> m.attempt, index |-> i,
                     local |-> fabrics[i]]
    <3>2. s.index = i /\ s.node = m.node  OBVIOUS
    <3>3. sessions' \subseteq sessions \union {s}  BY <3>1 DEF Install
    <3> HIDE DEF s
    <3>4. i \in Joined /\ FabricOf[fabrics[i]] = MemberOf[m.node]  BY SMTT(30), NamedIsMember
    <3>5. UNCHANGED fabrics  BY <1>5 DEF Sigma3Accepted
    <3> QED  BY Zenon, <3>2, <3>3, <3>4, <3>5 DEF Joined
  <2> QED  BY ZenonT(40), <2>1, <2>2
<1>6. ASSUME \/ \E n \in Nodes, c \in Creds : Start(n, c)
             \/ \E n \in Nodes : GiveUp(n)
             \/ \E m \in net : OnSigma2(m) \/ OnFinished(m) \/ OnRefused(m)
             \/ \E m \in net, id \in LocalIds : OnSigma1(m, id)
             \/ \E m \in net : Sigma3Silent(m) \/ Sigma3Fails(m)
             \/ \E s \in sessions : CloseSession(s)
      PROVE  SessionOnItsFabric'
  BY Zenon, <1>4, <1>6 DEF Start, GiveUp, OnSigma2, OnFinished, OnRefused, OnSigma1, Sigma3Silent,
                    Sigma3Fails, CloseSession, device
<1> QED  BY Zenon, <1>1, <1>2, <1>3, <1>5, <1>6 DEF Next

\* Through every change of the fabric table, a session's fabric index names the
\* fabric its peer's chain led to.
THEOREM SessionFabric == Spec => []SessionOnItsFabric
<1>1. Init => SessionOnItsFabric  BY DEF Init, SessionOnItsFabric
<1>2. TypeOK /\ SessionOnItsFabric /\ [Next]_vars => SessionOnItsFabric'
  <2> SUFFICES ASSUME TypeOK, SessionOnItsFabric, [Next]_vars  PROVE SessionOnItsFabric'
    OBVIOUS
  <2>1. CASE UNCHANGED vars
    BY ZenonT(40), <2>1 DEF vars, SessionOnItsFabric, Joined
  <2> QED  BY <2>1, FabricStep
<1> QED  BY <1>1, <1>2, CaseTypes, PTL DEF Spec

-----------------------------------------------------------------------------
(* A node that believes in a session has one on the device.                *)

\* The device installed the session node n's handshake ends in.
Made(n) ==
  \E s \in installed : s.node = n /\ s.attempt = node[n].attempt /\ s.id = node[n].peer

\* Attempts are numbered as they start, and a message belongs to its node.
Numbered ==
  /\ \A m \in net : m.attempt <= attempts
  /\ \A n \in Nodes : node[n].attempt <= attempts
  /\ slot # None => slot.attempt <= attempts
  /\ \A m \in net, n \in Nodes : m.attempt = node[n].attempt => m.node = n

\* Before a node has answered Sigma2, its handshake's Sigma1 or Sigma2 is the
\* only message of the handshake, and the slot holds the Sigma2 that was sent.
Early ==
  \A m \in net : m.type \in {"Sigma1", "Sigma2"} =>
    /\ \A k \in net : k.attempt = m.attempt => k = m
    /\ slot # None /\ slot.attempt = m.attempt => m.type = "Sigma2" /\ slot.local = m.local
    /\ \A n \in Nodes :
         node[n].attempt = m.attempt => node[n].state \in {"AwaitingSigma2", "Failed"}

\* Once Sigma3 is out no Sigma2 of the handshake is waited for any more.
Late ==
  \A m \in net : m.type \in {"Sigma3", "Finished"} =>
    \A n \in Nodes : node[n].attempt = m.attempt => node[n].state # "AwaitingSigma2"

\* What a node waiting for the last message will find.
Waiting ==
  \A n \in Nodes : node[n].state = "AwaitingFinished" =>
    /\ slot # None /\ slot.attempt = node[n].attempt => slot.local = node[n].peer
    /\ \A m \in net : m.type = "Finished" /\ m.attempt = node[n].attempt => Made(n)

HInv == Numbered /\ Early /\ Late /\ Waiting /\ SessionsAgree

\* Steps that only take messages, sessions or the responder away, or change the
\* fabric table.
LEMMA LessKeeps ==
  ASSUME HInv, net' \subseteq net, slot' \in {slot, None}, UNCHANGED <<node, attempts, installed>>
  PROVE  HInv'
<1>1. node' = node /\ attempts' = attempts /\ installed' = installed
  BY Zenon
<1>2. \A m \in net' : m \in net
  BY Zenon
<1>3. slot' # None => slot' = slot /\ slot # None
  BY Zenon
<1>4. Numbered'
  BY Zenon, <1>1, <1>2, <1>3 DEF HInv, Numbered
<1>5. Early'
  BY Zenon, <1>1, <1>2, <1>3 DEF HInv, Early
<1>6. Late'
  BY Zenon, <1>1, <1>2 DEF HInv, Late
<1>7. \A n \in Nodes : Made(n)' <=> Made(n)
  BY Zenon, <1>1 DEF Made
<1>8. Waiting'
  BY Zenon, <1>1, <1>2, <1>3, <1>7 DEF HInv, Waiting
<1>9. SessionsAgree'
  <2>1. \A n \in Nodes : node[n].state = "Established" => Made(n)
    BY Zenon DEF HInv, SessionsAgree, Made
  <2>2. \A n \in Nodes : node'[n].state = "Established" => Made(n)'
    BY Zenon, <1>1, <1>7, <2>1
  <2> QED
    BY Zenon, <2>2 DEF SessionsAgree, Made
<1> QED
  BY Zenon, <1>4, <1>5, <1>6, <1>8, <1>9 DEF HInv

\* CaseInitiator::start draws a fresh attempt.
LEMMA StartKeeps ==
  ASSUME TypeOK, HInv, NEW n \in Nodes, NEW c \in Creds, Start(n, c)
  PROVE  HInv'
<1> DEFINE a == attempts + 1
           new == [type |-> "Sigma1", node |-> n, attempt |-> a, cred |-> c]
<1>1. /\ new.type = "Sigma1" /\ new.node = n /\ new.attempt = a /\ net' = net \union {new}
      /\ attempts' = a /\ attempts \in Nat
      /\ UNCHANGED <<slot, installed>>
  <2>1. attempts' = a /\ net' = net \union {new} /\ UNCHANGED device
    BY Zenon DEF Start
  <2>2. attempts \in Nat
    <3>1. attempts \in 0 .. MaxAttempts
      BY Zenon DEF TypeOK
    <3> QED BY <3>1
  <2> QED BY <2>1, <2>2 DEF device
<1>2. /\ node'[n].attempt = a /\ node'[n].state = "AwaitingSigma2"
      /\ \A k \in Nodes \ {n} : node'[k] = node[k]
  BY ZenonT(40) DEF Start, TypeOK
<1>3. /\ \A m \in net : m.attempt \in Nat /\ m.attempt # a
      /\ \A k \in Nodes : node[k].attempt \in Nat /\ node[k].attempt # a
      /\ slot # None => slot.attempt \in Nat /\ slot.attempt # a
  BY <1>1, MessageTypes DEF HInv, Numbered, TypeOK, Attempts, Initiator, Responder
<1> HIDE DEF new, a
<1>4. a = attempts + 1  BY ZenonT(60) DEF a
<1>5. Numbered'
  <2>1. \A x \in Nat : x <= attempts => x <= a
    BY <1>1, <1>4
  <2>2. a <= a
    BY <1>1, <1>4
  <2>3. \A m \in net' : m.attempt <= attempts'
    BY Zenon, <1>1, <1>3, <2>1, <2>2 DEF HInv, Numbered
  <2>4. \A k \in Nodes : node'[k].attempt <= attempts'
    BY Zenon, <1>1, <1>2, <1>3, <2>1, <2>2 DEF HInv, Numbered
  <2>5. slot' # None => slot'.attempt <= attempts'
    BY Zenon, <1>1, <1>3, <2>1 DEF HInv, Numbered
  <2>6. ASSUME NEW m \in net', NEW k \in Nodes, m.attempt = node'[k].attempt  PROVE m.node = k
    <3>1. CASE m \in net
      <4>1. k # n
        BY Zenon, <1>2, <1>3, <2>6, <3>1
      <4>2. node'[k] = node[k]
        BY Zenon, <1>2, <4>1
      <4>3. m.attempt = node[k].attempt
        BY Zenon, <2>6, <4>2
      <4> QED  BY Zenon, <3>1, <4>3 DEF HInv, Numbered
    <3>2. CASE m = new
      BY ZenonT(40), <1>1, <1>2, <1>3, <2>6, <3>2
    <3> QED  BY Zenon, <1>1, <3>1, <3>2
  <2> QED  BY Zenon, <2>3, <2>4, <2>5, <2>6 DEF Numbered
<1>6. Early'  BY SMTT(30), <1>1, <1>2, <1>3 DEF HInv, Early
<1>7. Late'  BY <1>1, <1>2, <1>3 DEF HInv, Late
<1>8. ASSUME NEW k \in Nodes, node'[k].state \in {"AwaitingFinished", "Established"}
      PROVE  node'[k] = node[k]
  BY Zenon, <1>2, <1>8
<1>9. Waiting'  BY <1>1, <1>3, <1>8 DEF HInv, Waiting, Made
<1>10. SessionsAgree'  BY <1>1, <1>8 DEF HInv, SessionsAgree
<1> QED  BY Zenon, <1>5, <1>6, <1>7, <1>9, <1>10 DEF HInv

\* A handshake that fails at its node.
LEMMA FailedKeeps ==
  ASSUME TypeOK, HInv, NEW n \in Nodes, node' = [node EXCEPT ![n].state = "Failed"],
         net' \subseteq net, UNCHANGED <<slot, attempts, installed>>
  PROVE  HInv'
<1>1. /\ node'[n].attempt = node[n].attempt /\ node'[n].state = "Failed"
      /\ \A k \in Nodes \ {n} : node'[k] = node[k]
  BY DEF TypeOK, Initiator
<1>2. Numbered'  BY <1>1 DEF HInv, Numbered
<1>3. Early'  BY <1>1 DEF HInv, Early
<1>4. Late'  BY <1>1 DEF HInv, Late
<1>5. ASSUME NEW k \in Nodes, node'[k].state \in {"AwaitingFinished", "Established"}
      PROVE  node'[k] = node[k]
  BY <1>1, <1>5
<1>6. Waiting'  BY <1>5 DEF HInv, Waiting, Made
<1>7. SessionsAgree'  BY <1>5 DEF HInv, SessionsAgree
<1> QED  BY <1>2, <1>3, <1>4, <1>6, <1>7 DEF HInv

\* handle_sigma2: the node learns the session id the slot holds.
LEMMA Sigma2Keeps ==
  ASSUME TypeOK, HInv, NEW m \in net, OnSigma2(m)
  PROVE  HInv'
<1> DEFINE n == m.node
           new == [type |-> "Sigma3", node |-> m.node, attempt |-> m.attempt]
<1>1. /\ new.type = "Sigma3" /\ new.node = n /\ new.attempt = m.attempt
      /\ net' = (net \ {m}) \union {new}
      /\ UNCHANGED <<slot, attempts, installed>>
  BY DEF OnSigma2, device
<1>2. n \in Nodes /\ m.type = "Sigma2"  BY MessageTypes DEF OnSigma2, Answers
<1>3. /\ node[n].attempt = m.attempt /\ node[n].state = "AwaitingSigma2"
      /\ node'[n].attempt = m.attempt /\ node'[n].state = "AwaitingFinished"
      /\ node'[n].peer = m.local
      /\ \A k \in Nodes \ {n} : node'[k] = node[k]
  BY <1>2 DEF OnSigma2, Answers, TypeOK, Initiator
<1> HIDE DEF new, n
<1>4. /\ \A k \in net : k.attempt = m.attempt => k = m
      /\ slot # None /\ slot.attempt = m.attempt => slot.local = m.local
  BY <1>2 DEF HInv, Early
<1>5. \A k \in Nodes \ {n} : node[k].attempt # m.attempt
  <2>1. \A k \in Nodes : node[k].attempt = m.attempt => m.node = k  BY Zenon DEF HInv, Numbered
  <2> QED  BY <2>1 DEF n
<1>6. Numbered'
  <2>1. \A k \in net' : k = new \/ k \in net  BY Zenon, <1>1
  <2>2. \A k \in Nodes : node'[k].attempt = node[k].attempt  BY Zenon, <1>3
  <2>3. new.attempt <= attempts /\ new.node = n  BY Zenon, <1>1 DEF HInv, Numbered
  <2>4. /\ \A k \in net : k.attempt <= attempts
        /\ \A k \in Nodes : node[k].attempt <= attempts
        /\ slot # None => slot.attempt <= attempts
        /\ \A k \in net, j \in Nodes : k.attempt = node[j].attempt => k.node = j
    BY Zenon DEF HInv, Numbered
  <2>5. ASSUME NEW k \in net', NEW j \in Nodes, k.attempt = node'[j].attempt
        PROVE  k.node = j
    <3>1. CASE k = new  BY Zenon, <1>1, <1>5, <2>2, <2>5, <3>1
    <3>2. CASE k \in net
      <4>1. k.attempt = node[j].attempt  BY Zenon, <2>2, <2>5
      <4> QED  BY Zenon, <2>4, <3>2, <4>1
    <3> QED  BY Zenon, <2>1, <3>1, <3>2
  <2>6. \A k \in net' : k.attempt <= attempts  BY Zenon, <2>1, <2>3, <2>4
  <2> QED  BY Zenon, <1>1, <2>2, <2>4, <2>5, <2>6 DEF Numbered
<1>7. Early'
  <2> SUFFICES ASSUME NEW x \in net', x.type \in {"Sigma1", "Sigma2"}
               PROVE  /\ \A k \in net' : k.attempt = x.attempt => k = x
                      /\ slot # None /\ slot.attempt = x.attempt =>
                             x.type = "Sigma2" /\ slot.local = x.local
                      /\ \A k \in Nodes : node'[k].attempt = x.attempt =>
                             node'[k].state \in {"AwaitingSigma2", "Failed"}
    BY Zenon, <1>1 DEF Early
  <2>1. x \in net /\ x # m  BY Zenon, <1>1
  <2>2. x.attempt # m.attempt  BY Zenon, <1>4, <2>1
  <2>3. /\ \A k \in net : k.attempt = x.attempt => k = x
        /\ slot # None /\ slot.attempt = x.attempt => x.type = "Sigma2" /\ slot.local = x.local
        /\ \A k \in Nodes : node[k].attempt = x.attempt =>
               node[k].state \in {"AwaitingSigma2", "Failed"}
    BY Zenon, <2>1 DEF HInv, Early
  <2>4. \A k \in net' : k.attempt = x.attempt => k = x  BY Zenon, <1>1, <2>2, <2>3
  <2>5. \A k \in Nodes : node'[k].attempt = x.attempt =>
            node'[k].state \in {"AwaitingSigma2", "Failed"}
    BY Zenon, <1>3, <2>2, <2>3
  <2> QED  BY Zenon, <2>3, <2>4, <2>5
<1>8. Late'  BY <1>1, <1>3, <1>5 DEF HInv, Late
<1>9. Waiting'
  <2>1. ASSUME NEW k \in Nodes \ {n}, node'[k].state = "AwaitingFinished"
        PROVE  /\ slot' # None /\ slot'.attempt = node'[k].attempt => slot'.local = node'[k].peer
               /\ \A x \in net' : x.type = "Finished" /\ x.attempt = node'[k].attempt => Made(k)'
    BY <1>1, <1>3, <2>1 DEF HInv, Waiting, Made
  <2>2. \A x \in net' : x.attempt = m.attempt => x.type = "Sigma3"
    BY Zenon, <1>1, <1>4
  <2>3. /\ slot' # None /\ slot'.attempt = node'[n].attempt => slot'.local = node'[n].peer
        /\ \A x \in net' : ~(x.type = "Finished" /\ x.attempt = node'[n].attempt)
    BY ZenonT(40), <1>1, <1>3, <1>4, <2>2
  <2> QED  BY ZenonT(60), <2>1, <2>3 DEF Waiting
<1>10. SessionsAgree'  BY <1>1, <1>3 DEF HInv, SessionsAgree
<1> QED  BY <1>6, <1>7, <1>8, <1>9, <1>10 DEF HInv

\* accept_finished: the session it stands for was made.
LEMMA FinishedKeeps ==
  ASSUME TypeOK, HInv, NEW m \in net, OnFinished(m)
  PROVE  HInv'
<1> DEFINE n == m.node
<1>1. net' \subseteq net /\ UNCHANGED <<slot, attempts, installed>>  BY DEF OnFinished, device
<1>2. n \in Nodes /\ m.type = "Finished"  BY MessageTypes DEF OnFinished, Answers
<1>3. /\ node[n].attempt = m.attempt /\ node[n].state = "AwaitingFinished"
      /\ node'[n].attempt = m.attempt /\ node'[n].state = "Established"
      /\ node'[n].peer = node[n].peer
      /\ \A k \in Nodes \ {n} : node'[k] = node[k]
  BY ZenonT(40), <1>2 DEF OnFinished, Answers, TypeOK, Initiator
<1> HIDE DEF n
<1>4. Made(n)  BY Zenon, <1>2, <1>3 DEF HInv, Waiting
<1>5. Numbered'  BY SMTT(20), <1>1, <1>3 DEF HInv, Numbered
<1>6. Early'  BY <1>1, <1>3 DEF HInv, Early
<1>7. Late'  BY Zenon, <1>1, <1>3 DEF HInv, Late
<1>8. Waiting'
  <2> SUFFICES ASSUME NEW k \in Nodes, node'[k].state = "AwaitingFinished"
               PROVE  /\ slot # None /\ slot.attempt = node'[k].attempt =>
                             slot.local = node'[k].peer
                      /\ \A x \in net' : x.type = "Finished" /\ x.attempt = node'[k].attempt
                             => Made(k)'
    BY Zenon, <1>1 DEF Waiting
  <2>1. node'[k] = node[k]  BY Zenon, <1>3
  <2>2. Made(k) => Made(k)'  BY Zenon, <1>1, <2>1 DEF Made
  <2>3. node[k].state = "AwaitingFinished"  BY Zenon, <2>1
  <2> QED  BY Zenon, <1>1, <2>1, <2>2, <2>3 DEF HInv, Waiting
<1>9. SessionsAgree'  BY <1>1, <1>3, <1>4 DEF HInv, SessionsAgree, Made
<1> QED  BY <1>5, <1>6, <1>7, <1>8, <1>9 DEF HInv

\* sigma1: whatever the slot held, it now holds the handshake it answers.
LEMMA Sigma1Keeps ==
  ASSUME TypeOK, HInv, NEW m \in net, NEW id \in LocalIds, OnSigma1(m, id)
  PROVE  HInv'
<1> DEFINE found == Destination(m.cred) # {}
           new == IF found
                  THEN [type |-> "Sigma2", node |-> m.node, attempt |-> m.attempt, local |-> id]
                  ELSE [type |-> "Refused", node |-> m.node, attempt |-> m.attempt]
<1>1. m.type = "Sigma1" /\ UNCHANGED <<node, attempts, installed>>  BY Zenon DEF OnSigma1
<1>2. /\ new.type = IF found THEN "Sigma2" ELSE "Refused"
      /\ new.node = m.node /\ new.attempt = m.attempt
      /\ found => new.local = id
      /\ net' = (net \ {m}) \union {new}
  BY Zenon DEF OnSigma1
<1>3. slot' # None => found /\ slot'.attempt = m.attempt /\ slot'.local = id
  BY SMTT(30) DEF OnSigma1
<1> HIDE DEF new, found
<1>4. /\ \A k \in net : k.attempt = m.attempt => k = m
      /\ \A n \in Nodes :
           node[n].attempt = m.attempt => node[n].state \in {"AwaitingSigma2", "Failed"}
  BY <1>1 DEF HInv, Early
<1>5. \A k \in net' : k = new \/ (k \in net /\ k.attempt # m.attempt)
  BY Zenon, <1>2, <1>4
<1>6. Numbered'  BY <1>1, <1>2, <1>3 DEF HInv, Numbered
<1>7. Early'
  <2> SUFFICES ASSUME NEW x \in net', x.type \in {"Sigma1", "Sigma2"}
               PROVE  /\ \A k \in net' : k.attempt = x.attempt => k = x
                      /\ slot' # None /\ slot'.attempt = x.attempt
                           => x.type = "Sigma2" /\ slot'.local = x.local
                      /\ \A n \in Nodes : node'[n].attempt = x.attempt
                           => node'[n].state \in {"AwaitingSigma2", "Failed"}
    BY Zenon DEF Early
  <2>1. CASE x = new
    BY Zenon, <1>1, <1>2, <1>3, <1>4, <1>5, <2>1
  <2>2. CASE x # new
    BY <1>1, <1>2, <1>3, <1>5, <2>2 DEF HInv, Early
  <2> QED  BY Zenon, <2>1, <2>2
<1>8. Late'  BY Zenon, <1>1, <1>2 DEF HInv, Late
<1>9. Waiting'
  <2> SUFFICES ASSUME NEW n \in Nodes, node[n].state = "AwaitingFinished"
               PROVE  /\ slot' # None /\ slot'.attempt = node[n].attempt => slot'.local = node[n].peer
                      /\ \A x \in net' : x.type = "Finished" /\ x.attempt = node[n].attempt
                                           => Made(n)'
    BY <1>1 DEF Waiting
  <2>1. node[n].attempt # m.attempt  BY <1>4
  <2>2. \A x \in net' : x.type = "Finished" => x \in net  BY Zenon, <1>2
  <2>3. \A x \in net' : x.type = "Finished" /\ x.attempt = node[n].attempt => Made(n)
    BY Zenon, <2>2 DEF HInv, Waiting
  <2> QED  BY Zenon, <1>1, <1>3, <2>1, <2>3 DEF Made
<1>10. SessionsAgree'  BY <1>1 DEF HInv, SessionsAgree
<1> QED  BY Zenon, <1>6, <1>7, <1>8, <1>9, <1>10 DEF HInv

\* sigma3 that verifies answers only for a session it installed.
LEMMA Sigma3Keeps ==
  ASSUME TypeOK, HInv, NEW m \in net, NEW v \in SUBSET sessions, Sigma3Accepted(m, v)
  PROVE  HInv'
<1>1. /\ m.type = "Sigma3" /\ slot # None /\ slot.attempt = m.attempt
      /\ slot \in Responder /\ UNCHANGED <<node, attempts>>
  BY Zenon DEF Sigma3Accepted, Verifies, TypeOK
<1>2. slot.index \in Named(m)
  <2>1. slot.index \in Joined /\ MemberOf[m.node] = FabricOf[fabrics[slot.index]]
    BY Zenon DEF Sigma3Accepted, Verifies
  <2> QED  BY ZenonT(60), <2>1 DEF Named
<1>3. PICK i \in Named(m) : Install(m, i, v)  BY SMTT(30), <1>2 DEF Sigma3Accepted
<1> DEFINE s == [id |-> slot.local, node |-> m.node, attempt |-> m.attempt, index |-> i,
                 local |-> fabrics[i]]
<1>4. s.id = slot.local /\ s.node = m.node /\ s.attempt = m.attempt  OBVIOUS
<1>5. CASE Taken(slot.local, v)
  <2>1. net' \subseteq net /\ UNCHANGED installed /\ slot' = [slot EXCEPT !.state = "Done"]
    BY <1>3, <1>5 DEF Install
  <2>2. slot'.attempt = slot.attempt /\ slot'.local = slot.local
    BY <1>1, <2>1 DEF Responder
  <2>3. Numbered'  BY <1>1, <2>1, <2>2 DEF HInv, Numbered
  <2>4. Early'  BY <1>1, <2>1, <2>2 DEF HInv, Early
  <2>5. Late'  BY <1>1, <2>1 DEF HInv, Late
  <2>6. Waiting'  BY <1>1, <2>1, <2>2 DEF HInv, Waiting, Made
  <2>7. SessionsAgree'  BY <1>1, <2>1 DEF HInv, SessionsAgree
  <2> QED  BY <2>3, <2>4, <2>5, <2>6, <2>7 DEF HInv
<1>6. CASE ~Taken(slot.local, v)
  <2> DEFINE new == Finished(m)
  <2>1. /\ net' = (net \ {m}) \union {new} /\ slot' = None /\ installed' = installed \union {s}
    BY <1>3, <1>6 DEF Install
  <2>2. new.type = "Finished" /\ new.node = m.node /\ new.attempt = m.attempt
    BY Zenon DEF Finished
  <2> HIDE DEF new, s
  <2>3. Numbered'  BY SMTT(20), <1>1, <2>1, <2>2 DEF HInv, Numbered
  <2>4. Early'
    <3>1. ASSUME NEW x \in net, x.type \in {"Sigma1", "Sigma2"}  PROVE x.attempt # m.attempt
      BY Zenon, <1>1, <3>1 DEF HInv, Early
    <3> QED  BY <1>1, <2>1, <2>2, <3>1 DEF HInv, Early
  <2>5. Late'  BY Zenon, <1>1, <2>1, <2>2 DEF HInv, Late
  <2>6. Waiting'
    <3> SUFFICES ASSUME NEW n \in Nodes, node[n].state = "AwaitingFinished", NEW x \in net',
                        x.type = "Finished", x.attempt = node[n].attempt
                 PROVE  Made(n)'
      BY Zenon, <1>1, <2>1 DEF Waiting
    <3>1. CASE x = new
      <4>1. m.attempt = node[n].attempt  BY <2>2, <3>1
      <4>2. m.node = n  BY ZenonT(60), <4>1 DEF HInv, Numbered
      <4>3. slot.local = node[n].peer  BY Zenon, <1>1, <4>1 DEF HInv, Waiting
      <4> QED  BY Zenon, <1>1, <1>4, <2>1, <4>1, <4>2, <4>3 DEF Made
    <3>2. CASE x # new
      <4>1. Made(n)  BY ZenonT(60), <2>1, <3>2 DEF HInv, Waiting
      <4> QED  BY Zenon, <1>1, <2>1, <4>1 DEF Made
    <3> QED  BY Zenon, <3>1, <3>2
  <2>7. SessionsAgree'  BY Zenon, <1>1, <2>1 DEF HInv, SessionsAgree
  <2> QED  BY <2>3, <2>4, <2>5, <2>6, <2>7 DEF HInv
<1> QED  BY Zenon, <1>5, <1>6

\* Every step of the nodes, the channel and the fabric table.
LEMMA HandshakeStep ==
  ASSUME TypeOK, HInv, [Next]_vars
  PROVE  HInv'
<1>1. ASSUME \/ \E c \in Creds : AddNoc(c)
             \/ \E i \in Indexes, c \in Creds : UpdateNoc(i, c)
             \/ \E i \in Indexes : RemoveFabric(i)
             \/ \E m \in net : Sigma3Silent(m) \/ Sigma3Fails(m)
             \/ \E s \in sessions : CloseSession(s)
             \/ UNCHANGED vars
      PROVE  HInv'
  <2>1. /\ net' \subseteq net /\ slot' \in {slot, None}
        /\ UNCHANGED <<node, attempts, installed>>
    BY <1>1 DEF AddNoc, UpdateNoc, RemoveFabric, Sigma3Silent, Sigma3Fails, CloseSession, vars
  <2> QED  BY Zenon, <2>1, LessKeeps
<1>2. ASSUME NEW n \in Nodes, GiveUp(n)  PROVE HInv'
  BY Zenon, <1>2, FailedKeeps DEF GiveUp, device
<1>3. ASSUME NEW m \in net, OnRefused(m)  PROVE HInv'
  BY Zenon, <1>3, FailedKeeps, MessageTypes DEF OnRefused, device
<1> QED
  BY <1>1, <1>2, <1>3, StartKeeps, Sigma2Keeps, FinishedKeeps, Sigma1Keeps, Sigma3Keeps DEF Next

\* A node whose accept_finished succeeded has a session on the device, made by
\* its own handshake and under the id it will address, although the channel has
\* one slot for all handshakes and the fabric table changes between messages.
THEOREM SessionsAgreement == Spec => []SessionsAgree
<1>1. Init => HInv
  BY CaseConstants
  DEF Init, HInv, Numbered, Early, Late, Waiting, SessionsAgree
<1>2. TypeOK /\ HInv /\ [Next]_vars => HInv'  BY HandshakeStep
<1>3. HInv => SessionsAgree  BY DEF HInv
<1> QED  BY <1>1, <1>2, <1>3, CaseTypes, PTL DEF Spec
=============================================================================
