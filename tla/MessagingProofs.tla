-------------------------- MODULE MessagingProofs --------------------------
(***************************************************************************)
(* What Messaging keeps for every number of sessions, exchanges and ids,   *)
(* every table capacity and every timeout: the tables stay within their    *)
(* capacities, an exchange never outlives its session, the session to      *)
(* evict is always there and always the same, and the reaper never takes   *)
(* an exchange that still waits for an acknowledgement.                    *)
(***************************************************************************)
EXTENDS Messaging, FiniteSetTheorems, WellFoundedInduction, TLAPS

\* A strict total order on a set of session ids
Ordered(order, ids) ==
    /\ order \subseteq ids \X ids
    /\ \A a \in ids : <<a, a>> \notin order
    /\ \A a, b \in ids : a # b => <<a, b>> \in order \/ <<b, a>> \in order
    /\ \A a, b, c \in ids : <<a, b>> \in order /\ <<b, c>> \in order => <<a, c>> \in order

\* The session table: its ids are unique, its size is bounded, its recency is an order
SessionsOK ==
    /\ sessions \subseteq [id : SessionIds, fabric : Fabrics]
    /\ IsFiniteSet(sessions) /\ Cardinality(sessions) <= MaxSessions
    /\ \A s, t \in sessions : s.id = t.id => s = t
    /\ Ordered(older, Live)

\* An exchange table: typed, and bounded
TableOK(table) ==
    /\ table \in [DOMAIN table -> Entries] /\ DOMAIN table \subseteq Keys
    /\ IsFiniteSet(DOMAIN table) /\ Cardinality(DOMAIN table) <= MaxExchanges

\* Every exchange of a table is on one of the sessions, or on the unsecured one
Covered(table, ids) == \A key \in DOMAIN table : key.session \in ids \cup {Unsecured}

\* The inductive invariant
IInv ==
    /\ SessionsOK
    /\ TableOK(exchanges)
    /\ Covered(exchanges, Live)
    /\ nextId \in ExchangeIds

-----------------------------------------------------------------------------
(* The order of the sessions by their last use *)

\* A pair is in the order after a use if it was and is not about the used session, or
\* if that session is its later one (SessionTimestamp set to now)
LEMMA LatestPairs ==
    ASSUME NEW order, NEW ids, NEW id, order \subseteq ids \X ids
    PROVE  \A a, b : <<a, b>> \in Latest(order, ids, id) <=>
                \/ <<a, b>> \in order /\ a # id
                \/ a \in ids /\ a # id /\ b = id
<1>1. \A a, b : <<a, b>> \in {p \in order : p[1] # id} <=> <<a, b>> \in order /\ a # id
  OBVIOUS
<1>2. \A a, b : <<a, b>> \in (ids \ {id}) \X {id} <=> a \in ids /\ a # id /\ b = id
  OBVIOUS
<1> QED
  BY Zenon, <1>1, <1>2 DEF Latest

\* A use keeps the order total, and adds the session when it is new
LEMMA LatestOrdered ==
    ASSUME NEW order, NEW ids, NEW id, Ordered(order, ids)
    PROVE  Ordered(Latest(order, ids, id), ids \cup {id})
<1> DEFINE new == Latest(order, ids, id)
           all == ids \cup {id}
<1>1. order \subseteq ids \X ids
  BY Zenon DEF Ordered
<1>2. \A a, b : <<a, b>> \in new <=> \/ <<a, b>> \in order /\ a # id
                                     \/ a \in ids /\ a # id /\ b = id
  BY Zenon, <1>1, LatestPairs
<1>3. new \subseteq all \X all
  <2>1. {p \in order : p[1] # id} \subseteq all \X all
    BY <1>1
  <2>2. (ids \ {id}) \X {id} \subseteq all \X all
    OBVIOUS
  <2> QED
    BY Zenon, <2>1, <2>2 DEF Latest
<1> HIDE DEF new
<1>4. \A a, b : <<a, b>> \in order => a \in ids /\ b \in ids
  BY <1>1
<1>5. \A a \in all : <<a, a>> \notin new
  BY Zenon, <1>2, <1>4 DEF Ordered
<1>6. ASSUME NEW a \in all, NEW b \in all, a # b
      PROVE  <<a, b>> \in new \/ <<b, a>> \in new
  <2>1. CASE a = id
    BY Zenon, <2>1, <1>2, <1>6
  <2>2. CASE b = id
    BY Zenon, <2>2, <1>2, <1>6
  <2>3. CASE a # id /\ b # id
    BY Zenon, <2>3, <1>2, <1>6 DEF Ordered
  <2> QED
    BY Zenon, <2>1, <2>2, <2>3
<1>7. ASSUME NEW a \in all, NEW b \in all, NEW c \in all, <<a, b>> \in new, <<b, c>> \in new
      PROVE  <<a, c>> \in new
  <2>1. b # id /\ a # id
    BY Zenon, <1>7, <1>2
  <2>2. <<a, b>> \in order /\ a \in ids
    BY Zenon, <1>7, <1>2, <1>4, <2>1
  <2>3. CASE c = id
    BY Zenon, <2>1, <2>2, <2>3, <1>2
  <2>4. CASE c # id
    <3>1. <<b, c>> \in order
      BY Zenon, <1>7, <1>2, <2>4
    <3>2. <<a, c>> \in order
      BY Zenon, <3>1, <2>2, <1>4 DEF Ordered
    <3> QED
      BY Zenon, <3>2, <2>1, <1>2
  <2> QED
    BY Zenon, <2>3, <2>4
<1>8. \A a, b, c \in all : <<a, b>> \in new /\ <<b, c>> \in new => <<a, c>> \in new
  BY Zenon, <1>7
<1>9. Ordered(new, all)
  BY Zenon, <1>3, <1>5, <1>6, <1>8 DEF Ordered
<1> QED
  BY Zenon, <1>9 DEF new

\* What is left of the order when sessions leave orders the sessions that stay
LEMMA WithoutOrdered ==
    ASSUME NEW order, NEW ids, NEW gone, Ordered(order, ids)
    PROVE  Ordered({p \in order : p[1] \notin gone /\ p[2] \notin gone}, ids \ gone)
<1> DEFINE new == {p \in order : p[1] \notin gone /\ p[2] \notin gone}
<1>1. order \subseteq ids \X ids
  BY Zenon DEF Ordered
<1>2. new \subseteq (ids \ gone) \X (ids \ gone)
  BY <1>1
<1>3. \A a, b : <<a, b>> \in new <=> <<a, b>> \in order /\ a \notin gone /\ b \notin gone
  OBVIOUS
<1> HIDE DEF new
<1>4. \A a \in ids \ gone : <<a, a>> \notin new
  BY Zenon, <1>3 DEF Ordered
<1>5. \A a, b \in ids \ gone : a # b => <<a, b>> \in new \/ <<b, a>> \in new
  BY Zenon, <1>3 DEF Ordered
<1>6. \A a, b, c \in ids \ gone : <<a, b>> \in new /\ <<b, c>> \in new => <<a, c>> \in new
  BY Zenon, <1>3 DEF Ordered
<1>7. Ordered(new, ids \ gone)
  BY Zenon, <1>2, <1>4, <1>5, <1>6 DEF Ordered
<1> QED
  BY Zenon, <1>7 DEF new

\* In a strict total order of a finite non-empty set exactly one element has none before it
LEMMA FirstOfOrder ==
    ASSUME NEW order, NEW ids, Ordered(order, ids), IsFiniteSet(ids), ids # {}
    PROVE  \E first \in ids : {id \in ids : \A p \in order : p[2] # id} = {first}
<1> DEFINE Before(id) == {x \in ids : <<x, id>> \in order}
           Less(id) == Cardinality(Before(id))
<1>1. \A id \in ids : IsFiniteSet(Before(id)) /\ Less(id) \in Nat
  BY Zenon, FS_Subset, FS_CardinalityType
<1>2. ASSUME NEW id \in ids, NEW x \in ids, <<x, id>> \in order
      PROVE  Less(x) < Less(id)
  <2>1. Before(x) \subseteq Before(id)
    BY Zenon, <1>2 DEF Ordered
  <2>2. x \in Before(id) /\ x \notin Before(x)
    BY Zenon, <1>2 DEF Ordered
  <2> HIDE DEF Before
  <2>3. Less(x) <= Less(id) /\ Less(x) # Less(id)
    BY <1>1, <2>1, <2>2, FS_Subset
  <2> QED
    BY <2>3, <1>1
<1>3. PICK first \in ids : \A id \in ids : ~(Less(id) < Less(first))
  <2> DEFINE sizes == {Less(id) : id \in ids}
  <2> HIDE DEF Before
  <2>1. sizes \subseteq Nat /\ sizes # {}
    BY <1>1
  <2> HIDE DEF sizes
  <2>2. PICK least \in sizes : \A n \in sizes : <<n, least>> \notin OpToRel(<, Nat)
    BY Zenon, <2>1, WFMin, NatLessThanWellFounded
  <2>3. \A n \in sizes : ~(n < least)
    BY Zenon, <2>1, <2>2 DEF OpToRel
  <2> QED
    BY Zenon, <2>3 DEF sizes
<1>4. \A x \in ids : <<x, first>> \notin order
  BY Zenon, <1>2, <1>3
<1>5. order \subseteq ids \X ids
  BY Zenon DEF Ordered
<1>6. \A id : (\A p \in order : p[2] # id) <=> \A x \in ids : <<x, id>> \notin order
  BY <1>5
<1>7. \A id \in ids : (\A x \in ids : <<x, id>> \notin order) => id = first
  BY Zenon, <1>4 DEF Ordered
<1> QED
  BY Zenon, <1>4, <1>6, <1>7

-----------------------------------------------------------------------------
(* The session table *)

\* The ids of the sessions that stay
LEMMA WithoutIds ==
    ASSUME NEW gone
    PROVE  {s.id : s \in WithoutSessions(gone)} = Live \ gone
BY DEF WithoutSessions, Live

\* As many sessions as ids are live, and none more than the table holds
LEMMA LiveFinite ==
    ASSUME SessionsOK
    PROVE  /\ IsFiniteSet(Live)
           /\ Live \subseteq SessionIds
           /\ sessions # {} => Live # {}
<1>1. IsFiniteSet(sessions)
  BY Zenon DEF SessionsOK
<1>2. IsFiniteSet(Live)
  <2> DEFINE ids == [s \in sessions |-> s.id]
  <2>1. ids \in [sessions -> Live] /\ \A id \in Live : \E s \in sessions : ids[s] = id
    BY DEF Live
  <2> HIDE DEF ids
  <2>2. ids \in Surjection(sessions, Live)
    BY Zenon, <2>1 DEF Surjection
  <2> QED
    BY Zenon, <1>1, <2>2, FS_Surjection
<1> QED
  BY <1>2 DEF Live, SessionsOK

\* SessionTable::remove, remove_fabric: the sessions that stay are a session table
LEMMA DropKeeps ==
    ASSUME NEW gone, SessionsOK, Drop(gone)
    PROVE  SessionsOK' /\ Live' = Live \ gone
<1>1. sessions' = WithoutSessions(gone)
  BY Zenon DEF Drop
<1>2. Live' = Live \ gone
  BY Zenon, <1>1, WithoutIds DEF Live
<1>3. sessions' \subseteq sessions
  BY <1>1 DEF WithoutSessions
<1>4. IsFiniteSet(sessions') /\ Cardinality(sessions') <= Cardinality(sessions)
  BY <1>3, FS_Subset DEF SessionsOK
<1>5. Cardinality(sessions') <= MaxSessions
  BY <1>4, FS_CardinalityType, MessagingAssumption DEF SessionsOK
<1>6. Ordered(older', Live')
  BY Zenon, <1>2, WithoutOrdered DEF SessionsOK, Drop, WithoutAge
<1> QED
  BY Zenon, <1>2, <1>3, <1>4, <1>5, <1>6 DEF SessionsOK

\* SessionTimestamp set to now: the same sessions, in another order
LEMMA UseKeeps ==
    ASSUME NEW id, SessionsOK, Use(id)
    PROVE  SessionsOK' /\ Live' = Live
<1>1. sessions' = sessions /\ Live' = Live
  BY Zenon DEF Use, Live
<1>2. Ordered(older', Live)
  <2>1. CASE id \in Live
    <3>1. Live \cup {id} = Live
      BY Zenon, <2>1
    <3>2. Ordered(Latest(older, Live, id), Live \cup {id})
      BY Zenon, LatestOrdered DEF SessionsOK
    <3>3. older' = Latest(older, Live, id)
      BY Zenon, <2>1 DEF Use
    <3> QED
      BY Zenon, <3>1, <3>2, <3>3
  <2>2. CASE id \notin Live
    BY Zenon, <2>2 DEF Use, SessionsOK
  <2> QED
    BY Zenon, <2>1, <2>2
<1> QED
  BY Zenon, <1>1, <1>2 DEF SessionsOK

\* SessionTable::insert: a session of a new id joins those that stay, if there is room
LEMMA InsertKeeps ==
    ASSUME NEW gone, NEW id \in SessionIds, NEW fabric \in Fabrics,
           SessionsOK, Insert(gone, id, fabric),
           Cardinality(WithoutSessions(gone)) < MaxSessions
    PROVE  SessionsOK' /\ Live' = (Live \ gone) \cup {id}
<1>1. CASE id \in Live \ gone
  <2>1. (Live \ gone) \cup {id} = Live \ gone
    BY Zenon, <1>1
  <2>2. Drop(gone)
    BY Zenon, <1>1 DEF Insert
  <2> QED
    BY Zenon, <2>1, <2>2, DropKeeps
<1>2. CASE id \notin Live \ gone
  <2> DEFINE new == [id |-> id, fabric |-> fabric]
             kept == WithoutSessions(gone)
  <2>1. sessions' = kept \cup {new} /\ older' = Latest(WithoutAge(gone), Live \ gone, id)
    BY Zenon, <1>2 DEF Insert
  <2>2. new \in [id : SessionIds, fabric : Fabrics] /\ new.id = id
    OBVIOUS
  <2>3. kept \subseteq sessions /\ \A s \in kept : s.id \in Live \ gone
    BY Zenon, WithoutIds DEF WithoutSessions, Live
  <2> HIDE DEF new, kept
  <2>4. {s.id : s \in kept} = Live \ gone
    BY Zenon, WithoutIds DEF kept
  <2>5. Live' = (Live \ gone) \cup {id}
    BY Zenon, <2>1, <2>2, <2>4 DEF Live
  <2>6. IsFiniteSet(sessions') /\ Cardinality(sessions') <= MaxSessions
    <3>1. IsFiniteSet(kept)
      BY <2>3, FS_Subset DEF SessionsOK
    <3>2. Cardinality(kept) \in Nat /\ Cardinality(kept) < MaxSessions
      BY <3>1, FS_CardinalityType DEF kept
    <3>3. IsFiniteSet(kept \cup {new}) /\ (\/ Cardinality(kept \cup {new}) = Cardinality(kept)
                                           \/ Cardinality(kept \cup {new}) = Cardinality(kept) + 1)
      BY <3>1, FS_AddElement
    <3> QED
      BY <2>1, <3>2, <3>3, MessagingAssumption
  <2>7. \A s, t \in sessions' : s.id = t.id => s = t
    BY Zenon, <1>2, <2>1, <2>2, <2>3 DEF SessionsOK
  <2>8. Ordered(older', Live')
    <3>1. Ordered(WithoutAge(gone), Live \ gone)
      BY Zenon, WithoutOrdered DEF SessionsOK, WithoutAge
    <3> QED
      BY Zenon, <3>1, <2>1, <2>5, LatestOrdered
  <2>9. sessions' \subseteq [id : SessionIds, fabric : Fabrics]
    BY Zenon, <2>1, <2>2, <2>3 DEF SessionsOK
  <2> QED
    BY Zenon, <2>5, <2>6, <2>7, <2>8, <2>9 DEF SessionsOK
<1> QED
  BY Zenon, <1>1, <1>2

\* A full session table has a session to evict, and only one
LEMMA VictimUnique ==
    ASSUME SessionsOK, Cardinality(sessions) >= MaxSessions
    PROVE  \E victim \in Live : LeastRecentlyUsed = {victim}
<1>1. Cardinality({}) = 0
  BY Zenon, FS_EmptySet
<1>2. sessions # {}
  <2>1. SUFFICES ASSUME sessions = {} PROVE FALSE
    OBVIOUS
  <2>2. Cardinality(sessions) = 0
    BY Zenon, <1>1, <2>1
  <2> QED
    BY <2>2, MessagingAssumption
<1>3. IsFiniteSet(Live) /\ Live # {} /\ Ordered(older, Live)
  BY Zenon, <1>2, LiveFinite DEF SessionsOK
<1>4. \E first \in Live : {id \in Live : \A p \in older : p[2] # id} = {first}
  BY <1>3, FirstOfOrder
<1> QED
  BY Zenon, <1>4 DEF LeastRecentlyUsed

\* Evicting makes room
LEMMA EvictionMakesRoom ==
    ASSUME SessionsOK, NEW victim \in Live
    PROVE  Cardinality(WithoutSessions({victim})) < MaxSessions
<1>1. PICK s \in sessions : s.id = victim
  BY Zenon DEF Live
<1>2. WithoutSessions({victim}) \subseteq sessions \ {s}
  BY Zenon, <1>1 DEF WithoutSessions
<1>3. IsFiniteSet(sessions \ {s}) /\ Cardinality(sessions \ {s}) = Cardinality(sessions) - 1
  BY Zenon, <1>1, FS_RemoveElement DEF SessionsOK
<1>4. /\ Cardinality(WithoutSessions({victim})) <= Cardinality(sessions \ {s})
      /\ IsFiniteSet(WithoutSessions({victim}))
  BY Zenon, <1>2, <1>3, FS_Subset
<1>5. Cardinality(WithoutSessions({victim})) \in Nat /\ Cardinality(sessions) \in Nat
  BY <1>4, FS_CardinalityType DEF SessionsOK
<1> QED
  BY <1>3, <1>4, <1>5, MessagingAssumption DEF SessionsOK

-----------------------------------------------------------------------------
(* The exchange table *)

\* The reliability state of an entry
Transmissions == [counter : {0}, sent : 1 .. MaxTransmissions, deadline : Nat]
Acknowledgements == [counter : {0}, deadline : Nat]
Mrps == [tx : Transmissions \cup {None}, ack : Acknowledgements \cup {None}]

\* An entry is its reliability state, its kind and its idle time
LEMMA EntryFields ==
    /\ \A e \in Entries : e.mrp \in Mrps /\ e.ephemeral \in BOOLEAN /\ e.idle \in Nat
    /\ \A e \in Entries, m \in Mrps : [e EXCEPT !.mrp = m] \in Entries
    /\ \A b \in BOOLEAN, m \in Mrps : [mrp |-> m, ephemeral |-> b, idle |-> 0] \in Entries
<1> DEFINE R == Mrps
<1>1. Entries = [mrp : R, ephemeral : BOOLEAN, idle : Nat]
  BY Zenon DEF Entries, Mrps, Transmissions, Acknowledgements
<1> HIDE DEF R
<1>2. /\ \A e \in Entries : e.mrp \in R /\ e.ephemeral \in BOOLEAN /\ e.idle \in Nat
      /\ \A e \in Entries, m \in R : [e EXCEPT !.mrp = m] \in Entries
      /\ \A b \in BOOLEAN, m \in R : [mrp |-> m, ephemeral |-> b, idle |-> 0] \in Entries
  BY Zenon, <1>1
<1> QED
  BY Zenon, <1>2 DEF R

\* An entry after a message or after time has passed
LEMMA EntryAfter ==
    ASSUME NEW e \in Entries, NEW m \in Mrps, NEW n \in Nat
    PROVE  [e EXCEPT !.idle = n, !.mrp = m] \in Entries
<1> DEFINE R == Mrps
<1>1. Entries = [mrp : R, ephemeral : BOOLEAN, idle : Nat] /\ m \in R
  BY Zenon DEF Entries, Mrps, Transmissions, Acknowledgements
<1> HIDE DEF R
<1> QED
  BY Zenon, <1>1

\* Every operation of exchange/mrp.rs keeps the reliability state well formed
LEMMA MrpTypes ==
    /\ NewMrp \in Mrps
    /\ \A m \in Mrps : TakePiggyback(m) \in Mrps /\ OnAckTimeout(m) \in Mrps
    /\ \A m \in Mrps, w \in Nat : OnSend(m, 0, w) \in Mrps /\ OnReliableReceived(m, 0, w) \in Mrps
    /\ \A m \in Mrps : \A c : OnAck(m, c) \in Mrps
    /\ \A m \in Mrps, w \in Nat : IsAwaitingAck(m) => OnTxTimeout(m, w) \in Mrps
<1> DEFINE T == Transmissions
           A == Acknowledgements
<1>1. Mrps = [tx : T \cup {None}, ack : A \cup {None}]
  BY Zenon DEF Mrps
<1>2. \A w \in Nat : /\ [counter |-> 0, sent |-> 1, deadline |-> w] \in T
                     /\ [counter |-> 0, deadline |-> w] \in A
  BY MrpAssumption DEF Transmissions, Acknowledgements
<1>3. \A t \in T, w \in Nat :
        ~(t.sent >= MaxTransmissions) => [t EXCEPT !.sent = @ + 1, !.deadline = w] \in T
  <2> DEFINE S == 1 .. MaxTransmissions
  <2>1. \A n \in S : ~(n >= MaxTransmissions) => n + 1 \in S
    BY MrpAssumption
  <2> HIDE DEF S
  <2>2. T = [counter : {0}, sent : S, deadline : Nat]
    BY Zenon DEF Transmissions, S
  <2>3. \A t \in T, n \in S, w \in Nat : [t EXCEPT !.sent = n, !.deadline = w] \in T
    BY Zenon, <2>2
  <2>4. \A t \in T : t.sent \in S
    BY <2>2
  <2> HIDE DEF T
  <2> QED
    BY Zenon, <2>1, <2>3, <2>4
<1> HIDE DEF T, A
<1>4. NewMrp \in Mrps
  BY <1>1 DEF NewMrp
<1>5. \A m \in Mrps : TakePiggyback(m) \in Mrps /\ OnAckTimeout(m) \in Mrps
  BY <1>1 DEF TakePiggyback, OnAckTimeout
<1>6. \A m \in Mrps, w \in Nat : OnSend(m, 0, w) \in Mrps /\ OnReliableReceived(m, 0, w) \in Mrps
  BY <1>1, <1>2 DEF OnSend, OnReliableReceived
<1>7. \A m \in Mrps : \A c : OnAck(m, c) \in Mrps
  BY <1>1 DEF OnAck
<1>8. ASSUME NEW m \in Mrps, NEW w \in Nat, IsAwaitingAck(m)
      PROVE  OnTxTimeout(m, w) \in Mrps
  <2>1. m.tx \in T /\ m.ack \in A \cup {None} /\ m = [tx |-> m.tx, ack |-> m.ack]
    BY <1>1, <1>8 DEF IsAwaitingAck
  <2>2. CASE GivesUp(m)
    BY <1>1, <2>1, <2>2 DEF OnTxTimeout
  <2>3. CASE ~GivesUp(m)
    <3> DEFINE t == [m.tx EXCEPT !.sent = @ + 1, !.deadline = w]
    <3>1. t \in T
      BY Zenon, <1>3, <2>1, <2>3 DEF GivesUp
    <3>2. OnTxTimeout(m, w) = [m EXCEPT !.tx = t]
      BY Zenon, <2>1, <2>3 DEF OnTxTimeout
    <3> HIDE DEF t
    <3> QED
      BY <1>1, <3>1, <3>2
  <2> QED
    BY Zenon, <2>2, <2>3
<1> QED
  BY Zenon, <1>4, <1>5, <1>6, <1>7, <1>8

\* What is left of a table when entries leave it
LEMMA RestrictKeeps ==
    ASSUME NEW table, TableOK(table), NEW keys \in SUBSET DOMAIN table
    PROVE  /\ TableOK(Restrict(table, keys))
           /\ DOMAIN Restrict(table, keys) = keys
           /\ \A key \in keys : Restrict(table, keys)[key] = table[key]
<1>1. /\ DOMAIN Restrict(table, keys) = keys
      /\ \A key \in keys : Restrict(table, keys)[key] = table[key]
  BY DEF Restrict
<1>2. IsFiniteSet(keys) /\ Cardinality(keys) <= Cardinality(DOMAIN table)
  BY FS_Subset DEF TableOK
<1>3. Cardinality(keys) <= MaxExchanges
  BY <1>2, FS_CardinalityType, MessagingAssumption DEF TableOK
<1>4. Restrict(table, keys) \in [keys -> Entries]
  BY DEF Restrict, TableOK
<1> QED
  BY Zenon, <1>1, <1>2, <1>3, <1>4 DEF TableOK

\* A table with room takes an entry
LEMMA PutKeeps ==
    ASSUME NEW table, TableOK(table), NEW key \in Keys, NEW entry \in Entries,
           Cardinality(DOMAIN table) < MaxExchanges
    PROVE  /\ TableOK(Put(table, key, entry))
           /\ DOMAIN Put(table, key, entry) = DOMAIN table \cup {key}
           /\ Put(table, key, entry)[key] = entry
<1> DEFINE new == Put(table, key, entry)
<1>1. DOMAIN new = DOMAIN table \cup {key} /\ new[key] = entry
  BY DEF Put
<1>2. new \in [DOMAIN new -> Entries]
  BY <1>1 DEF Put, TableOK
<1> HIDE DEF new
<1>3. Cardinality(DOMAIN table) \in Nat
  BY FS_CardinalityType DEF TableOK
<1>4. /\ IsFiniteSet(DOMAIN table \cup {key})
      /\ \/ Cardinality(DOMAIN table \cup {key}) = Cardinality(DOMAIN table)
         \/ Cardinality(DOMAIN table \cup {key}) = Cardinality(DOMAIN table) + 1
  BY FS_AddElement DEF TableOK
<1>5. Cardinality(DOMAIN table \cup {key}) <= MaxExchanges
  BY <1>3, <1>4, MessagingAssumption
<1>6. TableOK(new)
  BY Zenon, <1>1, <1>2, <1>4, <1>5 DEF TableOK
<1> QED
  BY Zenon, <1>1, <1>6 DEF new

\* An entry may change
LEMMA UpdateKeeps ==
    ASSUME NEW table, TableOK(table), NEW key \in DOMAIN table, NEW entry \in Entries
    PROVE  /\ TableOK([table EXCEPT ![key] = entry])
           /\ DOMAIN [table EXCEPT ![key] = entry] = DOMAIN table
<1> DEFINE new == [table EXCEPT ![key] = entry]
<1>1. DOMAIN new = DOMAIN table
  OBVIOUS
<1>2. new \in [DOMAIN table -> Entries]
  BY DEF TableOK
<1> HIDE DEF new
<1>3. TableOK(new)
  BY Zenon, <1>1, <1>2 DEF TableOK
<1> QED
  BY Zenon, <1>1, <1>3 DEF new

-----------------------------------------------------------------------------
(* ExchangeTable::allocate_id *)

\* The ids wrap around within the ids there are
LEMMA Wraps ==
    /\ Cardinality(ExchangeIds) \in Nat \ {0}
    /\ ExchangeIds \subseteq Nat
    /\ \A n \in Int : n % Cardinality(ExchangeIds) \in ExchangeIds
<1> DEFINE N == Cardinality(ExchangeIds)
<1>1. N \in Nat /\ MaxExchanges < N /\ ExchangeIds = 0 .. N - 1
  BY FS_CardinalityType, MessagingAssumption
<1> HIDE DEF N
<1>2. N > 0
  BY <1>1, MessagingAssumption
<1>3. \A n \in Int : n % N \in 0 .. N - 1
  BY <1>1, <1>2
<1>4. N \in Nat \ {0} /\ ExchangeIds \subseteq Nat
  BY <1>1, <1>2
<1>5. \A n \in Int : n % N \in ExchangeIds
  BY Zenon, <1>1, <1>3
<1> QED
  BY Zenon, <1>4, <1>5 DEF N

\* A table of fewer exchanges than there are ids leaves an id free on every session, so
\* the loop of allocate_id never ends without one
LEMMA FreeId ==
    ASSUME TableOK(exchanges), NEW session \in SessionIds \cup {Unsecured}
    PROVE  \E id \in ExchangeIds : ~InUse(session, id)
<1>1. SUFFICES ASSUME \A id \in ExchangeIds : InUse(session, id) PROVE FALSE
  BY Zenon
<1> DEFINE key == [id \in ExchangeIds |-> [session |-> session, id |-> id, role |-> "initiator"]]
<1>2. key \in [ExchangeIds -> Open]
  BY <1>1 DEF InUse
<1>3. \A a, b \in ExchangeIds : key[a] = key[b] => a = b
  <2>1. \A a \in ExchangeIds : key[a].id = a
    OBVIOUS
  <2> QED
    BY Zenon, <2>1
<1> HIDE DEF key
<1>4. key \in Injection(ExchangeIds, Open)
  BY Zenon, <1>2, <1>3 DEF Injection, IsInjective
<1>5. Cardinality(ExchangeIds) <= Cardinality(Open)
  BY Zenon, <1>4, FS_Injection DEF TableOK, Open
<1>6. Cardinality(Open) <= MaxExchanges /\ Cardinality(Open) \in Nat
  BY FS_CardinalityType DEF TableOK, Open
<1> QED
  BY <1>5, <1>6, Wraps, MessagingAssumption

\* So the id it allocates is an id, and free
LEMMA AllocatedFree ==
    ASSUME TableOK(exchanges), nextId \in ExchangeIds, NEW session \in SessionIds \cup {Unsecured}
    PROVE  Allocated(session) \in ExchangeIds /\ ~InUse(session, Allocated(session))
<1> DEFINE free == {id \in ExchangeIds : ~InUse(session, id)}
           distances == {Distance(id) : id \in free}
<1>1. free # {} /\ free \subseteq ExchangeIds
  BY Zenon, FreeId
<1>2. \A id \in ExchangeIds : Distance(id) \in Nat
  <2>1. \A id \in ExchangeIds : id - nextId \in Int
    BY Wraps
  <2> QED
    BY Zenon, <2>1, Wraps DEF Distance
<1>3. distances \subseteq Nat /\ distances # {}
  BY Zenon, <1>1, <1>2
<1> HIDE DEF distances
<1>4. PICK least \in distances : \A n \in distances : <<n, least>> \notin OpToRel(<, Nat)
  BY Zenon, <1>3, WFMin, NatLessThanWellFounded
<1>5. \A n \in distances : least <= n
  <2>1. \A n \in distances : ~(n < least)
    BY Zenon, <1>3, <1>4 DEF OpToRel
  <2>2. \A n \in distances : n \in Nat /\ least \in Nat
    BY Zenon, <1>3
  <2> QED
    BY <2>1, <2>2
<1>6. PICK id \in free : \A other \in free : Distance(id) <= Distance(other)
  BY Zenon, <1>5 DEF distances
<1>7. \E x \in ExchangeIds :
        /\ ~InUse(session, x)
        /\ \A other \in ExchangeIds : ~InUse(session, other) => Distance(x) <= Distance(other)
  BY Zenon, <1>6
<1> QED
  BY Zenon, <1>7 DEF Allocated

\* The id after it is an id again
LEMMA NextIdType ==
    ASSUME TableOK(exchanges), nextId \in ExchangeIds, NEW session \in SessionIds \cup {Unsecured}
    PROVE  Successor(Allocated(session)) \in ExchangeIds
<1>1. Allocated(session) \in ExchangeIds
  BY Zenon, AllocatedFree
<1>2. ASSUME NEW id \in ExchangeIds PROVE Successor(id) \in ExchangeIds
  <2>1. id + 1 \in Int
    BY Wraps
  <2> QED
    BY Zenon, <2>1, Wraps DEF Successor
<1> QED
  BY Zenon, <1>1, <1>2

-----------------------------------------------------------------------------
(* The steps *)

\* A step keeps the invariant and opens exchanges only on sessions that were there
Preserved == IInv' /\ Covered(exchanges', Live)

\* A step that leaves the sessions alone and gives a well-formed table whose exchanges
\* were there, or are on a session that is
LEMMA TableStep ==
    ASSUME IInv, SessionsOK', Live' = Live, TableOK(exchanges'), nextId' \in ExchangeIds,
           \A key \in DOMAIN exchanges' : key \in Open \/ key.session \in Live \cup {Unsecured}
    PROVE  Preserved
<1>1. Covered(exchanges', Live') /\ Covered(exchanges', Live)
  BY Zenon DEF Covered, IInv, Open
<1> QED
  BY Zenon, <1>1 DEF IInv, Preserved

\* A step at which the sessions of gone leave, and their exchanges with them
LEMMA EndStep ==
    ASSUME IInv, NEW gone, SessionsOK', Live \ gone \subseteq Live', nextId' \in ExchangeIds,
           TableOK(exchanges'), \A key \in DOMAIN exchanges' : key.session \notin gone,
           \A key \in DOMAIN exchanges' : key \in Open \/ key.session \in Live \cup {Unsecured}
    PROVE  Preserved
<1>1. Covered(exchanges', Live') /\ Covered(exchanges', Live)
  BY Zenon DEF Covered, IInv, Open
<1> QED
  BY Zenon, <1>1 DEF IInv, Preserved

\* UNCHANGED sessions
LEMMA SessionsStay ==
    ASSUME SessionsOK, UNCHANGED <<sessions, older>>
    PROVE  SessionsOK' /\ Live' = Live
BY Zenon DEF SessionsOK, Live

\* A new entry
LEMMA EntryType ==
    ASSUME NEW ephemeral \in BOOLEAN
    PROVE  Entry(ephemeral) \in Entries
BY Zenon, EntryFields, MrpTypes DEF Entry

\* A key of a session or of the unsecured one
LEMMA KeyType ==
    ASSUME NEW session \in SessionIds \cup {Unsecured}, NEW id \in ExchangeIds,
           NEW role \in {"initiator", "responder"}
    PROVE  /\ [session |-> session, id |-> id, role |-> role] \in Keys
           /\ [session |-> session, id |-> id, role |-> role].session = session
BY DEF Keys

\* Changing the reliability state of one exchange
LEMMA MrpKeeps ==
    ASSUME NEW table, TableOK(table), NEW key \in DOMAIN table, NEW mrp \in Mrps
    PROVE  /\ TableOK([table EXCEPT ![key].mrp = mrp])
           /\ DOMAIN [table EXCEPT ![key].mrp = mrp] = DOMAIN table
<1> DEFINE entry == [table[key] EXCEPT !.mrp = mrp]
<1>1. table[key] \in Entries
  BY DEF TableOK
<1>2. entry \in Entries
  BY Zenon, <1>1, EntryFields
<1>3. [table EXCEPT ![key].mrp = mrp] = [table EXCEPT ![key] = entry]
  OBVIOUS
<1> HIDE DEF entry
<1> QED
  BY Zenon, <1>2, <1>3, UpdateKeeps

\* Exchange reaping, on the timer and under pressure
LEMMA ReapKeeps ==
    ASSUME TableOK(exchanges)
    PROVE  /\ TableOK(Reaped) /\ DOMAIN Reaped = {k \in Open : ~Abandoned(exchanges[k])}
           /\ \A key \in DOMAIN Reaped : Reaped[key] = exchanges[key]
           /\ TableOK(UnderPressure) /\ DOMAIN UnderPressure \subseteq Open
<1> DEFINE kept == {k \in Open : ~Abandoned(exchanges[k])}
<1>1. kept \in SUBSET DOMAIN exchanges
  BY Zenon DEF Open
<1>2. Reaped = Restrict(exchanges, kept)
  BY Zenon DEF Reaped
<1> HIDE DEF kept
<1>3. /\ TableOK(Reaped) /\ DOMAIN Reaped = kept
      /\ \A key \in DOMAIN Reaped : Reaped[key] = exchanges[key]
  BY Zenon, <1>1, <1>2, RestrictKeeps
<1>4. TableOK(UnderPressure) /\ DOMAIN UnderPressure \subseteq Open
  BY Zenon, <1>1, <1>3 DEF UnderPressure, Open
<1> QED
  BY Zenon, <1>3, <1>4 DEF kept

\* There is room unless the table is full
LEMMA Room ==
    ASSUME TableOK(exchanges), ~Full
    PROVE  Cardinality(DOMAIN exchanges) < MaxExchanges
<1>1. Cardinality(DOMAIN exchanges) \in Nat
  BY FS_CardinalityType DEF TableOK
<1> QED
  BY <1>1, MessagingAssumption DEF Full, Open

\* Messaging::open, open_to, open_unsecured, open_unsecured_to
LEMMA OpenExchangeStep ==
    ASSUME IInv, NEW session \in SessionIds \cup {Unsecured}, OpenExchange(session)
    PROVE  Preserved
<1> DEFINE id == Allocated(session)
           key == [session |-> session, id |-> id, role |-> "initiator"]
<1>1. TableOK(exchanges) /\ SessionsOK /\ nextId \in ExchangeIds
  BY Zenon DEF IInv
<1>2. SessionsOK' /\ Live' = Live
  BY Zenon, <1>1, SessionsStay DEF OpenExchange
<1>3. nextId' \in ExchangeIds
  BY Zenon, <1>1, NextIdType DEF OpenExchange, OpenInitiator
<1>4. key \in Keys /\ key.session = session
  BY Zenon, <1>1, AllocatedFree, KeyType
<1>5. session \in Live \cup {Unsecured}
  BY Zenon DEF OpenExchange
<1>6. exchanges' = IF Full THEN exchanges ELSE Put(exchanges, key, Entry(FALSE))
  BY Zenon DEF OpenExchange, OpenInitiator
<1> HIDE DEF key
<1>7. CASE Full
  BY Zenon, <1>1, <1>2, <1>3, <1>6, <1>7, TableStep DEF Open
<1>8. CASE ~Full
  <2>1. /\ TableOK(Put(exchanges, key, Entry(FALSE)))
        /\ DOMAIN Put(exchanges, key, Entry(FALSE)) = DOMAIN exchanges \cup {key}
    BY Zenon, <1>1, <1>4, <1>8, Room, EntryType, PutKeeps
  <2>2. \A k \in DOMAIN exchanges' : k \in Open \/ k.session \in Live \cup {Unsecured}
    BY Zenon, <1>4, <1>5, <1>6, <1>8, <2>1 DEF Open
  <2> QED
    BY Zenon, <1>2, <1>3, <1>6, <1>8, <2>1, <2>2, TableStep
<1> QED
  BY Zenon, <1>7, <1>8

\* Messaging::open on a session that has gone
LEMMA OpenStaleStep ==
    ASSUME IInv, NEW session \in SessionIds, OpenStale(session)
    PROVE  Preserved
<1>1. TableOK(exchanges) /\ SessionsOK /\ nextId \in ExchangeIds
  BY Zenon DEF IInv
<1>2. SessionsOK' /\ Live' = Live /\ exchanges' = exchanges
  BY Zenon, <1>1, SessionsStay DEF OpenStale
<1>3. nextId' \in ExchangeIds
  BY Zenon, <1>1, NextIdType DEF OpenStale
<1> QED
  BY Zenon, <1>1, <1>2, <1>3, TableStep DEF Open

\* Messaging::close
LEMMA CloseExchangeStep ==
    ASSUME IInv, NEW key, CloseExchange(key)
    PROVE  Preserved /\ DOMAIN exchanges' = Open \ {key}
<1>1. TableOK(exchanges) /\ SessionsOK /\ nextId \in ExchangeIds
  BY Zenon DEF IInv
<1>2. SessionsOK' /\ Live' = Live /\ nextId' \in ExchangeIds
  BY Zenon, <1>1, SessionsStay DEF CloseExchange
<1>3. Open \ {key} \in SUBSET DOMAIN exchanges
  BY Zenon DEF Open
<1>4. TableOK(exchanges') /\ DOMAIN exchanges' = Open \ {key}
  BY Zenon, <1>1, <1>3, RestrictKeeps DEF CloseExchange
<1> QED
  BY Zenon, <1>2, <1>4, TableStep

\* Messaging::install_session, with room
LEMMA InstallStep ==
    ASSUME IInv, NEW id \in SessionIds, NEW fabric \in Fabrics, Install(id, fabric)
    PROVE  Preserved
<1>1. TableOK(exchanges) /\ SessionsOK /\ nextId \in ExchangeIds /\ Covered(exchanges, Live)
  BY Zenon DEF IInv
<1>2. WithoutSessions({}) = sessions
  BY Zenon DEF WithoutSessions
<1>3. Cardinality(WithoutSessions({})) < MaxSessions
  BY Zenon, <1>2 DEF Install
<1>4. SessionsOK' /\ Live' = (Live \ {}) \cup {id}
  BY Zenon, <1>1, <1>3, InsertKeeps DEF Install
<1>5. exchanges' = exchanges /\ nextId' = nextId
  BY Zenon DEF Install
<1>6. Live \subseteq Live'
  BY Zenon, <1>4
<1>7. Covered(exchanges', Live')
  BY Zenon, <1>1, <1>5, <1>6 DEF Covered
<1> QED
  BY Zenon, <1>1, <1>4, <1>5, <1>7 DEF IInv, Preserved

\* The exchanges of a session leave the table (ExchangeTable::close_session)
LEMMA WithoutExchangesKeeps ==
    ASSUME TableOK(exchanges), NEW id
    PROVE  /\ TableOK(WithoutExchanges(id))
           /\ DOMAIN WithoutExchanges(id) = {k \in Open : k.session # id}
<1>1. {k \in Open : k.session # id} \in SUBSET DOMAIN exchanges
  BY Zenon DEF Open
<1> QED
  BY Zenon, <1>1, RestrictKeeps DEF WithoutExchanges

\* Messaging::install_session, evicting
LEMMA EvictStep ==
    ASSUME IInv, NEW victim, NEW id \in SessionIds, NEW fabric \in Fabrics,
           Evict(victim, id, fabric)
    PROVE  /\ Preserved
           /\ exchanges' = exchanges \/ DOMAIN exchanges' = {k \in Open : k.session # victim}
<1>1. TableOK(exchanges) /\ SessionsOK /\ nextId \in ExchangeIds
  BY Zenon DEF IInv
<1>2. victim \in Live
  BY Zenon DEF Evict, LeastRecentlyUsed
<1>3. victim \in SessionIds \cup {Unsecured}
  BY Zenon, <1>1, <1>2, LiveFinite
<1>4. nextId' \in ExchangeIds
  BY Zenon, <1>1, <1>3, NextIdType DEF Evict
<1>5. CASE Full
  <2>1. UNCHANGED <<sessions, older>> /\ exchanges' = exchanges
    BY Zenon, <1>5 DEF Evict
  <2>2. SessionsOK' /\ Live' = Live
    BY Zenon, <1>1, <2>1, SessionsStay
  <2> QED
    BY Zenon, <1>1, <1>4, <2>1, <2>2, TableStep DEF Open
<1>6. CASE ~Full
  <2>1. Insert({victim}, id, fabric) /\ exchanges' = WithoutExchanges(victim)
    BY Zenon, <1>6 DEF Evict
  <2>2. SessionsOK' /\ Live' = (Live \ {victim}) \cup {id}
    BY Zenon, <1>1, <1>2, <2>1, EvictionMakesRoom, InsertKeeps
  <2>3. TableOK(exchanges') /\ DOMAIN exchanges' = {k \in Open : k.session # victim}
    BY Zenon, <1>1, <2>1, WithoutExchangesKeeps
  <2>4. Live \ {victim} \subseteq Live'
    BY Zenon, <2>2
  <2>5. \A key \in DOMAIN exchanges' : key.session \notin {victim} /\ key \in Open
    BY Zenon, <2>3
  <2> QED
    BY Zenon, <1>4, <2>2, <2>3, <2>4, <2>5, EndStep
<1> QED
  BY Zenon, <1>5, <1>6

\* Messaging::close_session
LEMMA CloseSessionStep ==
    ASSUME IInv, NEW id, CloseSession(id)
    PROVE  Preserved /\ DOMAIN exchanges' = {k \in Open : k.session # id}
<1>1. TableOK(exchanges) /\ SessionsOK /\ nextId \in ExchangeIds
  BY Zenon DEF IInv
<1>2. Drop({id}) /\ exchanges' = WithoutExchanges(id) /\ nextId' = nextId
  BY Zenon DEF CloseSession
<1>3. SessionsOK' /\ Live' = Live \ {id}
  BY Zenon, <1>1, <1>2, DropKeeps
<1>4. TableOK(exchanges') /\ DOMAIN exchanges' = {k \in Open : k.session # id}
  BY Zenon, <1>1, <1>2, WithoutExchangesKeeps
<1>5. Live \ {id} \subseteq Live' /\ \A key \in DOMAIN exchanges' : key.session \notin {id} /\ key \in Open
  BY Zenon, <1>3, <1>4
<1> QED
  BY Zenon, <1>1, <1>2, <1>3, <1>4, <1>5, EndStep

\* Messaging::remove_fabric
LEMMA RemoveFabricStep ==
    ASSUME IInv, NEW fabric, RemoveFabric(fabric)
    PROVE  /\ Preserved
           /\ \A key \in Open \ DOMAIN exchanges' :
                \E s \in sessions : s.fabric = fabric /\ s.id = key.session
<1> DEFINE doomed == {s.id : s \in {t \in sessions : t.fabric = fabric}}
<1>1. TableOK(exchanges) /\ SessionsOK /\ nextId \in ExchangeIds
  BY Zenon DEF IInv
<1>2. /\ Drop(doomed) /\ nextId' = nextId
      /\ exchanges' = Restrict(exchanges, {k \in Open : k.session \notin doomed})
  BY Zenon DEF RemoveFabric
<1>3. \A id : id \in doomed => \E s \in sessions : s.fabric = fabric /\ s.id = id
  BY Zenon
<1> HIDE DEF doomed
<1>4. SessionsOK' /\ Live' = Live \ doomed
  BY Zenon, <1>1, <1>2, DropKeeps
<1>5. {k \in Open : k.session \notin doomed} \in SUBSET DOMAIN exchanges
  BY Zenon DEF Open
<1>6. TableOK(exchanges') /\ DOMAIN exchanges' = {k \in Open : k.session \notin doomed}
  BY Zenon, <1>1, <1>2, <1>5, RestrictKeeps
<1>7. /\ Live \ doomed \subseteq Live'
      /\ \A key \in DOMAIN exchanges' : key.session \notin doomed /\ key \in Open
  BY Zenon, <1>4, <1>6
<1>8. Preserved
  BY Zenon, <1>1, <1>2, <1>4, <1>6, <1>7, EndStep
<1> QED
  BY Zenon, <1>3, <1>6, <1>8

\* Messaging::receive refused
LEMMA ReceiveRefusedStep ==
    ASSUME IInv, NEW m, NEW duplicate, ReceiveRefused(m, duplicate)
    PROVE  Preserved /\ (exchanges' = exchanges \/ exchanges' = UnderPressure)
<1>1. TableOK(exchanges) /\ SessionsOK /\ nextId \in ExchangeIds
  BY Zenon DEF IInv
<1>2. SessionsOK' /\ Live' = Live
  BY Zenon, <1>1, UseKeeps DEF ReceiveRefused
<1>3. nextId' = nextId /\ (exchanges' = exchanges \/ exchanges' = UnderPressure)
  BY Zenon DEF ReceiveRefused
<1>4. TableOK(exchanges') /\ \A key \in DOMAIN exchanges' : key \in Open
  BY Zenon, <1>1, <1>3, ReapKeeps DEF Open
<1> QED
  BY Zenon, <1>1, <1>2, <1>3, <1>4, TableStep

\* What a message does to the entry it is processed on
LEMMA ProcessedType ==
    ASSUME NEW e \in Entries, NEW m
    PROVE  Processed(e, m) \in Entries
<1> DEFINE acked == IF m.acks /\ IsAwaitingAck(e.mrp) THEN OnAck(e.mrp, e.mrp.tx.counter) ELSE e.mrp
           mrp == IF m.reliable THEN OnReliableReceived(acked, 0, AckWait) ELSE acked
<1>1. e.mrp \in Mrps
  BY Zenon, EntryFields
<1>2. acked \in Mrps
  BY Zenon, <1>1, MrpTypes
<1> HIDE DEF acked
<1>3. mrp \in Mrps
  BY Zenon, <1>2, MrpTypes, MessagingAssumption
<1>4. Processed(e, m) = [e EXCEPT !.idle = 0, !.mrp = mrp]
  BY Zenon DEF Processed, acked
<1> HIDE DEF mrp
<1>5. 0 \in Nat
  OBVIOUS
<1>6. [e EXCEPT !.idle = 0, !.mrp = mrp] \in Entries
  BY Zenon, <1>3, <1>5, EntryAfter
<1> QED
  BY Zenon, <1>4, <1>6

\* Messaging::route: the table the message is processed in, and its entry
LEMMA RoutedKeeps ==
    ASSUME TableOK(exchanges), NEW m \in Messages, NEW duplicate \in BOOLEAN,
           \/ KeyOf(m) \in Open
           \/ Cardinality(DOMAIN UnderPressure) < MaxExchanges
    PROVE  /\ TableOK(Routed(m, duplicate)) /\ KeyOf(m) \in DOMAIN Routed(m, duplicate)
           /\ DOMAIN Routed(m, duplicate) \subseteq Open \cup {KeyOf(m)}
           /\ DOMAIN UnderPressure \subseteq DOMAIN Routed(m, duplicate)
           /\ KeyOf(m).session = m.session
<1>1. m.session \in SessionIds \cup {Unsecured} /\ m.id \in ExchangeIds
  BY DEF Messages
<1>2. KeyOf(m) \in Keys /\ KeyOf(m).session = m.session
  <2>1. CASE m.initiator
    BY Zenon, <1>1, <2>1, KeyType DEF KeyOf
  <2>2. CASE ~m.initiator
    BY Zenon, <1>1, <2>2, KeyType DEF KeyOf
  <2> QED
    BY Zenon, <2>1, <2>2
<1>3. CASE KeyOf(m) \in Open
  BY Zenon, <1>2, <1>3, ReapKeeps DEF Routed, Open
<1>4. CASE KeyOf(m) \notin Open
  <2> DEFINE fresh == Entry(~OpensResponder(m, duplicate))
  <2>1. fresh \in Entries
    BY Zenon, EntryType
  <2>2. TableOK(UnderPressure) /\ DOMAIN UnderPressure \subseteq Open
    BY Zenon, ReapKeeps
  <2>3. Routed(m, duplicate) = Put(UnderPressure, KeyOf(m), fresh)
    BY Zenon, <1>4 DEF Routed
  <2> HIDE DEF fresh
  <2>4. /\ TableOK(Put(UnderPressure, KeyOf(m), fresh))
        /\ DOMAIN Put(UnderPressure, KeyOf(m), fresh) = DOMAIN UnderPressure \cup {KeyOf(m)}
    BY Zenon, <1>2, <1>4, <2>1, <2>2, PutKeeps
  <2> QED
    BY Zenon, <1>2, <2>2, <2>3, <2>4
<1> QED
  BY Zenon, <1>3, <1>4

\* Messaging::receive routed
LEMMA ReceiveStep ==
    ASSUME IInv, NEW m \in Messages, NEW duplicate \in BOOLEAN, Receive(m, duplicate)
    PROVE  /\ Preserved
           /\ \A key \in DOMAIN UnderPressure \ DOMAIN exchanges' :
                m.kind = "close" /\ ~duplicate /\ key.session = m.session
<1> DEFINE table == Routed(m, duplicate)
           done == [table EXCEPT ![KeyOf(m)] = Processed(table[KeyOf(m)], m)]
           closes == m.kind = "close" /\ ~duplicate /\ m.session # Unsecured
<1>1. TableOK(exchanges) /\ SessionsOK /\ nextId \in ExchangeIds
  BY Zenon DEF IInv
<1>2. /\ TableOK(table) /\ KeyOf(m) \in DOMAIN table
      /\ DOMAIN table \subseteq Open \cup {KeyOf(m)}
      /\ DOMAIN UnderPressure \subseteq DOMAIN table
      /\ KeyOf(m).session = m.session
  BY Zenon, <1>1, RoutedKeeps DEF Receive
<1>3. /\ nextId' = nextId /\ m.session \in Live \cup {Unsecured}
      /\ closes => /\ Drop({m.session})
                   /\ exchanges' = Restrict(done, {k \in DOMAIN done : k.session # m.session})
      /\ ~closes => Use(m.session) /\ exchanges' = done
  BY Zenon DEF Receive, Arrives
<1> HIDE DEF table
<1>4. table[KeyOf(m)] \in Entries
  BY <1>2 DEF TableOK
<1>5. Processed(table[KeyOf(m)], m) \in Entries
  BY Zenon, <1>4, ProcessedType
<1>6. TableOK(done) /\ DOMAIN done = DOMAIN table
  BY Zenon, <1>2, <1>5, UpdateKeeps
<1> HIDE DEF done
<1>7. \A key \in DOMAIN done : key \in Open \/ key.session \in Live \cup {Unsecured}
  BY Zenon, <1>2, <1>3, <1>6
<1>8. CASE closes
  <2>1. SessionsOK' /\ Live' = Live \ {m.session}
    BY Zenon, <1>1, <1>3, <1>8, DropKeeps
  <2> DEFINE kept == {k \in DOMAIN done : k.session # m.session}
  <2>2. kept \in SUBSET DOMAIN done /\ exchanges' = Restrict(done, kept)
    BY Zenon, <1>3, <1>8
  <2> HIDE DEF kept
  <2>3. TableOK(exchanges') /\ DOMAIN exchanges' = kept
    BY Zenon, <1>6, <2>2, RestrictKeeps
  <2> USE DEF kept
  <2>4. /\ Live \ {m.session} \subseteq Live' /\ nextId' \in ExchangeIds
        /\ \A key \in DOMAIN exchanges' : key.session \notin {m.session}
        /\ \A key \in DOMAIN exchanges' : key \in Open \/ key.session \in Live \cup {Unsecured}
    BY Zenon, <1>1, <1>3, <1>7, <2>1, <2>3
  <2>5. Preserved
    BY Zenon, <2>1, <2>3, <2>4, EndStep
  <2> QED
    BY Zenon, <1>2, <1>6, <1>8, <2>3, <2>5
<1>9. CASE ~closes
  <2>1. SessionsOK' /\ Live' = Live
    BY Zenon, <1>1, <1>3, <1>9, UseKeeps
  <2>2. exchanges' = done /\ nextId' \in ExchangeIds
    BY Zenon, <1>1, <1>3, <1>9
  <2>3. Preserved
    BY Zenon, <1>6, <1>7, <2>1, <2>2, TableStep
  <2> QED
    BY Zenon, <1>2, <1>6, <2>2, <2>3
<1> QED
  BY Zenon, <1>8, <1>9

\* Messaging::send
LEMMA SendStep ==
    ASSUME IInv, NEW key \in Open, NEW reliable \in BOOLEAN, NEW wait \in RetryWaits,
           Send(key, reliable, wait)
    PROVE  Preserved /\ DOMAIN exchanges' = Open
<1> DEFINE m == TakePiggyback(exchanges[key].mrp)
           mrp == IF reliable /\ ~Busy(m) THEN OnSend(m, 0, wait) ELSE m
<1>1. TableOK(exchanges) /\ SessionsOK /\ nextId \in ExchangeIds /\ key \in DOMAIN exchanges
  BY Zenon DEF IInv, Open
<1>2. exchanges[key] \in Entries
  BY <1>1 DEF TableOK
<1>3. m \in Mrps
  BY Zenon, <1>2, EntryFields, MrpTypes
<1>4. exchanges' = [exchanges EXCEPT ![key].mrp = mrp] /\ Use(key.session) /\ nextId' = nextId
  BY Zenon DEF Send
<1> HIDE DEF m
<1>5. wait \in Nat
  BY MessagingAssumption
<1>6. mrp \in Mrps
  BY Zenon, <1>3, <1>5, MrpTypes
<1> HIDE DEF mrp
<1>7. TableOK(exchanges') /\ DOMAIN exchanges' = Open
  BY Zenon, <1>1, <1>4, <1>6, MrpKeeps DEF Open
<1>8. SessionsOK' /\ Live' = Live
  BY Zenon, <1>1, <1>4, UseKeeps
<1> QED
  BY Zenon, <1>1, <1>4, <1>7, <1>8, TableStep

\* Messaging::acknowledge
LEMMA AcknowledgeStep ==
    ASSUME IInv, NEW key \in Open, Acknowledge(key)
    PROVE  Preserved /\ Open \ {key} \subseteq DOMAIN exchanges'
<1>1. TableOK(exchanges) /\ SessionsOK /\ nextId \in ExchangeIds /\ key \in DOMAIN exchanges
  BY Zenon DEF IInv, Open
<1>2. exchanges[key] \in Entries
  BY <1>1 DEF TableOK
<1>3. TakePiggyback(exchanges[key].mrp) \in Mrps
  BY Zenon, <1>2, EntryFields, MrpTypes
<1>4. SessionsOK' /\ Live' = Live /\ nextId' \in ExchangeIds
  BY Zenon, <1>1, UseKeeps, SessionsStay DEF Acknowledge
<1>5. Open \ {key} \in SUBSET DOMAIN exchanges
  BY Zenon DEF Open
<1>6. CASE exchanges[key].ephemeral
  <2>1. exchanges' = Restrict(exchanges, Open \ {key})
    BY Zenon, <1>6 DEF Acknowledge
  <2>2. TableOK(exchanges') /\ DOMAIN exchanges' = Open \ {key}
    BY Zenon, <1>1, <1>5, <2>1, RestrictKeeps
  <2> QED
    BY Zenon, <1>4, <2>2, TableStep
<1>7. CASE ~exchanges[key].ephemeral
  <2>1. exchanges' = [exchanges EXCEPT ![key].mrp = TakePiggyback(exchanges[key].mrp)]
    BY Zenon, <1>7 DEF Acknowledge
  <2>2. TableOK(exchanges') /\ DOMAIN exchanges' = Open
    BY Zenon, <1>1, <1>3, <2>1, MrpKeeps DEF Open
  <2> QED
    BY Zenon, <1>4, <2>2, TableStep
<1> QED
  BY Zenon, <1>6, <1>7

\* Messaging::poll
LEMMA PollStep ==
    ASSUME IInv, NEW key \in Open, NEW wait \in RetryWaits, Poll(key, wait)
    PROVE  /\ Preserved
           /\ \A other \in DOMAIN Reaped \ DOMAIN exchanges' :
                other = key /\ GivesUp(exchanges[key].mrp)
<1> DEFINE m == exchanges[key].mrp
<1>1. TableOK(exchanges) /\ SessionsOK /\ nextId \in ExchangeIds
  BY Zenon DEF IInv
<1>2. /\ TableOK(Reaped) /\ key \in DOMAIN Reaped /\ Reaped[key] = exchanges[key]
      /\ DOMAIN Reaped \subseteq Open
  BY Zenon, <1>1, ReapKeeps DEF Poll
<1>3. Reaped[key] \in Entries
  BY <1>2 DEF TableOK
<1>4. m \in Mrps /\ Reaped[key].mrp = m
  BY Zenon, <1>2, <1>3, EntryFields
<1>5. SessionsOK' /\ Live' = Live /\ nextId' \in ExchangeIds
  BY Zenon, <1>1, SessionsStay DEF Poll
<1>6. AckExpired(m) \/ TxExpired(m)
  BY Zenon DEF Poll, Expired
<1>7. exchanges' = IF AckExpired(m) THEN [Reaped EXCEPT ![key].mrp = OnAckTimeout(Reaped[key].mrp)]
                   ELSE IF GivesUp(m) THEN Restrict(Reaped, DOMAIN Reaped \ {key})
                   ELSE [Reaped EXCEPT ![key].mrp = OnTxTimeout(Reaped[key].mrp, wait)]
  BY Zenon DEF Poll
<1> HIDE DEF m
<1>8. CASE AckExpired(m)
  <2>1. exchanges' = [Reaped EXCEPT ![key].mrp = OnAckTimeout(m)] /\ OnAckTimeout(m) \in Mrps
    BY Zenon, <1>4, <1>7, <1>8, MrpTypes
  <2>2. TableOK(exchanges') /\ DOMAIN exchanges' = DOMAIN Reaped
    BY Zenon, <1>2, <2>1, MrpKeeps
  <2> QED
    BY Zenon, <1>2, <1>5, <2>2, TableStep
<1>9. CASE ~AckExpired(m) /\ GivesUp(m)
  <2>1. exchanges' = Restrict(Reaped, DOMAIN Reaped \ {key})
    BY Zenon, <1>7, <1>9
  <2>2. TableOK(exchanges') /\ DOMAIN exchanges' = DOMAIN Reaped \ {key}
    BY Zenon, <1>2, <2>1, RestrictKeeps
  <2>3. Preserved
    BY Zenon, <1>2, <1>5, <2>2, TableStep
  <2> QED
    BY Zenon, <1>9, <2>2, <2>3 DEF m
<1>10. CASE ~AckExpired(m) /\ ~GivesUp(m)
  <2>1. IsAwaitingAck(m)
    BY Zenon, <1>6, <1>10 DEF TxExpired
  <2>2. wait \in Nat
    BY MessagingAssumption
  <2>3. exchanges' = [Reaped EXCEPT ![key].mrp = OnTxTimeout(m, wait)] /\ OnTxTimeout(m, wait) \in Mrps
    BY Zenon, <1>4, <1>7, <1>10, <2>1, <2>2, MrpTypes
  <2>4. TableOK(exchanges') /\ DOMAIN exchanges' = DOMAIN Reaped
    BY Zenon, <1>2, <2>3, MrpKeeps
  <2> QED
    BY Zenon, <1>2, <1>5, <2>4, TableStep
<1> QED
  BY Zenon, <1>8, <1>9, <1>10

\* Messaging::poll with nothing due: it reaps all the same
LEMMA PollReapStep ==
    ASSUME IInv, PollReap
    PROVE  Preserved /\ exchanges' = Reaped
<1>1. TableOK(exchanges) /\ SessionsOK /\ nextId \in ExchangeIds
  BY Zenon DEF IInv
<1>2. exchanges' = Reaped /\ SessionsOK' /\ Live' = Live /\ nextId' \in ExchangeIds
  BY Zenon, <1>1, SessionsStay DEF PollReap
<1>3. TableOK(exchanges') /\ \A key \in DOMAIN exchanges' : key \in Open
  BY Zenon, <1>1, <1>2, ReapKeeps
<1> QED
  BY Zenon, <1>2, <1>3, TableStep

\* Time passes on an entry
LEMMA AgedType ==
    ASSUME NEW e \in Entries
    PROVE  Aged(e) \in Entries
<1>1. \A t \in Nat : CountDown(t) \in Nat
  BY DEF CountDown
<1>2. \A t \in Transmissions : [t EXCEPT !.deadline = CountDown(t.deadline)] \in Transmissions
  BY <1>1 DEF Transmissions
<1>3. \A a \in Acknowledgements : [a EXCEPT !.deadline = CountDown(a.deadline)] \in Acknowledgements
  BY <1>1 DEF Acknowledgements
<1>4. \A t \in Transmissions \cup {None} : Sooner(t) \in Transmissions \cup {None}
  BY Zenon, <1>2 DEF Sooner
<1>5. \A a \in Acknowledgements \cup {None} : Sooner(a) \in Acknowledgements \cup {None}
  BY Zenon, <1>3 DEF Sooner
<1>6. e.mrp \in Mrps /\ e.idle \in Nat
  BY Zenon, EntryFields
<1>7. e.mrp.tx \in Transmissions \cup {None} /\ e.mrp.ack \in Acknowledgements \cup {None}
  BY <1>6 DEF Mrps
<1> DEFINE mrp == [tx |-> Sooner(e.mrp.tx), ack |-> Sooner(e.mrp.ack)]
           idle == IF e.idle > IdleTimeout THEN e.idle ELSE e.idle + 1
<1>8. mrp \in Mrps
  <2>1. Sooner(e.mrp.tx) \in Transmissions \cup {None} /\ Sooner(e.mrp.ack) \in Acknowledgements \cup {None}
    BY Zenon, <1>4, <1>5, <1>7
  <2> QED
    BY Zenon, <2>1 DEF Mrps
<1>9. idle \in Nat
  BY <1>6, MessagingAssumption
<1>10. Aged(e) = [e EXCEPT !.idle = idle, !.mrp = mrp]
  BY Zenon DEF Aged
<1> HIDE DEF mrp, idle
<1>11. [e EXCEPT !.idle = idle, !.mrp = mrp] \in Entries
  BY Zenon, <1>8, <1>9, EntryAfter
<1> QED
  BY Zenon, <1>10, <1>11

\* Time passes
LEMMA TickStep ==
    ASSUME IInv, Tick
    PROVE  Preserved /\ DOMAIN exchanges' = Open
<1>1. TableOK(exchanges) /\ SessionsOK /\ nextId \in ExchangeIds
  BY Zenon DEF IInv
<1>2. SessionsOK' /\ Live' = Live /\ nextId' \in ExchangeIds
  BY Zenon, <1>1, SessionsStay DEF Tick
<1>3. \A key \in Open : exchanges[key] \in Entries
  BY <1>1 DEF TableOK, Open
<1>4. \A key \in Open : Aged(exchanges[key]) \in Entries
  BY Zenon, <1>3, AgedType
<1>5. exchanges' \in [Open -> Entries] /\ DOMAIN exchanges' = Open
  BY Zenon, <1>4 DEF Tick
<1>6. TableOK(exchanges')
  BY Zenon, <1>1, <1>5 DEF TableOK, Open
<1> QED
  BY Zenon, <1>2, <1>5, <1>6, TableStep

-----------------------------------------------------------------------------
(* The theorems *)

\* An empty node: no session, no exchange
LEMMA InitInvariant == Init => IInv
<1> SUFFICES ASSUME Init PROVE IInv
  OBVIOUS
<1>1. sessions = {} /\ older = {} /\ exchanges = <<>> /\ nextId \in ExchangeIds
  BY Zenon DEF Init
<1>2. Live = {}
  BY <1>1 DEF Live
<1>3. DOMAIN exchanges = {}
  BY <1>1
<1>4. IsFiniteSet({}) /\ Cardinality({}) = 0
  BY Zenon, FS_EmptySet
<1>5. 0 <= MaxSessions /\ 0 <= MaxExchanges
  BY MessagingAssumption
<1>6. Ordered(older, Live)
  BY Zenon, <1>1, <1>2 DEF Ordered
<1>7. SessionsOK
  BY Zenon, <1>1, <1>4, <1>5, <1>6 DEF SessionsOK
<1>8. exchanges \in [{} -> Entries]
  BY <1>1
<1>9. TableOK(exchanges)
  BY Zenon, <1>3, <1>4, <1>5, <1>8 DEF TableOK
<1> QED
  BY Zenon, <1>1, <1>3, <1>7, <1>9 DEF IInv, Covered

\* Every step of the node keeps the invariant, and opens no exchange on a new session
LEMMA StepInvariant == IInv /\ [Next]_vars => Preserved
<1> SUFFICES ASSUME IInv, [Next]_vars PROVE Preserved
  OBVIOUS
<1>1. ASSUME NEW s \in SessionIds \cup {Unsecured}, OpenExchange(s) PROVE Preserved
  BY Zenon, <1>1, OpenExchangeStep
<1>2. ASSUME NEW s \in SessionIds, OpenStale(s) \/ CloseSession(s) PROVE Preserved
  BY Zenon, <1>2, OpenStaleStep, CloseSessionStep
<1>3. ASSUME NEW s \in SessionIds, NEW f \in Fabrics, Install(s, f) PROVE Preserved
  BY Zenon, <1>3, InstallStep
<1>4. ASSUME NEW s \in SessionIds, NEW f \in Fabrics, NEW victim, Evict(victim, s, f) PROVE Preserved
  BY Zenon, <1>4, EvictStep
<1>5. ASSUME NEW f \in Fabrics, RemoveFabric(f) PROVE Preserved
  BY Zenon, <1>5, RemoveFabricStep
<1>6. ASSUME NEW m \in Messages, NEW duplicate \in BOOLEAN, ReceiveRefused(m, duplicate) PROVE Preserved
  BY Zenon, <1>6, ReceiveRefusedStep
<1>7. ASSUME NEW m \in Messages, NEW duplicate \in BOOLEAN, Receive(m, duplicate) PROVE Preserved
  BY Zenon, <1>7, ReceiveStep
<1>8. ASSUME NEW key \in Open, CloseExchange(key) \/ Acknowledge(key) PROVE Preserved
  BY Zenon, <1>8, CloseExchangeStep, AcknowledgeStep
<1>9. ASSUME NEW key \in Open, NEW reliable \in BOOLEAN, NEW wait \in RetryWaits,
             Send(key, reliable, wait)
      PROVE  Preserved
  BY Zenon, <1>9, SendStep
<1>10. ASSUME NEW key \in Open, NEW wait \in RetryWaits, Poll(key, wait) PROVE Preserved
  BY Zenon, <1>10, PollStep
<1>11. ASSUME PollReap \/ Tick PROVE Preserved
  BY Zenon, <1>11, PollReapStep, TickStep
<1>12. ASSUME UNCHANGED vars PROVE Preserved
  BY Zenon, <1>12, SessionsStay DEF IInv, vars, Covered, Preserved
<1> QED
  BY Zenon, <1>1, <1>2, <1>3, <1>4, <1>5, <1>6, <1>7, <1>8, <1>9, <1>10, <1>11, <1>12 DEF Next

\* The inductive invariant holds of every behaviour
THEOREM MessagingInvariant == Spec => []IInv
<1>1. IInv /\ [Next]_vars => IInv'
  BY Zenon, StepInvariant DEF Preserved
<1> QED
  BY <1>1, InitInvariant, PTL DEF Spec

\* Both tables stay typed and within their capacities, whatever arrives
THEOREM MessagingTypeOK == Spec => []TypeOK
<1>1. IInv => TypeOK
  BY Zenon DEF IInv, TypeOK, SessionsOK, TableOK, Ordered, Open
<1> QED
  BY <1>1, MessagingInvariant, PTL

\* Session ids are unique, and an exchange never outlives its session
THEOREM ExchangesEndWithTheirSession == Spec => []NoOrphanExchange
<1>1. IInv => NoOrphanExchange
  BY Zenon DEF IInv, NoOrphanExchange, SessionsOK, Covered, Open
<1> QED
  BY <1>1, MessagingInvariant, PTL

\* With the session table full there is a session to evict, and which one is determined:
\* install_session never meets "no room and nothing to evict"
THEOREM EvictionDetermined ==
    Spec => [](Cardinality(sessions) >= MaxSessions => \E victim \in Live : LeastRecentlyUsed = {victim})
<1>1. IInv => (Cardinality(sessions) >= MaxSessions => \E victim \in Live : LeastRecentlyUsed = {victim})
  BY Zenon, VictimUnique DEF IInv
<1> QED
  BY <1>1, MessagingInvariant, PTL

\* allocate_id always finds an id, and one no exchange of that session uses
THEOREM AllocationSucceeds ==
    Spec => [](\A s \in SessionIds \cup {Unsecured} :
                    Allocated(s) \in ExchangeIds /\ ~InUse(s, Allocated(s)))
<1>1. IInv => \A s \in SessionIds \cup {Unsecured} :
                    Allocated(s) \in ExchangeIds /\ ~InUse(s, Allocated(s))
  BY Zenon, AllocatedFree DEF IInv
<1> QED
  BY <1>1, MessagingInvariant, PTL

-----------------------------------------------------------------------------
(* What may take an exchange that waits for an acknowledgement *)

\* An entry the reaper drops waits for no acknowledgement
LEMMA ReaperSpares ==
    ASSUME IInv, NEW key \in Open, IsAwaitingAck(exchanges[key].mrp)
    PROVE  key \in DOMAIN Reaped /\ key \in DOMAIN UnderPressure
<1>1. ~Abandoned(exchanges[key])
  BY Zenon DEF Abandoned
<1>2. key \in DOMAIN Reaped
  BY Zenon, <1>1, ReapKeeps DEF IInv
<1> QED
  BY Zenon, <1>2 DEF UnderPressure, Open

\* The ways out of the table for such an exchange
LEMMA PendingStep ==
    ASSUME IInv, Next, NEW key \in Open \ DOMAIN exchanges', IsAwaitingAck(exchanges[key].mrp)
    PROVE  \/ CloseExchange(key) \/ Acknowledge(key)
           \/ \E wait \in RetryWaits : Poll(key, wait) /\ GivesUp(exchanges[key].mrp)
           \/ SessionEnds(key.session)
<1> DEFINE Goal == \/ CloseExchange(key) \/ Acknowledge(key)
                   \/ \E wait \in RetryWaits : Poll(key, wait) /\ GivesUp(exchanges[key].mrp)
                   \/ SessionEnds(key.session)
<1> HIDE DEF Goal
<1>0. key \in DOMAIN Reaped /\ key \in DOMAIN UnderPressure /\ key \in DOMAIN exchanges
  BY Zenon, ReaperSpares DEF Open
<1>1. ASSUME NEW s \in SessionIds \cup {Unsecured}, OpenExchange(s) PROVE Goal
  <2>1. DOMAIN exchanges \subseteq DOMAIN exchanges'
    BY <1>1 DEF OpenExchange, OpenInitiator, Put
  <2> QED
    BY Zenon, <1>0, <2>1
<1>2. ASSUME NEW s \in SessionIds, OpenStale(s) PROVE Goal
  BY Zenon, <1>0, <1>2 DEF OpenStale
<1>3. ASSUME NEW s \in SessionIds, CloseSession(s) PROVE Goal
  <2>1. key.session = s
    BY Zenon, <1>3, CloseSessionStep
  <2> QED
    BY Zenon, <1>3, <2>1 DEF Goal, SessionEnds
<1>4. ASSUME NEW s \in SessionIds, NEW f \in Fabrics, Install(s, f) PROVE Goal
  BY Zenon, <1>0, <1>4 DEF Install
<1>5. ASSUME NEW s \in SessionIds, NEW f \in Fabrics, NEW victim, Evict(victim, s, f) PROVE Goal
  <2>1. key.session = victim
    BY Zenon, <1>0, <1>5, EvictStep
  <2> QED
    BY Zenon, <1>5, <2>1 DEF Goal, SessionEnds
<1>6. ASSUME NEW f \in Fabrics, RemoveFabric(f) PROVE Goal
  <2>1. PICK s \in sessions : s.fabric = f /\ s.id = key.session
    BY Zenon, <1>6, RemoveFabricStep
  <2>2. s = [id |-> key.session, fabric |-> f]
    BY <2>1 DEF IInv, SessionsOK
  <2> QED
    BY Zenon, <1>6, <2>2 DEF Goal, SessionEnds
<1>7. ASSUME NEW m \in Messages, NEW duplicate \in BOOLEAN, ReceiveRefused(m, duplicate) PROVE Goal
  BY Zenon, <1>0, <1>7, ReceiveRefusedStep
<1>8. ASSUME NEW m \in Messages, NEW duplicate \in BOOLEAN, Receive(m, duplicate) PROVE Goal
  <2>1. m.kind = "close" /\ ~duplicate /\ key.session = m.session
    BY Zenon, <1>0, <1>8, ReceiveStep
  <2>2. duplicate = FALSE
    BY Zenon, <2>1
  <2> QED
    BY Zenon, <1>8, <2>1, <2>2 DEF Goal, SessionEnds
<1>9. ASSUME NEW k \in Open, CloseExchange(k) PROVE Goal
  <2>1. key = k
    BY Zenon, <1>9, CloseExchangeStep
  <2> QED
    BY Zenon, <1>9, <2>1 DEF Goal
<1>10. ASSUME NEW k \in Open, Acknowledge(k) PROVE Goal
  <2>1. key = k
    BY Zenon, <1>10, AcknowledgeStep
  <2> QED
    BY Zenon, <1>10, <2>1 DEF Goal
<1>11. ASSUME NEW k \in Open, NEW reliable \in BOOLEAN, NEW wait \in RetryWaits,
              Send(k, reliable, wait)
       PROVE  Goal
  BY Zenon, <1>11, SendStep
<1>12. ASSUME NEW k \in Open, NEW wait \in RetryWaits, Poll(k, wait) PROVE Goal
  <2>1. key = k /\ GivesUp(exchanges[k].mrp)
    BY Zenon, <1>0, <1>12, PollStep
  <2> QED
    BY Zenon, <1>12, <2>1 DEF Goal
<1>13. ASSUME PollReap \/ Tick PROVE Goal
  BY Zenon, <1>0, <1>13, PollReapStep, TickStep
<1>14. Goal
  BY Zenon, <1>1, <1>2, <1>3, <1>4, <1>5, <1>6, <1>7, <1>8, <1>9, <1>10, <1>11, <1>12, <1>13 DEF Next
<1> QED
  BY Zenon, <1>14 DEF Goal

\* The reaper, on its timer and under pressure, never takes an exchange that still waits
\* for an acknowledgement (Exchange::is_abandoned)
THEOREM PendingExchangesKept == Spec => PendingNeverReaped
<1> DEFINE Kept == \A key \in Open \ DOMAIN exchanges' :
                     IsAwaitingAck(exchanges[key].mrp) =>
                       \/ CloseExchange(key) \/ Acknowledge(key)
                       \/ \E wait \in RetryWaits : Poll(key, wait) /\ GivesUp(exchanges[key].mrp)
                       \/ SessionEnds(key.session)
<1>1. IInv /\ [Next]_vars => [Kept]_vars
  BY Zenon, PendingStep
<1> QED
  BY <1>1, MessagingInvariant, PTL DEF Spec, PendingNeverReaped

\* A session that begins finds no exchange of an earlier session of its id: what a peer
\* left behind is gone by the time its id is used again (close_session, remove_fabric)
THEOREM FreshSessionHasNoExchange ==
    Spec => [][\A id \in Live' \ Live : \A key \in DOMAIN exchanges' : key.session # id]_vars
<1> DEFINE Fresh == \A id \in Live' \ Live : \A key \in DOMAIN exchanges' : key.session # id
<1>1. ASSUME IInv, Next PROVE Fresh
  <2>1. Preserved
    BY Zenon, <1>1, StepInvariant
  <2>2. \A key \in DOMAIN exchanges' : key.session \in Live \cup {Unsecured}
    BY Zenon, <2>1 DEF Preserved, Covered
  <2>3. Live' \subseteq SessionIds
    <3>1. \A s \in sessions' : s.id \in SessionIds
      BY <2>1 DEF Preserved, IInv, SessionsOK
    <3> QED
      BY Zenon, <3>1 DEF Live
  <2>4. Unsecured \notin Live'
    BY Zenon, <2>3, MessagingAssumption
  <2> QED
    BY Zenon, <2>2, <2>4
<1>2. IInv /\ [Next]_vars => [Fresh]_vars
  BY Zenon, <1>1
<1> QED
  BY <1>2, MessagingInvariant, PTL DEF Spec
=============================================================================
