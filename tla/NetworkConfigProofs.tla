------------------------- MODULE NetworkConfigProofs -------------------------
(***************************************************************************)
(* That the Networks list can always be taken back, for every capacity and *)
(* every set of networks and administrators.                               *)
(***************************************************************************)
EXTENDS NetworkConfig, TLAPS

\* What record_change relies on: a context that has changed the list left a
\* snapshot, so it need not take one again.
ChangedIsSaved == armed # None /\ armed.changed => saved # None

\* What a rollback will restore is the list that was last completed or reverted
\* to: the snapshot of record_change is the state the first change found.
SnapshotIsCommitted == saved # None => saved = committed

\* Whoever changed the list, the way back is there.
ChangeCanBeUndone == networks # committed => saved # None

Shape ==
  /\ networks \in Seq(Entry)
  /\ saved \in {None} \union Seq(Entry)
  /\ armed \in {None} \union Context

IInv ==
  Shape /\ ChangedIsSaved /\ SnapshotIsCommitted /\ ChangeCanBeUndone /\ ListIsHeld

\* The position NetworkStore::position finds is one of the list.
LEMMA PositionInList ==
  ASSUME NEW list \in Seq(Entry), NEW id \in Ids(list)
  PROVE  Position(list, id) \in 1..Len(list)
<1>1. PICK i \in DOMAIN list : list[i].id = id  BY DEF Ids
<1>2. Position(list, id) \in DOMAIN list  BY <1>1 DEF Position
<1> QED  BY <1>2

\* NetworkStore::remove and the remove-then-insert of reorder give lists again.
LEMMA ListOperations ==
  ASSUME NEW list \in Seq(Entry), NEW i \in 1..Len(list)
  PROVE  /\ RemoveAt(list, i) \in Seq(Entry)
         /\ \A to \in 1..Len(list) : Moved(list, i, to) \in Seq(Entry)
<1>1. \A s \in Seq(Entry) : \A a, b \in Nat : a >= 1 /\ b <= Len(s) => SubSeq(s, a, b) \in Seq(Entry)
  OBVIOUS
<1>2. RemoveAt(list, i) \in Seq(Entry) /\ Len(RemoveAt(list, i)) = Len(list) - 1
  <2>1. SubSeq(list, 1, i - 1) \in Seq(Entry) /\ SubSeq(list, i + 1, Len(list)) \in Seq(Entry)
    BY <1>1
  <2>2. Len(SubSeq(list, 1, i - 1)) = i - 1 /\ Len(SubSeq(list, i + 1, Len(list))) = Len(list) - i
    OBVIOUS
  <2>3. ASSUME NEW s \in Seq(Entry), NEW t \in Seq(Entry)
        PROVE  s \o t \in Seq(Entry) /\ Len(s \o t) = Len(s) + Len(t)
    OBVIOUS
  <2>4. RemoveAt(list, i) \in Seq(Entry)  BY <2>1, <2>3 DEF RemoveAt
  <2>5. Len(RemoveAt(list, i)) = (i - 1) + (Len(list) - i)
    BY ZenonT(60), <2>1, <2>2, <2>3 DEF RemoveAt
  <2>6. Len(list) \in Nat  OBVIOUS
  <2> QED  BY <2>4, <2>5, <2>6
<1>3. ASSUME NEW to \in 1..Len(list)  PROVE Moved(list, i, to) \in Seq(Entry)
  <2> DEFINE s == RemoveAt(list, i)
  <2> HIDE DEF s
  <2>1. s \in Seq(Entry) /\ Len(s) = Len(list) - 1  BY <1>2 DEF s
  <2>2. SubSeq(s, 1, to - 1) \in Seq(Entry) /\ SubSeq(s, to, Len(s)) \in Seq(Entry)
    BY <1>1, <2>1
  <2>3. list[i] \in Entry  OBVIOUS
  <2>4. InsertAt(s, to, list[i]) \in Seq(Entry)  BY <2>2, <2>3 DEF InsertAt
  <2> QED  BY <2>4 DEF Moved, s
<1> QED  BY <1>2, <1>3

\* set_connected keeps the list's networks.
LEMMA ConnectedIsList ==
  ASSUME NEW list \in Seq(Entry), NEW id
  PROVE  Connected(list, id) \in Seq(Entry)
<1>1. \A i \in DOMAIN list : [list[i] EXCEPT !.connected = list[i].id = id] \in Entry
  <2> TAKE i \in DOMAIN list
  <2>1. list[i] \in Entry  OBVIOUS
  <2>2. (list[i].id = id) \in BOOLEAN  OBVIOUS
  <2>3. ASSUME NEW e \in Entry, NEW b \in BOOLEAN  PROVE [e EXCEPT !.connected = b] \in Entry
    BY DEF Entry
  <2> QED  BY Zenon, <2>1, <2>2, <2>3
<1>2. Connected(list, id) \in [1..Len(list) -> Entry]  BY <1>1 DEF Connected
<1> QED  BY <1>2

\* Whatever a command does to the list once require_fail_safe and record_change
\* have passed, the way back is kept.
LEMMA CommandKeeps ==
  ASSUME IInv, RecordChange, networks' \in Seq(Entry)
  PROVE  IInv'
<1> USE NoneIsApart
<1>1. armed \in Context /\ armed' \in Context /\ armed' # None /\ armed'.changed
  BY Zenon DEF IInv, Shape, RecordChange, Live, Context
<1>2. saved' # None /\ saved' \in Seq(Entry) /\ saved' = committed'
  <2>1. CASE armed.changed
    BY <1>1, <2>1 DEF IInv, Shape, ChangedIsSaved, SnapshotIsCommitted, RecordChange
  <2>2. CASE ~armed.changed /\ saved = None
    BY <1>1, <2>2 DEF IInv, Shape, ChangeCanBeUndone, RecordChange, Snapshot
  <2>3. CASE ~armed.changed /\ saved # None
    BY Zenon, <1>1, <2>3 DEF IInv, Shape, SnapshotIsCommitted, RecordChange, Snapshot
  <2> QED  BY Zenon, <2>1, <2>2, <2>3
<1> QED
  BY Zenon, <1>1, <1>2 DEF IInv, Shape, ChangedIsSaved, SnapshotIsCommitted, ChangeCanBeUndone, ListIsHeld

\* A Cleanup leaves the committed list, whatever context comes next.
LEMMA RollbackKeeps ==
  ASSUME IInv, Rollback, armed' \in {None} \union {NewContext(f) : f \in Accessing}
  PROVE  IInv'
<1>1. networks' = committed' /\ networks' \in Seq(Entry) /\ saved' = None
  BY DEF IInv, Shape, Rollback, SnapshotIsCommitted, ChangeCanBeUndone
<1>2. armed' \in {None} \union Context /\ (armed' # None => ~armed'.changed)
  <2>1. ASSUME NEW f \in Accessing
        PROVE  NewContext(f) \in Context /\ NewContext(f).changed = FALSE
    BY DEF NewContext, Context
  <2> QED  BY Zenon, <2>1
<1> QED
  BY <1>1, <1>2 DEF IInv, Shape, ChangedIsSaved, SnapshotIsCommitted, ChangeCanBeUndone, ListIsHeld

\* The initial list is the committed one.
LEMMA InitHolds == Init => IInv
  BY DEF Init, IInv, Shape, ChangedIsSaved, SnapshotIsCommitted, ChangeCanBeUndone, ListIsHeld

\* Every step of the commands and of the fail-safe keeps the way back.
LEMMA NextHolds == IInv /\ [Next]_vars => IInv'
<1> SUFFICES ASSUME IInv, [Next]_vars  PROVE IInv'
  OBVIOUS
<1> USE NoneIsApart
<1>1. ASSUME NEW f \in Accessing, ArmFailSafe(f)  PROVE IInv'
  <2>1. CASE Lapsed
    BY Zenon, <1>1, <2>1, RollbackKeeps DEF ArmFailSafe
  <2>2. CASE ~Lapsed
    <3>1. armed = None /\ armed' \in Context /\ ~armed'.changed
      BY <1>1, <2>2 DEF ArmFailSafe, NewContext, Context, Live, Lapsed
    <3> QED
      BY Zenon, <1>1, <2>2, <3>1 DEF ArmFailSafe, NoOutcome, IInv, Shape, ChangedIsSaved,
                              SnapshotIsCommitted, ChangeCanBeUndone, ListIsHeld
  <2> QED  BY <2>1, <2>2
<1>2. ASSUME NEW f \in Accessing, Disarm(f)  PROVE IInv'
  BY <1>2, RollbackKeeps DEF Disarm
<1>3. ASSUME NEW f \in Fabrics, AdoptFabric(f)  PROVE IInv'
  <2>1. armed \in Context /\ armed' \in Context /\ armed'.changed = armed.changed
    BY <1>3 DEF AdoptFabric, HeldBy, Live, IInv, Shape, Context, Accessing
  <2> QED
    BY <1>3, <2>1 DEF AdoptFabric, NoOutcome, IInv, Shape, ChangedIsSaved,
                      SnapshotIsCommitted, ChangeCanBeUndone, ListIsHeld
<1>4. ASSUME NEW f \in Fabrics, Complete(f)  PROVE IInv'
  BY <1>4 DEF Complete, IInv, Shape, ChangedIsSaved, SnapshotIsCommitted, ChangeCanBeUndone,
              ListIsHeld
<1>5. ASSUME CompleteTooLate  PROVE IInv'
  BY Zenon, <1>5, RollbackKeeps DEF CompleteTooLate
<1>6. ASSUME Revoke  PROVE IInv'
  BY <1>6 DEF Revoke, IInv, Shape, ChangedIsSaved, SnapshotIsCommitted, ChangeCanBeUndone,
              ListIsHeld
<1>7. ASSUME Lapse  PROVE IInv'
  <2>1. armed \in Context /\ armed' \in Context /\ armed'.changed = armed.changed
    BY Zenon, <1>7 DEF Lapse, Live, IInv, Shape, Context
  <2> QED
    BY Zenon, <1>7, <2>1 DEF Lapse, NoOutcome, IInv, Shape, ChangedIsSaved,
                      SnapshotIsCommitted, ChangeCanBeUndone, ListIsHeld
<1>8. ASSUME NEW id \in NetworkIds, AddOrUpdate(id)  PROVE IInv'
  <2>1. [id |-> id, connected |-> FALSE] \in Entry  BY DEF Entry
  <2>2. networks' \in Seq(Entry)  BY <1>8, <2>1 DEF AddOrUpdate, IInv, Shape
  <2> QED  BY <1>8, <2>2, CommandKeeps DEF AddOrUpdate
<1>9. ASSUME NEW id \in NetworkIds, RemoveNetwork(id)  PROVE IInv'
  <2>1. networks \in Seq(Entry)  BY DEF IInv, Shape
  <2>2. networks' \in Seq(Entry)
    BY Zenon, <1>9, <2>1, PositionInList, ListOperations DEF RemoveNetwork
  <2> QED  BY Zenon, <1>9, <2>2, CommandKeeps DEF RemoveNetwork
<1>10. ASSUME AddRefused  PROVE IInv'
  <2>1. networks' \in Seq(Entry)  BY <1>10 DEF AddRefused, IInv, Shape
  <2> QED  BY Zenon, <1>10, <2>1, CommandKeeps DEF AddRefused
<1>11. ASSUME NEW id \in NetworkIds, NEW to \in 1..Capacity, ReorderNetwork(id, to)  PROVE IInv'
  <2>1. networks \in Seq(Entry)  BY DEF IInv, Shape
  <2>2. CASE id \in Ids(networks) /\ to <= Len(networks)
    <3>1. to \in 1..Len(networks)  BY <2>1, <2>2
    <3>2. Position(networks, id) \in 1..Len(networks)  BY Zenon, <2>1, <2>2, PositionInList
    <3>3. networks' \in Seq(Entry)
      BY Zenon, <1>11, <2>1, <2>2, <3>1, <3>2, ListOperations DEF ReorderNetwork
    <3> QED  BY Zenon, <1>11, <3>3, CommandKeeps DEF ReorderNetwork
  <2>3. CASE ~(id \in Ids(networks) /\ to <= Len(networks))
    <3>1. networks' \in Seq(Entry)  BY Zenon, <1>11, <2>1, <2>3 DEF ReorderNetwork
    <3> QED  BY <1>11, <3>1, CommandKeeps DEF ReorderNetwork
  <2> QED  BY Zenon, <2>2, <2>3
<1>12. ASSUME NEW id \in NetworkIds, NEW ok \in BOOLEAN, ConnectNetwork(id, ok)  PROVE IInv'
  <2>1. networks \in Seq(Entry)  BY DEF IInv, Shape
  <2>2. networks' \in Seq(Entry)  BY Zenon, <1>12, <2>1, ConnectedIsList DEF ConnectNetwork
  <2> QED  BY <1>12, <2>2, CommandKeeps DEF ConnectNetwork
<1>13. CASE UNCHANGED vars
  BY <1>13 DEF vars, IInv, Shape, ChangedIsSaved, SnapshotIsCommitted, ChangeCanBeUndone,
               ListIsHeld
<1> QED
  BY Zenon, <1>1, <1>2, <1>3, <1>4, <1>5, <1>6, <1>7, <1>8, <1>9, <1>10, <1>11, <1>12, <1>13
  DEF Next

\* The inductive invariant holds in every behaviour of the list and the fail-safe.
THEOREM NetworkInvariant == Spec => []IInv
  BY InitHolds, NextHolds, PTL DEF Spec

\* `restore` always brings back the list last completed or reverted to, and where there
\* is nothing to restore the list is that one.
THEOREM RollbackIsExact == Spec => []RollbackRestores
<1>1. IInv => RollbackRestores
  BY Zenon DEF IInv, SnapshotIsCommitted, ChangeCanBeUndone, RollbackRestores
<1> QED  BY <1>1, NetworkInvariant, PTL

\* A list nobody completed is held by a fail-safe context or by a dropped Cleanup.
THEOREM ListHeld == Spec => []ListIsHeld
<1>1. IInv => ListIsHeld  BY DEF IInv
<1> QED  BY <1>1, NetworkInvariant, PTL

-----------------------------------------------------------------------------
(* The lists themselves. *)

\* What every list the store can hold is: within its capacity, each network once,
\* at most one of them connected.
WellFormed(list) ==
  /\ list \in Seq(Entry) /\ Len(list) <= Capacity
  /\ \A i, j \in DOMAIN list :
       i # j => list[i].id # list[j].id /\ ~(list[i].connected /\ list[j].connected)

\* The list of today and the one a rollback restores are well formed.
ListsInv ==
  /\ WellFormed(networks) /\ WellFormed(committed)
  /\ known \subseteq NetworkIds /\ dropped \in BOOLEAN

\* Where an entry of the list after NetworkStore::remove was before it.
Before(i, j) == IF j < i THEN j ELSE j + 1

\* The same for reorder, which puts the entry back in another place.
BeforeMove(i, to, j) ==
  IF j < to THEN Before(i, j) ELSE IF j = to THEN i ELSE Before(i, j - 1)

\* What `remove` leaves, entry by entry.
LEMMA RemovedEntries ==
  ASSUME NEW list \in Seq(Entry), NEW i \in 1..Len(list)
  PROVE  /\ Len(RemoveAt(list, i)) = Len(list) - 1
         /\ \A j \in 1..(Len(list) - 1) : RemoveAt(list, i)[j] = list[Before(i, j)]
<1> DEFINE a == SubSeq(list, 1, i - 1)
           b == SubSeq(list, i + 1, Len(list))
<1>1. a \in Seq(Entry) /\ Len(a) = i - 1 /\ \A j \in 1..(i - 1) : a[j] = list[j]
  OBVIOUS
<1>2. b \in Seq(Entry) /\ Len(b) = Len(list) - i
      /\ \A j \in 1..(Len(list) - i) : b[j] = list[j + i]
  OBVIOUS
<1>3. RemoveAt(list, i) = a \o b  BY DEF RemoveAt
<1> HIDE DEF a, b
<1>4. Len(a \o b) = Len(list) - 1  BY <1>1, <1>2
<1>5. ASSUME NEW j \in 1..(Len(list) - 1)  PROVE (a \o b)[j] = list[Before(i, j)]
  <2>1. CASE j < i
    BY <1>1, <1>2, <2>1 DEF Before
  <2>2. CASE ~(j < i)
    <3>1. (a \o b)[j] = b[j - (i - 1)]  BY <1>1, <1>2, <2>2
    <3>2. b[j - (i - 1)] = list[j + 1]  BY <1>2, <2>2
    <3> QED  BY <2>2, <3>1, <3>2 DEF Before
  <2> QED  BY Zenon, <2>1, <2>2
<1> QED  BY Zenon, <1>3, <1>4, <1>5

\* The positions of `reorder`, relative to the place moved to.
LEMMA MovedPositions ==
  ASSUME NEW n \in Nat, NEW to \in 1..n, NEW j \in 1..n
  PROVE  /\ j < to \/ j = to \/ j > to
         /\ j < to => j \in 1..(to - 1) /\ j \in 1..(n - 1)
         /\ j = to => ~(j < to)
         /\ j > to => /\ j - to \in 1..(n - to) /\ to + (j - to) = j
                      /\ (j - to) + to - 1 = j - 1 /\ j - 1 \in 1..(n - 1)
                      /\ ~(j < to) /\ j # to
         /\ to \in 1..to
         /\ j < to => j \in 1..to
OBVIOUS

\* A position of the second of two sequences, in both together.
LEMMA Shifted ==
  ASSUME NEW m \in Nat, NEW n \in Nat, NEW j \in 1..n
  PROVE  m + j \in 1..(m + n) /\ m + j > m /\ (m + j) - m = j
OBVIOUS

\* A sequence with one more entry.
LEMMA AppendedEntries ==
  ASSUME NEW S, NEW a \in Seq(S), NEW e \in S
  PROVE  /\ a \o <<e>> \in Seq(S) /\ Len(a \o <<e>>) = Len(a) + 1
         /\ \A j \in 1..Len(a) : (a \o <<e>>)[j] = a[j]
         /\ (a \o <<e>>)[Len(a) + 1] = e
OBVIOUS

\* What `reorder` leaves, entry by entry.
LEMMA MovedEntries ==
  ASSUME NEW list \in Seq(Entry), NEW i \in 1..Len(list), NEW to \in 1..Len(list)
  PROVE  /\ Len(Moved(list, i, to)) = Len(list)
         /\ \A j \in 1..Len(list) : Moved(list, i, to)[j] = list[BeforeMove(i, to, j)]
<1> DEFINE r == RemoveAt(list, i)
           a == SubSeq(r, 1, to - 1)
           b == SubSeq(r, to, Len(r))
           e == list[i]
           n == Len(list)
<1>1. r \in Seq(Entry) /\ Len(r) = n - 1 /\ e \in Entry /\ n \in Nat
  BY RemovedEntries, ListOperations
<1>2. \A j \in 1..(n - 1) : r[j] = list[Before(i, j)]  BY RemovedEntries
<1>3. i \in 1..n /\ to \in 1..n  OBVIOUS
<1>4. Moved(list, i, to) = a \o <<e>> \o b  BY DEF Moved, InsertAt
<1> HIDE DEF r, e, n
<1>5. a \in Seq(Entry) /\ Len(a) = to - 1 /\ \A j \in 1..(to - 1) : a[j] = r[j]
  BY <1>1, <1>3
<1>6. b \in Seq(Entry) /\ Len(b) = n - to /\ \A j \in 1..(n - to) : b[j] = r[j + to - 1]
  BY <1>1, <1>3
<1> DEFINE c == a \o <<e>>
<1> HIDE DEF a, b
<1>7. /\ c \in Seq(Entry) /\ Len(c) = to
      /\ \A j \in 1..(to - 1) : c[j] = a[j]
      /\ c[to] = e
  <2>1. (to - 1) + 1 = to  BY <1>1, <1>3
  <2>2. /\ c \in Seq(Entry) /\ Len(c) = Len(a) + 1
        /\ \A j \in 1..Len(a) : c[j] = a[j]
        /\ c[Len(a) + 1] = e
    BY Zenon, <1>1, <1>5, AppendedEntries
  <2> QED  BY Zenon, <1>5, <2>1, <2>2
<1> HIDE DEF c
<1>8. /\ Len(c \o b) = n
      /\ \A j \in 1..to : (c \o b)[j] = c[j]
      /\ \A j \in 1..(n - to) : (c \o b)[to + j] = b[j]
  <2>1. to + (n - to) = n  BY <1>1, <1>3
  <2>2. /\ Len(c \o b) = Len(c) + Len(b)
        /\ \A j \in 1..Len(c) : (c \o b)[j] = c[j]
        /\ \A j \in 1..Len(b) : (c \o b)[Len(c) + j] = b[j]
    <3>1. c \in Seq(Entry) /\ b \in Seq(Entry)  BY Zenon, <1>6, <1>7
    <3>2. Len(c \o b) = Len(c) + Len(b)  BY <3>1
    <3>3. \A j \in 1..Len(c) : (c \o b)[j] = c[j]  BY <3>1
    <3>4. ASSUME NEW j \in 1..Len(b)  PROVE (c \o b)[Len(c) + j] = b[j]
      <4>1. Len(c) \in Nat /\ Len(b) \in Nat  BY <3>1
      <4>2. /\ Len(c) + j \in 1..(Len(c) + Len(b)) /\ Len(c) + j > Len(c)
            /\ (Len(c) + j) - Len(c) = j
        BY Zenon, <4>1, Shifted
      <4> QED  BY <3>1, <4>1, <4>2
    <3> QED  BY Zenon, <3>2, <3>3, <3>4
  <2> QED  BY Zenon, <1>6, <1>7, <2>1, <2>2
<1>9. ASSUME NEW j \in 1..n  PROVE (c \o b)[j] = list[BeforeMove(i, to, j)]
  <2>1. CASE j < to
    <3>1. (c \o b)[j] = c[j]  BY Zenon, <1>1, <1>3, <1>8, <2>1, MovedPositions
    <3>2. j \in 1..(to - 1) /\ j \in 1..(n - 1)  BY Zenon, <1>1, <1>3, <2>1, MovedPositions
    <3>3. c[j] = list[Before(i, j)]  BY Zenon, <1>2, <1>5, <1>7, <3>2
    <3> QED  BY Zenon, <2>1, <3>1, <3>3 DEF BeforeMove
  <2>2. CASE j = to
    <3>1. (c \o b)[j] = e  BY Zenon, <1>1, <1>3, <1>7, <1>8, <2>2, MovedPositions
    <3>2. ~(j < to)  BY Zenon, <1>1, <1>3, <2>2, MovedPositions
    <3> QED  BY Zenon, <2>2, <3>1, <3>2 DEF BeforeMove, e
  <2>3. CASE j > to
    <3>1. (c \o b)[j] = b[j - to]
      <4>1. j - to \in 1..(n - to) /\ to + (j - to) = j
        BY Zenon, <1>1, <1>3, <2>3, MovedPositions
      <4> QED  BY Zenon, <1>8, <4>1
    <3>2. j - to \in 1..(n - to) /\ (j - to) + to - 1 = j - 1 /\ j - 1 \in 1..(n - 1)
      BY Zenon, <1>1, <1>3, <2>3, MovedPositions
    <3>3. b[j - to] = r[j - 1]  BY Zenon, <1>6, <3>2
    <3>4. r[j - 1] = list[Before(i, j - 1)]  BY Zenon, <1>2, <3>2
    <3>5. ~(j < to) /\ j # to  BY Zenon, <1>1, <1>3, <2>3, MovedPositions
    <3> QED  BY Zenon, <3>1, <3>3, <3>4, <3>5 DEF BeforeMove
  <2>4. j < to \/ j = to \/ j > to  BY Zenon, <1>1, <1>3, MovedPositions
  <2> QED  BY Zenon, <2>1, <2>2, <2>3, <2>4
<1> QED  BY Zenon, <1>4, <1>8, <1>9 DEF n, c

\* `remove` keeps a list well formed.
LEMMA RemovedWellFormed ==
  ASSUME NEW list, WellFormed(list), NEW i \in 1..Len(list)
  PROVE  WellFormed(RemoveAt(list, i))
<1> USE CapacityAssumption
<1> DEFINE new == RemoveAt(list, i)
<1>1. list \in Seq(Entry) /\ Len(list) \in Nat /\ Len(list) <= Capacity  BY DEF WellFormed
<1>2. new \in Seq(Entry) /\ Len(new) = Len(list) - 1
      /\ \A j \in 1..(Len(list) - 1) : new[j] = list[Before(i, j)]
  BY Zenon, <1>1, ListOperations, RemovedEntries
<1> HIDE DEF new
<1>3. Len(new) <= Capacity /\ DOMAIN new = 1..(Len(list) - 1)  BY <1>1, <1>2
<1>4. ASSUME NEW j \in DOMAIN new, NEW k \in DOMAIN new, j # k
      PROVE  /\ Before(i, j) \in DOMAIN list /\ Before(i, k) \in DOMAIN list
             /\ Before(i, j) # Before(i, k)
  <2>1. \A n \in Nat : \A f \in 1..n, x, y \in 1..(n - 1) :
          x # y => Before(f, x) \in 1..n /\ Before(f, y) \in 1..n /\ Before(f, x) # Before(f, y)
    BY DEF Before
  <2>2. DOMAIN list = 1..Len(list)  BY <1>1
  <2> QED  BY Zenon, <1>1, <1>3, <1>4, <2>1, <2>2
<1>5. ASSUME NEW j \in DOMAIN new, NEW k \in DOMAIN new, j # k
      PROVE  new[j].id # new[k].id /\ ~(new[j].connected /\ new[k].connected)
  BY Zenon, <1>2, <1>3, <1>4, <1>5 DEF WellFormed
<1>6. WellFormed(new)  BY Zenon, <1>2, <1>3, <1>5 DEF WellFormed
<1> QED  BY Zenon, <1>6 DEF new

\* `reorder` keeps a list well formed.
LEMMA MovedWellFormed ==
  ASSUME NEW list, WellFormed(list), NEW i \in 1..Len(list), NEW to \in 1..Len(list)
  PROVE  WellFormed(Moved(list, i, to))
<1> DEFINE new == Moved(list, i, to)
<1>1. list \in Seq(Entry) /\ Len(list) \in Nat /\ Len(list) <= Capacity  BY DEF WellFormed
<1>2. new \in Seq(Entry)  BY Zenon, <1>1, ListOperations
<1>3. Len(new) = Len(list) /\ \A j \in 1..Len(list) : new[j] = list[BeforeMove(i, to, j)]
  BY Zenon, <1>1, MovedEntries
<1> HIDE DEF new
<1>4. DOMAIN new = 1..Len(list) /\ DOMAIN list = 1..Len(list)  BY <1>1, <1>2, <1>3
<1>5. ASSUME NEW n \in Nat, NEW f \in 1..n, NEW t \in 1..n, NEW j \in 1..n, NEW k \in 1..n, j # k
      PROVE  /\ BeforeMove(f, t, j) \in 1..n /\ BeforeMove(f, t, k) \in 1..n
             /\ BeforeMove(f, t, j) # BeforeMove(f, t, k)
  BY <1>5 DEF BeforeMove, Before
<1>6. ASSUME NEW j \in DOMAIN new, NEW k \in DOMAIN new, j # k
      PROVE  new[j].id # new[k].id /\ ~(new[j].connected /\ new[k].connected)
  <2>1. /\ BeforeMove(i, to, j) \in DOMAIN list /\ BeforeMove(i, to, k) \in DOMAIN list
        /\ BeforeMove(i, to, j) # BeforeMove(i, to, k)
    BY Zenon, <1>1, <1>4, <1>5, <1>6
  <2> QED  BY Zenon, <1>3, <1>4, <1>6, <2>1 DEF WellFormed
<1>7. WellFormed(new)  BY Zenon, <1>1, <1>2, <1>3, <1>6 DEF WellFormed
<1> QED  BY <1>7 DEF new

\* set_connected and set_all_disconnected keep a list well formed.
LEMMA ConnectedWellFormed ==
  ASSUME NEW list, WellFormed(list), NEW id
  PROVE  WellFormed(Connected(list, id))
<1> DEFINE new == Connected(list, id)
<1>1. list \in Seq(Entry) /\ Len(list) <= Capacity  BY DEF WellFormed
<1>2. new \in Seq(Entry)  BY Zenon, <1>1, ConnectedIsList
<1>3. DOMAIN new = DOMAIN list  BY DEF Connected
<1>4. Len(new) = Len(list)  BY <1>1, <1>2, <1>3
<1>5. ASSUME NEW j \in DOMAIN new
      PROVE  new[j].id = list[j].id /\ new[j].connected = (list[j].id = id)
  <2>1. list[j] \in Entry  BY <1>1, <1>3
  <2>2. new[j] = [list[j] EXCEPT !.connected = list[j].id = id]  BY <1>3 DEF Connected
  <2>3. ASSUME NEW e \in Entry, NEW b \in BOOLEAN
        PROVE  [e EXCEPT !.connected = b].id = e.id /\ [e EXCEPT !.connected = b].connected = b
    BY DEF Entry
  <2>4. (list[j].id = id) \in BOOLEAN  OBVIOUS
  <2> QED  BY Zenon, <2>1, <2>2, <2>3, <2>4
<1> HIDE DEF new
<1>6. ASSUME NEW j \in DOMAIN new, NEW k \in DOMAIN new, j # k
      PROVE  new[j].id # new[k].id /\ ~(new[j].connected /\ new[k].connected)
  <2>1. list[j].id # list[k].id  BY Zenon, <1>3, <1>6 DEF WellFormed
  <2> QED  BY Zenon, <1>5, <2>1
<1>7. WellFormed(new)  BY Zenon, <1>1, <1>2, <1>4, <1>6 DEF WellFormed
<1> QED  BY <1>7 DEF new

\* AddOrUpdateNetwork appends only a network that is not listed, where there is room.
LEMMA AppendedWellFormed ==
  ASSUME NEW list, WellFormed(list), NEW id \in NetworkIds, id \notin Ids(list),
         ~(Len(list) >= Capacity)
  PROVE  WellFormed(Append(list, [id |-> id, connected |-> FALSE]))
<1> USE CapacityAssumption
<1> DEFINE e == [id |-> id, connected |-> FALSE]
           new == Append(list, e)
<1>1. list \in Seq(Entry) /\ Len(list) \in Nat  BY DEF WellFormed
<1>2. e \in Entry /\ e.id = id /\ e.connected = FALSE  BY DEF Entry
<1> HIDE DEF e
<1>3. new \in Seq(Entry) /\ Len(new) = Len(list) + 1  BY <1>1, <1>2
<1>4. DOMAIN new = 1..(Len(list) + 1) /\ DOMAIN list = 1..Len(list)  BY <1>1, <1>3
<1>5. new[Len(list) + 1] = e /\ \A j \in 1..Len(list) : new[j] = list[j]  BY <1>1, <1>2
<1> HIDE DEF new
<1>6. Len(new) <= Capacity  BY <1>1, <1>3
<1>7. \A j \in 1..Len(list) : list[j].id # id  BY Zenon, <1>4 DEF Ids
<1>8. ASSUME NEW j \in DOMAIN new, NEW k \in DOMAIN new, j # k
      PROVE  new[j].id # new[k].id /\ ~(new[j].connected /\ new[k].connected)
  <2>1. \A m \in DOMAIN new : m \in 1..Len(list) \/ m = Len(list) + 1  BY <1>1, <1>4
  <2>2. CASE j \in 1..Len(list) /\ k \in 1..Len(list)
    BY Zenon, <1>4, <1>5, <1>8, <2>2 DEF WellFormed
  <2>3. CASE j \in 1..Len(list) /\ k = Len(list) + 1
    BY Zenon, <1>2, <1>5, <1>7, <2>3
  <2>4. CASE j = Len(list) + 1 /\ k \in 1..Len(list)
    BY Zenon, <1>2, <1>5, <1>7, <2>4
  <2> QED  BY Zenon, <1>8, <2>1, <2>2, <2>3, <2>4
<1>9. WellFormed(new)  BY Zenon, <1>3, <1>6, <1>8 DEF WellFormed
<1> QED  BY Zenon, <1>9 DEF new, e

\* The empty list of a new device is well formed.
LEMMA ListsInit == Init => ListsInv
<1> SUFFICES ASSUME Init  PROVE ListsInv
  OBVIOUS
<1>1. WellFormed(<<>>)  BY CapacityAssumption DEF WellFormed
<1> QED  BY Zenon, <1>1 DEF Init, ListsInv

\* Every command keeps the lists well formed, and so does a rollback, since the
\* snapshot it restores is the committed list.
LEMMA ListsNext == IInv /\ ListsInv /\ [Next]_vars => ListsInv'
<1> SUFFICES ASSUME IInv, ListsInv, [Next]_vars  PROVE ListsInv'
  OBVIOUS
<1>1. WellFormed(networks) /\ WellFormed(committed) /\ known \subseteq NetworkIds
      /\ dropped \in BOOLEAN
  BY DEF ListsInv
<1>2. networks \in Seq(Entry)  BY <1>1 DEF WellFormed
<1>3. ASSUME Rollback  PROVE ListsInv'
  <2>1. networks' = networks \/ networks' = committed
    BY <1>3 DEF Rollback, IInv, SnapshotIsCommitted
  <2>2. WellFormed(networks')  BY <1>1, <2>1
  <2> QED  BY Zenon, <1>1, <1>3, <2>2 DEF Rollback, ListsInv
<1>4. ASSUME NoOutcome  PROVE ListsInv'
  BY Zenon, <1>1, <1>4 DEF NoOutcome, ListsInv
<1>5. ASSUME RecordChange, WellFormed(networks'), known' \subseteq NetworkIds  PROVE ListsInv'
  BY Zenon, <1>1, <1>5 DEF RecordChange, ListsInv
<1>6. ASSUME NEW f \in Accessing, ArmFailSafe(f) \/ Disarm(f)  PROVE ListsInv'
  BY Zenon, <1>3, <1>4, <1>6 DEF ArmFailSafe, Disarm
<1>7. ASSUME NEW f \in Fabrics, AdoptFabric(f) \/ Complete(f)  PROVE ListsInv'
  <2>1. CASE AdoptFabric(f)  BY Zenon, <1>4, <2>1 DEF AdoptFabric
  <2>2. CASE Complete(f)
    BY Zenon, <1>1, <2>2 DEF Complete, ListsInv
  <2> QED  BY Zenon, <1>7, <2>1, <2>2
<1>8. ASSUME CompleteTooLate \/ Revoke \/ Lapse  PROVE ListsInv'
  <2>1. CASE CompleteTooLate  BY Zenon, <1>3, <2>1 DEF CompleteTooLate
  <2>2. CASE Revoke  BY Zenon, <1>1, <2>2 DEF Revoke, ListsInv
  <2>3. CASE Lapse  BY Zenon, <1>4, <2>3 DEF Lapse
  <2> QED  BY Zenon, <1>8, <2>1, <2>2, <2>3
<1>9. ASSUME NEW id \in NetworkIds, AddOrUpdate(id)  PROVE ListsInv'
  <2>1. WellFormed(networks')
    BY Zenon, <1>1, <1>9, AppendedWellFormed DEF AddOrUpdate
  <2>2. known' \subseteq NetworkIds  BY Zenon, <1>1, <1>9 DEF AddOrUpdate
  <2> QED  BY Zenon, <1>5, <1>9, <2>1, <2>2 DEF AddOrUpdate
<1>10. ASSUME NEW id \in NetworkIds, RemoveNetwork(id)  PROVE ListsInv'
  <2>1. WellFormed(networks')
    BY Zenon, <1>1, <1>2, <1>10, PositionInList, RemovedWellFormed DEF RemoveNetwork
  <2>2. known' \subseteq NetworkIds  BY Zenon, <1>1, <1>10 DEF RemoveNetwork
  <2> QED  BY Zenon, <1>5, <1>10, <2>1, <2>2 DEF RemoveNetwork
<1>11. ASSUME AddRefused  PROVE ListsInv'
  BY Zenon, <1>1, <1>5, <1>11 DEF AddRefused
<1>12. ASSUME NEW id \in NetworkIds, NEW to \in 1..Capacity, ReorderNetwork(id, to)
       PROVE  ListsInv'
  <2>1. to <= Len(networks) => to \in 1..Len(networks)  BY <1>2, CapacityAssumption
  <2>2. WellFormed(networks')
    BY Zenon, <1>1, <1>2, <1>12, <2>1, PositionInList, MovedWellFormed DEF ReorderNetwork
  <2> QED  BY ZenonT(60), <1>1, <1>5, <1>12, <2>2 DEF ReorderNetwork
<1>13. ASSUME NEW id \in NetworkIds, NEW ok \in BOOLEAN, ConnectNetwork(id, ok)
       PROVE  ListsInv'
  <2>1. WellFormed(networks')  BY Zenon, <1>1, <1>13, ConnectedWellFormed DEF ConnectNetwork
  <2> QED  BY ZenonT(60), <1>1, <1>5, <1>13, <2>1 DEF ConnectNetwork
<1>14. CASE UNCHANGED vars
  BY Zenon, <1>1, <1>14 DEF vars, ListsInv
<1> QED
  BY Zenon, <1>6, <1>7, <1>8, <1>9, <1>10, <1>11, <1>12, <1>13, <1>14 DEF Next

\* The list never exceeds its capacity, names a network twice or has two of them
\* connected, whatever is added, reordered, removed, restored or completed.
THEOREM ListWellFormed == Spec => []TypeOK
<1>1. IInv /\ ListsInv => TypeOK
  BY DEF IInv, Shape, ListsInv, WellFormed, TypeOK
<1>2. Spec => []ListsInv
  BY NetworkInvariant, ListsInit, ListsNext, PTL DEF Spec
<1> QED  BY <1>1, <1>2, NetworkInvariant, PTL
==============================================================================
