--------------------------- MODULE ReportingProofs ---------------------------
(***************************************************************************)
(* Every safety property of Reporting, for any number of subscribers,      *)
(* paths, events, restarts and sizes of the tables. The argument goes from *)
(* one message of a report (ChunkMeans), over one subscription and what    *)
(* its subscriber was sent (Good, and the lemmas that each operation of    *)
(* im/subscription.rs keeps it), to the table (TableInv), the round of the *)
(* loop (RoundInv), and the invariant of the whole (Inv).                  *)
(***************************************************************************)
EXTENDS Reporting, FiniteSetTheorems, WellFoundedInduction, TLAPS

USE EventAssumption

\* The least of some numbers.
LEMMA Smallest ==
    ASSUME NEW S \in SUBSET Nat, S # {}
    PROVE  Min(S) \in S /\ \A x \in S : Min(S) <= x
<1>1. \E x \in S : \A y \in S : ~(<<y, x>> \in OpToRel(<, Nat))
  BY Zenon, WFMin, NatLessThanWellFounded
<1>2. PICK x \in S : \A y \in S : ~(<<y, x>> \in OpToRel(<, Nat))
  BY Zenon, <1>1
<1>3. ASSUME NEW y \in S PROVE x <= y
  <2>1. x \in Nat /\ y \in Nat
    OBVIOUS
  <2>2. <<y, x>> \in Nat \X Nat /\ <<y, x>>[1] = y /\ <<y, x>>[2] = x
    BY <2>1
  <2>3. ~(y < x)
    BY Zenon, <1>2, <2>2 DEF OpToRel
  <2> QED BY <2>1, <2>3
<1> QED BY Zenon, <1>3 DEF Min

\* The greatest of some numbers that have a bound.
LEMMA Greatest ==
    ASSUME NEW S \in SUBSET Nat, S # {}, NEW b \in Nat, \A x \in S : x <= b
    PROVE  Max(S) \in S /\ \A x \in S : x <= Max(S)
<1> DEFINE T == {b - x : x \in S}
<1>1. T \in SUBSET Nat /\ T # {}
  <2>1. \A x \in S : b - x \in Nat
    OBVIOUS
  <2> QED BY Zenon, <2>1
<1> HIDE DEF T
<1>2. Min(T) \in T /\ \A y \in T : Min(T) <= y
  BY Zenon, <1>1, Smallest
<1>3. PICK m \in S : Min(T) = b - m
  BY Zenon, <1>2 DEF T
<1>4. \A x \in S : b - m <= b - x
  BY Zenon, <1>2, <1>3 DEF T
<1>5. \A x \in S : m >= x
  BY <1>4
<1>6. Max(S) \in S /\ \A x \in S : Max(S) >= x
  BY Zenon, <1>5 DEF Max
<1> QED BY <1>6
-----------------------------------------------------------------------------
(* What one message carries *)

\* Every record in the rings has a number that was given out.
LogBehind == \A p \in Priorities : \A r \in log[p] : r.number \in Nat /\ r.number < issued

\* An event that waits is one of a path not served yet, from the path's floor on.
LEMMA WaitingMeans ==
    ASSUME LogBehind, issued \in Nat, NEW kinds \in Seq(Kinds), NEW cursor \in Cursor,
           NEW x \in Waiting(kinds, cursor)
    PROVE  /\ x[1] \in cursor.eventPath + 1 .. Len(kinds) /\ x[1] \in Nat
           /\ x[2] \in Nat /\ x[2] >= Floor(cursor, x[1]) /\ x[2] + 1 <= issued
<1>1. PICK i \in cursor.eventPath + 1 .. Len(kinds) :
          x \in {<<i, r.number>> : r \in Matching(kinds[i], Floor(cursor, i))}
  BY Zenon DEF Waiting
<1>2. PICK r \in Matching(kinds[i], Floor(cursor, i)) : x = <<i, r.number>>
  BY Zenon, <1>1
<1>3. r.number >= Floor(cursor, i) /\ \E p \in Priorities : r \in log[p]
  BY Zenon, <1>2 DEF Matching
<1>4. r.number \in Nat /\ r.number < issued
  BY Zenon, <1>3 DEF LogBehind
<1>5. x[1] = i /\ x[2] = r.number
  BY <1>2
<1>6. i \in Nat
  <2>1. cursor.eventPath \in Nat /\ Len(kinds) \in Nat
    BY DEF Cursor
  <2> QED BY <2>1
<1>7. r.number + 1 <= issued
  BY <1>4
<1> QED BY Zenon, <1>3, <1>4, <1>5, <1>6, <1>7

\* What serve_event_path sends and where it leaves the cursor and the bookmark.
LEMMA ServeMeans ==
    ASSUME LogBehind, issued \in Nat, NEW kinds \in Seq(Kinds), NEW cursor \in Cursor,
           cursor.eventFrom <= issued, NEW room
    PROVE  LET e == ServeEvents(kinds, cursor, room)
           IN  /\ e.fits \in BOOLEAN /\ e.path \in Nat
               /\ e.from \in 0 .. issued /\ e.through \in 0 .. issued
               /\ \A x \in e.sent :
                      /\ x[2] \in Nat /\ x[2] < e.through
                      /\ x[1] = 1 => cursor.eventPath = 0 /\ x[2] >= cursor.eventFrom
               /\ ~e.fits /\ e.path = 0 =>
                      /\ cursor.eventPath = 0 /\ e.from >= cursor.eventFrom
                      /\ \A x \in e.sent : x[1] = 1 => x[2] < e.from
<1> DEFINE waiting == Waiting(kinds, cursor)
           sent == {x \in waiting : Cardinality({y \in waiting : Precedes(y, x)}) < room}
           stop == Min({x[1] : x \in waiting \ sent})
           Past(i) == {x[2] + 1 : x \in {y \in sent : y[1] = i}}
           served == cursor.eventPath < Len(kinds)
           through == Max({IF served THEN cursor.eventFrom ELSE 0} \cup {x[2] + 1 : x \in sent})
           from == Max({Floor(cursor, stop)} \cup Past(stop))
           e == ServeEvents(kinds, cursor, room)
<1>1. e = [sent |-> sent, fits |-> sent = waiting,
           path |-> IF sent = waiting THEN Len(kinds) ELSE stop - 1,
           from |-> IF sent # waiting THEN from
                    ELSE IF served THEN 0 ELSE cursor.eventFrom,
           through |-> through]
  BY Zenon DEF ServeEvents
<1>2. /\ e.sent = sent /\ e.fits = (sent = waiting)
      /\ e.path = (IF sent = waiting THEN Len(kinds) ELSE stop - 1)
      /\ e.from = (IF sent # waiting THEN from ELSE IF served THEN 0 ELSE cursor.eventFrom)
      /\ e.through = through
  <2> HIDE DEF sent, waiting, stop, from, through, served, e
  <2> QED BY <1>1
<1>3. /\ cursor.eventPath \in Nat /\ cursor.eventFrom \in Nat /\ Len(kinds) \in Nat
  BY DEF Cursor
<1>4. sent \subseteq waiting
  BY Zenon
<1>5. \A x \in waiting :
          /\ x[1] \in Nat /\ x[1] > cursor.eventPath /\ x[1] <= Len(kinds)
          /\ x[2] \in Nat /\ x[2] >= Floor(cursor, x[1]) /\ x[2] + 1 <= issued
  <2>1. \A x \in waiting :
            /\ x[1] \in cursor.eventPath + 1 .. Len(kinds) /\ x[1] \in Nat
            /\ x[2] \in Nat /\ x[2] >= Floor(cursor, x[1]) /\ x[2] + 1 <= issued
    BY Zenon, WaitingMeans
  <2> HIDE DEF waiting
  <2>2. \A i \in cursor.eventPath + 1 .. Len(kinds) : i > cursor.eventPath /\ i <= Len(kinds)
    BY <1>3
  <2> QED BY Zenon, <2>1, <2>2
<1>6. \A x \in waiting : x[1] = 1 => cursor.eventPath = 0 /\ x[2] >= cursor.eventFrom
  <2> HIDE DEF waiting
  <2> QED BY <1>3, <1>5 DEF Floor
<1> HIDE DEF waiting, sent
<1>7. through \in 0 .. issued /\ \A x \in sent : x[2] < through
  <2> DEFINE S == {IF served THEN cursor.eventFrom ELSE 0} \cup {x[2] + 1 : x \in sent}
  <2>1. \A x \in sent : x[2] + 1 \in Nat /\ x[2] + 1 <= issued /\ x[2] + 1 \in S
    BY <1>4, <1>5
  <2>2. (IF served THEN cursor.eventFrom ELSE 0) \in Nat
        /\ (IF served THEN cursor.eventFrom ELSE 0) <= issued
    BY <1>3
  <2>3. S \in SUBSET Nat /\ S # {} /\ \A n \in S : n <= issued
    BY Zenon, <2>1, <2>2
  <2> HIDE DEF S
  <2>4. Max(S) \in S /\ \A n \in S : n <= Max(S)
    BY Zenon, <2>3, Greatest
  <2>5. Max(S) \in 0 .. issued /\ Max(S) \in Nat
    <3>1. \A n \in Nat : n <= issued => n \in 0 .. issued
      OBVIOUS
    <3> QED BY Zenon, <2>3, <2>4, <3>1
  <2>6. \A x \in sent : x[2] \in Nat /\ x[2] + 1 <= Max(S)
    BY Zenon, <1>4, <1>5, <2>1, <2>4
  <2>7. \A x \in sent : x[2] < Max(S)
    BY <2>5, <2>6
  <2> QED BY Zenon, <2>5, <2>7 DEF S
<1>8. ASSUME sent # waiting
      PROVE  /\ stop \in Nat /\ stop > cursor.eventPath
             /\ from \in 0 .. issued
             /\ stop = 1 =>
                    /\ cursor.eventPath = 0 /\ from >= cursor.eventFrom
                    /\ \A x \in sent : x[1] = 1 => x[2] < from
  <2> DEFINE R == {x[1] : x \in waiting \ sent}
             S == {Floor(cursor, stop)} \cup Past(stop)
  <2>1. R \in SUBSET Nat /\ R # {}
    BY Zenon, <1>4, <1>5, <1>8
  <2>2. stop \in R
    BY Zenon, <2>1, Smallest
  <2>3. stop \in Nat /\ stop > cursor.eventPath
    BY Zenon, <1>5, <2>2
  <2> HIDE DEF R, stop
  <2>4. Floor(cursor, stop) \in Nat /\ Floor(cursor, stop) <= issued
    BY <1>3 DEF Floor
  <2>5. \A x \in sent : x[2] + 1 \in Nat /\ x[2] + 1 <= issued /\ x[2] \in Nat
    BY <1>4, <1>5
  <2>6. S \in SUBSET Nat /\ S # {} /\ \A n \in S : n <= issued
    BY Zenon, <2>4, <2>5
  <2>7. Floor(cursor, stop) \in S /\ \A x \in sent : x[1] = stop => x[2] + 1 \in S
    BY Zenon
  <2>8. from = Max(S)
    BY Zenon
  <2> HIDE DEF S, from
  <2>9. from \in S /\ \A n \in S : n <= from
    BY Zenon, <2>6, <2>8, Greatest
  <2>10. from \in 0 .. issued /\ from \in Nat
    BY <2>6, <2>9
  <2>11. ASSUME stop = 1
         PROVE  /\ cursor.eventPath = 0 /\ from >= cursor.eventFrom
                /\ \A x \in sent : x[1] = 1 => x[2] < from
    <3>1. cursor.eventPath = 0 /\ Floor(cursor, stop) = cursor.eventFrom
      BY <1>3, <2>3, <2>11 DEF Floor
    <3>2. cursor.eventFrom <= from
      BY Zenon, <2>7, <2>9, <3>1
    <3>3. \A x \in sent : x[1] = 1 => x[2] + 1 <= from
      BY Zenon, <2>7, <2>9, <2>11
    <3> QED BY <1>3, <2>5, <2>10, <3>1, <3>2, <3>3
  <2> QED BY Zenon, <2>3, <2>10, <2>11
<1> HIDE DEF stop, from, through, served, e
<1>9. e.fits \in BOOLEAN /\ e.path \in Nat /\ e.from \in 0 .. issued /\ e.through \in 0 .. issued
  <2>1. CASE sent = waiting
    BY <1>2, <1>3, <1>7, <2>1
  <2>2. CASE sent # waiting
    BY <1>2, <1>3, <1>7, <1>8, <2>2
  <2> QED BY <2>1, <2>2
<1>10. \A x \in e.sent :
           /\ x[2] \in Nat /\ x[2] < e.through
           /\ x[1] = 1 => cursor.eventPath = 0 /\ x[2] >= cursor.eventFrom
  BY Zenon, <1>2, <1>4, <1>5, <1>6, <1>7
<1>11. ASSUME ~e.fits, e.path = 0
       PROVE  /\ cursor.eventPath = 0 /\ e.from >= cursor.eventFrom
              /\ \A x \in e.sent : x[1] = 1 => x[2] < e.from
  <2>1. sent # waiting /\ e.path = stop - 1 /\ e.from = from /\ e.sent = sent
    BY Zenon, <1>2, <1>11
  <2>2. stop = 1
    BY <1>8, <1>11, <2>1
  <2> QED BY Zenon, <1>8, <2>1, <2>2
<1> QED BY Zenon, <1>9, <1>10, <1>11 DEF e
\* A subscription the table can hold: typed, and no bookmark above the numbers given out.
Sound(s, n) ==
    /\ s \in Subscription /\ Len(s.dirty) <= DirtyPaths
    /\ s.from <= n /\ s.through <= n /\ s.cursor.eventFrom <= n

\* What a report still has to carry.
Remaining(s) == {List(s)[i] : i \in Resumed(s).path + 1 .. Len(List(s))}

\* Where a message begins, typed.
LEMMA ResumedTypes ==
    ASSUME NEW n \in Nat, NEW s, Sound(s, n)
    PROVE  /\ Resumed(s) \in Cursor /\ Resumed(s).eventFrom <= n
           /\ Resumed(s).done = FALSE
           /\ s.cursor.done => Resumed(s).path = 0 /\ Resumed(s).eventPath = 0
                               /\ Resumed(s).eventFrom = s.from
           /\ s.cursor = START => Resumed(s).path = 0 /\ Resumed(s).eventPath = 0
                                  /\ Resumed(s).eventFrom = s.from
           /\ ~s.cursor.done /\ s.cursor # START => Resumed(s) = s.cursor
           /\ ~PartWay(s) => Resumed(s).path = 0
<1>1. s.cursor \in Cursor /\ s.from \in Nat /\ s.from <= n /\ s.cursor.eventFrom <= n
  BY DEF Sound, Subscription
<1>2. /\ START \in Cursor /\ START.done = FALSE
      /\ [START EXCEPT !.eventFrom = s.from]
             = [path |-> 0, eventPath |-> 0, eventFrom |-> s.from, done |-> FALSE]
      /\ [START EXCEPT !.eventFrom = s.from] \in Cursor
  <2>1. START \in Cursor /\ START.done = FALSE
    BY DEF START, Cursor
  <2>2. [START EXCEPT !.eventFrom = s.from]
            = [path |-> 0, eventPath |-> 0, eventFrom |-> s.from, done |-> FALSE]
    <3>1. ASSUME NEW c \in Cursor, NEW v \in Nat
          PROVE  [c EXCEPT !.eventFrom = v] = [path |-> c.path, eventPath |-> c.eventPath,
                                               eventFrom |-> v, done |-> c.done]
      BY DEF Cursor
    <3>2. START.path = 0 /\ START.eventPath = 0 /\ START.done = FALSE
      BY DEF START
    <3> QED BY Zenon, <1>1, <2>1, <3>1, <3>2
  <2>3. [path |-> 0, eventPath |-> 0, eventFrom |-> s.from, done |-> FALSE] \in Cursor
    BY <1>1 DEF Cursor
  <2> QED BY Zenon, <2>1, <2>2, <2>3
<1>3. s.cursor.done \in BOOLEAN
  BY <1>1 DEF Cursor
<1>4. CASE s.cursor.done \/ s.cursor = START
  <2>1. Resumed(s) = [START EXCEPT !.eventFrom = s.from]
    BY Zenon, <1>4 DEF Resumed
  <2>2. Resumed(s) = [path |-> 0, eventPath |-> 0, eventFrom |-> s.from, done |-> FALSE]
    BY Zenon, <1>2, <2>1
  <2>3. /\ Resumed(s).path = 0 /\ Resumed(s).eventPath = 0 /\ Resumed(s).eventFrom = s.from
        /\ Resumed(s).done = FALSE
    BY <2>2
  <2> QED BY Zenon, <1>1, <1>2, <1>4, <2>1, <2>3
<1>5. CASE ~s.cursor.done /\ s.cursor # START
  <2>1. Resumed(s) = s.cursor
    BY Zenon, <1>5 DEF Resumed
  <2> QED BY Zenon, <1>1, <1>3, <1>5, <2>1 DEF PartWay
<1> QED BY Zenon, <1>4, <1>5

\* The list of a report is a sequence of what was asked for or what has changed.
LEMMA ListTypes ==
    ASSUME NEW n, NEW s, Sound(s, n)
    PROVE  /\ List(s) \in Seq(Attributes) /\ Len(List(s)) \in Nat
           /\ Asked(s).paths \in Seq(Attributes) /\ Asked(s).kinds \in Seq(Kinds)
           /\ Asked(s).min \in Nat /\ Asked(s).max \in Nat \ {0} /\ Asked(s).min <= Asked(s).max
<1>1. s.peer \in Peers /\ s.dirty \in Seq(Attributes)
  BY DEF Sound, Subscription
<1>2. /\ Request[s.peer] \in [paths : Seq(Attributes), kinds : Seq(Kinds),
                              urgent : SUBSET Kinds, min : Nat, max : Nat \ {0}]
      /\ Request[s.peer].min <= Request[s.peer].max
  BY Zenon, <1>1, ReportingAssumption
<1>3. /\ Asked(s).paths \in Seq(Attributes) /\ Asked(s).kinds \in Seq(Kinds)
      /\ Asked(s).min \in Nat /\ Asked(s).max \in Nat \ {0} /\ Asked(s).min <= Asked(s).max
  BY <1>2 DEF Asked
<1>4. List(s) \in Seq(Attributes)
  BY Zenon, <1>1, <1>3 DEF List
<1> QED BY <1>3, <1>4

\* The parts of Server::report_chunk's message, named.
Through(s) == LET c == Resumed(s) IN
    IF c.path >= Len(List(s)) THEN c.path ELSE Least(c.path + ChunkSize, Len(List(s)))
Cut(s) == Through(s) < Len(List(s))
Served(s) ==
    ServeEvents(Asked(s).kinds, Resumed(s), ChunkSize - (Through(s) - Resumed(s).path))
NewCursor(s) ==
    IF Cut(s) THEN [Resumed(s) EXCEPT !.path = Through(s)]
    ELSE [path |-> Through(s), eventPath |-> Served(s).path, eventFrom |-> Served(s).from,
          done |-> Served(s).fits]
NewThrough(s) == IF Cut(s) THEN s.through ELSE Larger(s.through, Served(s).through)

\* What the parts are, and how far a message gets.
LEMMA PartTypes ==
    ASSUME NEW s, Sound(s, issued), LogBehind, issued \in Nat
    PROVE  /\ Resumed(s).path \in Nat /\ Resumed(s).eventPath \in Nat
           /\ Resumed(s).eventFrom \in Nat
           /\ Through(s) \in Nat /\ Resumed(s).path <= Through(s)
           /\ Resumed(s).path < Len(List(s)) => Through(s) <= Len(List(s))
           /\ Served(s).fits \in BOOLEAN
           /\ Served(s).from \in 0 .. issued /\ Served(s).through \in 0 .. issued
           /\ \A x \in Served(s).sent :
                  /\ x[2] \in Nat /\ x[2] < Served(s).through
                  /\ x[1] = 1 => Resumed(s).eventPath = 0 /\ x[2] >= Resumed(s).eventFrom
           /\ ~Served(s).fits /\ Served(s).path = 0 =>
                  /\ Resumed(s).eventPath = 0 /\ Served(s).from >= Resumed(s).eventFrom
                  /\ \A x \in Served(s).sent : x[1] = 1 => x[2] < Served(s).from
           /\ NewCursor(s) \in Cursor /\ NewCursor(s).path = Through(s)
           /\ NewCursor(s).eventFrom <= issued
           /\ NewCursor(s).done = (~Cut(s) /\ Served(s).fits)
           /\ Cut(s) => NewCursor(s).eventPath = Resumed(s).eventPath
                        /\ NewCursor(s).eventFrom = Resumed(s).eventFrom
           /\ ~Cut(s) => NewCursor(s).eventPath = Served(s).path
                         /\ NewCursor(s).eventFrom = Served(s).from
           /\ NewThrough(s) \in Nat /\ NewThrough(s) <= issued /\ NewThrough(s) >= s.through
           /\ ~Cut(s) => NewThrough(s) >= Served(s).through
<1>2. /\ Resumed(s) \in Cursor /\ Resumed(s).eventFrom <= issued /\ Resumed(s).done = FALSE
      /\ List(s) \in Seq(Attributes) /\ Len(List(s)) \in Nat /\ Asked(s).kinds \in Seq(Kinds)
  BY Zenon, ResumedTypes, ListTypes
<1>3. Resumed(s).path \in Nat /\ Resumed(s).eventPath \in Nat /\ Resumed(s).eventFrom \in Nat
  BY <1>2 DEF Cursor
<1>4. /\ Through(s) \in Nat /\ Resumed(s).path <= Through(s)
      /\ Cut(s) => Resumed(s).path < Through(s)
      /\ Resumed(s).path < Len(List(s)) => Through(s) <= Len(List(s))
  <2> DEFINE a == Resumed(s).path  l == Len(List(s))
  <2>1. a \in Nat /\ l \in Nat /\ ChunkSize \in Nat \ {0}
    BY <1>2, <1>3, ReportingAssumption
  <2>2. Through(s) = IF a >= l THEN a ELSE Least(a + ChunkSize, l)
    BY Zenon DEF Through
  <2>3. Cut(s) = (Through(s) < l)
    BY Zenon DEF Cut
  <2> HIDE DEF a, l
  <2> DEFINE z == Through(s)
  <2> HIDE DEF z
  <2>4. z = IF a >= l THEN a ELSE IF a + ChunkSize < l THEN a + ChunkSize ELSE l
    BY Zenon, <2>2 DEF Least, z
  <2>5. z \in Nat /\ a <= z /\ (z < l => a < z) /\ (a < l => z <= l)
    BY <2>1, <2>4
  <2> QED BY Zenon, <2>3, <2>5 DEF a, l, z
<1>5. /\ Served(s).fits \in BOOLEAN /\ Served(s).path \in Nat
      /\ Served(s).from \in 0 .. issued /\ Served(s).through \in 0 .. issued
      /\ \A x \in Served(s).sent :
             /\ x[2] \in Nat /\ x[2] < Served(s).through
             /\ x[1] = 1 => Resumed(s).eventPath = 0 /\ x[2] >= Resumed(s).eventFrom
      /\ ~Served(s).fits /\ Served(s).path = 0 =>
             /\ Resumed(s).eventPath = 0 /\ Served(s).from >= Resumed(s).eventFrom
             /\ \A x \in Served(s).sent : x[1] = 1 => x[2] < Served(s).from
  BY Zenon, <1>2, ServeMeans DEF Served
<1>6. /\ s.peer \in Peers /\ s.bound \in BOOLEAN /\ s.age \in Nat /\ s.dirty \in Seq(Attributes)
      /\ s.full \in BOOLEAN /\ s.urgent \in BOOLEAN /\ s.from \in Nat /\ s.through \in Nat
      /\ s.from <= issued /\ s.through <= issued /\ Len(s.dirty) <= DirtyPaths
  BY DEF Sound, Subscription
<1>7. /\ NewCursor(s) \in Cursor /\ NewCursor(s).path = Through(s)
      /\ NewCursor(s).eventFrom <= issued
      /\ NewCursor(s).done = (~Cut(s) /\ Served(s).fits)
      /\ Cut(s) => NewCursor(s).eventPath = Resumed(s).eventPath
                   /\ NewCursor(s).eventFrom = Resumed(s).eventFrom
      /\ ~Cut(s) => NewCursor(s).eventPath = Served(s).path
                    /\ NewCursor(s).eventFrom = Served(s).from
  <2>1. CASE Cut(s)
    <3>1. NewCursor(s) = [path |-> Through(s), eventPath |-> Resumed(s).eventPath,
                          eventFrom |-> Resumed(s).eventFrom, done |-> FALSE]
      <4>1. ASSUME NEW c \in Cursor, NEW n \in Nat
            PROVE  [c EXCEPT !.path = n] = [path |-> n, eventPath |-> c.eventPath,
                                            eventFrom |-> c.eventFrom, done |-> c.done]
        BY DEF Cursor
      <4> QED BY Zenon, <1>2, <1>4, <2>1, <4>1 DEF NewCursor
    <3>2. NewCursor(s) \in Cursor
      BY <1>3, <1>4, <3>1 DEF Cursor
    <3>3. /\ NewCursor(s).path = Through(s) /\ NewCursor(s).eventPath = Resumed(s).eventPath
          /\ NewCursor(s).eventFrom = Resumed(s).eventFrom /\ NewCursor(s).done = FALSE
      BY <3>1
    <3> QED BY Zenon, <1>2, <2>1, <3>2, <3>3
  <2>2. CASE ~Cut(s)
    <3>1. NewCursor(s) = [path |-> Through(s), eventPath |-> Served(s).path,
                          eventFrom |-> Served(s).from, done |-> Served(s).fits]
      BY Zenon, <2>2 DEF NewCursor
    <3>2. Served(s).from \in Nat /\ Served(s).from <= issued
      BY <1>5
    <3>3. NewCursor(s) \in Cursor
      BY <1>4, <1>5, <3>1, <3>2 DEF Cursor
    <3>4. /\ NewCursor(s).path = Through(s) /\ NewCursor(s).eventPath = Served(s).path
          /\ NewCursor(s).eventFrom = Served(s).from /\ NewCursor(s).done = Served(s).fits
      BY <3>1
    <3> QED BY Zenon, <1>5, <2>2, <3>2, <3>3, <3>4
  <2> QED BY Zenon, <2>1, <2>2
<1>8. /\ NewThrough(s) \in Nat /\ NewThrough(s) <= issued /\ NewThrough(s) >= s.through
      /\ ~Cut(s) => NewThrough(s) >= Served(s).through
  <2>1. Served(s).through \in Nat /\ Served(s).through <= issued
    BY <1>5
  <2> QED BY <1>6, <2>1 DEF NewThrough, Larger
<1> QED BY Zenon, <1>3, <1>4, <1>5, <1>7, <1>8

\* They are what Chunk is made of.
LEMMA ChunkParts ==
    ASSUME NEW s, Sound(s, issued), LogBehind, issued \in Nat
    PROVE  /\ Chunk(s).paths = {List(s)[i] : i \in Resumed(s).path + 1 .. Through(s)}
           /\ Chunk(s).numbers = IF Cut(s) THEN {}
                                 ELSE {x[2] : x \in {y \in Served(s).sent : y[1] = 1}}
           /\ Chunk(s).more = (Cut(s) \/ ~Served(s).fits)
           /\ Chunk(s).sub = [peer |-> s.peer, bound |-> s.bound, age |-> s.age,
                              dirty |-> s.dirty, full |-> s.full, cursor |-> NewCursor(s),
                              urgent |-> s.urgent, from |-> s.from, through |-> NewThrough(s)]
<1>1. Served(s).fits \in BOOLEAN
  <2>1. Resumed(s) \in Cursor /\ Resumed(s).eventFrom <= issued /\ Asked(s).kinds \in Seq(Kinds)
    BY Zenon, ResumedTypes, ListTypes
  <2> QED BY Zenon, <2>1, ServeMeans DEF Served
<1> DEFINE cursor == IF Cut(s) THEN [Resumed(s) EXCEPT !.path = Through(s)]
                     ELSE [path |-> Through(s), eventPath |-> Served(s).path,
                           eventFrom |-> Served(s).from,
                           done |-> ~(Cut(s) \/ ~Served(s).fits)]
<1>2. cursor = NewCursor(s)
  BY Zenon, <1>1 DEF NewCursor
<1>3. Chunk(s) = [paths |-> {List(s)[i] : i \in Resumed(s).path + 1 .. Through(s)},
                  numbers |-> IF Cut(s) THEN {}
                              ELSE {x[2] : x \in {y \in Served(s).sent : y[1] = 1}},
                  more |-> Cut(s) \/ ~Served(s).fits,
                  sub |-> [s EXCEPT !.cursor = cursor,
                                    !.through = IF Cut(s) THEN @
                                                ELSE Larger(@, Served(s).through)]]
  BY Zenon DEF Chunk, Through, Cut, Served
<1> HIDE DEF cursor
<1>4. [s EXCEPT !.cursor = cursor,
                !.through = IF Cut(s) THEN @ ELSE Larger(@, Served(s).through)]
          = [peer |-> s.peer, bound |-> s.bound, age |-> s.age, dirty |-> s.dirty,
             full |-> s.full, cursor |-> NewCursor(s), urgent |-> s.urgent, from |-> s.from,
             through |-> NewThrough(s)]
  <2>1. s \in Subscription
    BY Zenon DEF Sound
  <2>2. ASSUME NEW c \in Cursor, NEW t \in Nat
        PROVE  [s EXCEPT !.cursor = c, !.through = t]
                   = [peer |-> s.peer, bound |-> s.bound, age |-> s.age, dirty |-> s.dirty,
                      full |-> s.full, cursor |-> c, urgent |-> s.urgent, from |-> s.from,
                      through |-> t]
    <3>1. [s EXCEPT !.cursor = c, !.through = t]
              = [[s EXCEPT !.cursor = c] EXCEPT !.through = t]
      BY Zenon, <2>1 DEF Subscription
    <3>2. ASSUME NEW x \in Subscription
          PROVE  [x EXCEPT !.cursor = c]
                     = [peer |-> x.peer, bound |-> x.bound, age |-> x.age, dirty |-> x.dirty,
                        full |-> x.full, cursor |-> c, urgent |-> x.urgent, from |-> x.from,
                        through |-> x.through]
      BY SMTT(60) DEF Subscription
    <3>3. ASSUME NEW x \in Subscription
          PROVE  [x EXCEPT !.through = t]
                     = [peer |-> x.peer, bound |-> x.bound, age |-> x.age, dirty |-> x.dirty,
                        full |-> x.full, cursor |-> x.cursor, urgent |-> x.urgent,
                        from |-> x.from, through |-> t]
      BY SMTT(60) DEF Subscription
    <3> DEFINE y == [s EXCEPT !.cursor = c]
    <3>4. y = [peer |-> s.peer, bound |-> s.bound, age |-> s.age, dirty |-> s.dirty,
               full |-> s.full, cursor |-> c, urgent |-> s.urgent, from |-> s.from,
               through |-> s.through]
      BY Zenon, <2>1, <3>2
    <3> HIDE DEF y
    <3>5. /\ y \in Subscription /\ y.peer = s.peer /\ y.bound = s.bound /\ y.age = s.age
          /\ y.dirty = s.dirty /\ y.full = s.full /\ y.cursor = c /\ y.urgent = s.urgent
          /\ y.from = s.from
      BY <2>1, <3>4 DEF Subscription
    <3> QED BY Zenon, <3>1, <3>3, <3>5 DEF y
  <2>3. cursor \in Cursor /\ NewThrough(s) \in Nat
    BY Zenon, <1>2, PartTypes
  <2>4. (IF Cut(s) THEN s.through ELSE Larger(s.through, Served(s).through)) = NewThrough(s)
    BY Zenon DEF NewThrough
  <2> QED BY Zenon, <1>2, <2>2, <2>3, <2>4
<1> QED BY <1>3, <1>4
\* What a message of a report does: the subscription stays sound, what the report still has
\* to carry is in the message or left for the next, and events go out in one direction.
LEMMA ChunkMeans ==
    ASSUME NEW s, Sound(s, issued), LogBehind, issued \in Nat
    PROVE  LET c == Chunk(s)
           IN  /\ Sound(c.sub, issued) /\ c.more \in BOOLEAN /\ c.numbers \subseteq Nat
               /\ c.paths \subseteq Attributes
               /\ c.sub.peer = s.peer /\ c.sub.bound = s.bound /\ c.sub.age = s.age
               /\ c.sub.dirty = s.dirty /\ c.sub.full = s.full /\ c.sub.urgent = s.urgent
               /\ c.sub.from = s.from
               /\ ~c.more => Remaining(s) \subseteq c.paths /\ c.sub.cursor.done
               /\ c.more => Remaining(s) \ c.paths \subseteq Remaining(c.sub)
               /\ c.sub.through >= s.through
               /\ \A n \in c.numbers : /\ n < c.sub.through
                                       /\ Resumed(s).eventPath = 0 /\ n >= Resumed(s).eventFrom
               /\ c.more /\ Resumed(c.sub).eventPath = 0 =>
                      /\ Resumed(s).eventPath = 0
                      /\ Resumed(c.sub).eventFrom >= Resumed(s).eventFrom
                      /\ \A n \in c.numbers : n < Resumed(c.sub).eventFrom
<1> DEFINE c == Chunk(s)
           sub == [peer |-> s.peer, bound |-> s.bound, age |-> s.age, dirty |-> s.dirty,
                   full |-> s.full, cursor |-> NewCursor(s), urgent |-> s.urgent,
                   from |-> s.from, through |-> NewThrough(s)]
<1>1. /\ c.paths = {List(s)[i] : i \in Resumed(s).path + 1 .. Through(s)}
      /\ c.numbers = IF Cut(s) THEN {} ELSE {x[2] : x \in {y \in Served(s).sent : y[1] = 1}}
      /\ c.more = (Cut(s) \/ ~Served(s).fits)
      /\ c.sub = sub
  BY Zenon, ChunkParts
<1> HIDE DEF c
<1>2. /\ Resumed(s) \in Cursor
      /\ List(s) \in Seq(Attributes) /\ Len(List(s)) \in Nat /\ Asked(s).kinds \in Seq(Kinds)
  BY Zenon, ResumedTypes, ListTypes
<1>3. Resumed(s).path \in Nat /\ Resumed(s).eventPath \in Nat /\ Resumed(s).eventFrom \in Nat
  BY Zenon, PartTypes
<1>4. /\ Through(s) \in Nat /\ Resumed(s).path <= Through(s)
      /\ Resumed(s).path < Len(List(s)) => Through(s) <= Len(List(s))
  BY Zenon, PartTypes
<1>5. /\ Served(s).fits \in BOOLEAN
      /\ Served(s).from \in 0 .. issued /\ Served(s).through \in 0 .. issued
      /\ \A x \in Served(s).sent :
             /\ x[2] \in Nat /\ x[2] < Served(s).through
             /\ x[1] = 1 => Resumed(s).eventPath = 0 /\ x[2] >= Resumed(s).eventFrom
      /\ ~Served(s).fits /\ Served(s).path = 0 =>
             /\ Resumed(s).eventPath = 0 /\ Served(s).from >= Resumed(s).eventFrom
             /\ \A x \in Served(s).sent : x[1] = 1 => x[2] < Served(s).from
  BY Zenon, PartTypes
<1>6. /\ s.peer \in Peers /\ s.bound \in BOOLEAN /\ s.age \in Nat /\ s.dirty \in Seq(Attributes)
      /\ s.full \in BOOLEAN /\ s.urgent \in BOOLEAN /\ s.from \in Nat /\ s.through \in Nat
      /\ s.from <= issued /\ s.through <= issued /\ Len(s.dirty) <= DirtyPaths
  BY DEF Sound, Subscription
<1>7. /\ NewCursor(s) \in Cursor /\ NewCursor(s).path = Through(s)
      /\ NewCursor(s).eventFrom <= issued
      /\ NewCursor(s).done = (~Cut(s) /\ Served(s).fits)
      /\ Cut(s) => NewCursor(s).eventPath = Resumed(s).eventPath
                   /\ NewCursor(s).eventFrom = Resumed(s).eventFrom
      /\ ~Cut(s) => NewCursor(s).eventPath = Served(s).path
                    /\ NewCursor(s).eventFrom = Served(s).from
  BY Zenon, PartTypes
<1>8. /\ NewThrough(s) \in Nat /\ NewThrough(s) <= issued /\ NewThrough(s) >= s.through
      /\ ~Cut(s) => NewThrough(s) >= Served(s).through
  BY Zenon, PartTypes
<1>9. /\ sub \in Subscription
      /\ sub.peer = s.peer /\ sub.bound = s.bound /\ sub.age = s.age /\ sub.dirty = s.dirty
      /\ sub.full = s.full /\ sub.urgent = s.urgent /\ sub.from = s.from
      /\ sub.cursor = NewCursor(s) /\ sub.through = NewThrough(s)
  BY <1>6, <1>7, <1>8 DEF Subscription
<1> HIDE DEF sub
<1>10. Sound(sub, issued)
  BY Zenon, <1>6, <1>7, <1>8, <1>9 DEF Sound
<1>11. /\ sub.cursor.done => Resumed(sub).path = 0 /\ Resumed(sub).eventPath = 0
                             /\ Resumed(sub).eventFrom = sub.from
       /\ sub.cursor = START => Resumed(sub).path = 0 /\ Resumed(sub).eventPath = 0
                                /\ Resumed(sub).eventFrom = sub.from
       /\ ~sub.cursor.done /\ sub.cursor # START => Resumed(sub) = sub.cursor
  BY Zenon, <1>10, ResumedTypes
<1>12. List(sub) = List(s)
  BY Zenon, <1>9 DEF List, Asked
<1>13. c.more \in BOOLEAN
  BY Zenon, <1>1
<1>14. c.paths \subseteq Attributes
  <2>1. ASSUME NEW i \in Resumed(s).path + 1 .. Through(s) PROVE List(s)[i] \in Attributes
    <3> DEFINE a == Resumed(s).path  z == Through(s)  l == Len(List(s))
    <3>0. a \in Nat /\ z \in Nat /\ l \in Nat /\ a <= z /\ (a < l => z <= l) /\ i \in a + 1 .. z
          /\ z = IF a >= l THEN a ELSE Least(a + ChunkSize, l)
      BY Zenon, <1>2, <1>3, <1>4 DEF Through
    <3> HIDE DEF a, z, l
    <3>1. i \in 1 .. l
      BY <3>0
    <3>2. i \in 1 .. Len(List(s))
      BY Zenon, <3>1 DEF l
    <3> QED BY <1>2, <3>2
  <2> QED BY Zenon, <1>1, <2>1
<1>15. c.numbers \subseteq Nat /\ \A n \in c.numbers :
            /\ n < sub.through /\ Resumed(s).eventPath = 0 /\ n >= Resumed(s).eventFrom
  <2>1. CASE Cut(s)
    BY Zenon, <1>1, <2>1
  <2>2. CASE ~Cut(s)
    <3>1. ASSUME NEW n \in c.numbers
          PROVE  /\ n \in Nat /\ n < Served(s).through
                 /\ Resumed(s).eventPath = 0 /\ n >= Resumed(s).eventFrom
      <4>1. PICK x \in Served(s).sent : x[1] = 1 /\ n = x[2]
        <5>1. n \in {x[2] : x \in {y \in Served(s).sent : y[1] = 1}}
          BY Zenon, <1>1, <2>2
        <5> QED BY Zenon, <5>1
      <4> QED BY Zenon, <1>5, <4>1
    <3>2. Served(s).through \in Nat /\ sub.through \in Nat /\ Served(s).through <= sub.through
      BY <1>5, <1>8, <1>9, <2>2
    <3>3. \A n \in c.numbers : n < sub.through
      BY <3>1, <3>2
    <3> QED BY Zenon, <3>1, <3>3
  <2> QED BY Zenon, <2>1, <2>2
<1>16. ASSUME ~c.more
       PROVE  Remaining(s) \subseteq c.paths /\ sub.cursor.done
  <2>1. ~Cut(s) /\ Served(s).fits
    BY Zenon, <1>1, <1>16
  <2>2. Len(List(s)) <= Through(s)
    BY <1>2, <1>4, <2>1 DEF Cut
  <2>3. \A i \in Resumed(s).path + 1 .. Len(List(s)) : i \in Resumed(s).path + 1 .. Through(s)
    BY <1>2, <1>3, <1>4, <2>2
  <2>4. Remaining(s) \subseteq c.paths
    BY Zenon, <1>1, <2>3 DEF Remaining
  <2> QED BY Zenon, <1>7, <1>9, <2>1, <2>4
<1>17. ASSUME c.more
       PROVE  Remaining(s) \ c.paths \subseteq Remaining(sub)
  <2>1. sub.cursor.done = FALSE
    BY Zenon, <1>1, <1>7, <1>9, <1>17
  <2>2. Resumed(sub).path <= Through(s) /\ Resumed(sub).path \in Nat
    <3>1. CASE sub.cursor = START
      BY <1>4, <1>11, <3>1
    <3>2. CASE sub.cursor # START
      BY <1>4, <1>7, <1>9, <1>11, <2>1, <3>2
    <3> QED BY <3>1, <3>2
  <2>3. ASSUME NEW i \in Resumed(s).path + 1 .. Len(List(s)), List(s)[i] \notin c.paths
        PROVE  i \in Resumed(sub).path + 1 .. Len(List(s))
    <3>1. i \notin Resumed(s).path + 1 .. Through(s)
      BY Zenon, <1>1, <2>3
    <3> QED BY <1>2, <1>3, <1>4, <2>2, <3>1
  <2> QED BY Zenon, <1>12, <2>3 DEF Remaining
<1>18. ASSUME c.more, Resumed(sub).eventPath = 0
       PROVE  /\ Resumed(s).eventPath = 0 /\ Resumed(sub).eventFrom >= Resumed(s).eventFrom
              /\ \A n \in c.numbers : n < Resumed(sub).eventFrom
  <2>1. sub.cursor.done = FALSE
    BY Zenon, <1>1, <1>7, <1>9, <1>18
  <2>2. NewCursor(s).eventPath = 0 /\ Resumed(sub).eventFrom >= NewCursor(s).eventFrom
        /\ Resumed(sub).eventFrom \in Nat /\ NewCursor(s).eventFrom \in Nat
    <3>1. CASE sub.cursor = START
      <4>1. NewCursor(s).eventPath = 0 /\ NewCursor(s).eventFrom = 0
        BY <1>9, <3>1 DEF START
      <4>2. Resumed(sub).eventFrom = s.from
        BY Zenon, <1>9, <1>11, <3>1
      <4> QED BY <1>6, <4>1, <4>2
    <3>2. CASE sub.cursor # START
      <4>1. Resumed(sub) = NewCursor(s)
        BY Zenon, <1>9, <1>11, <2>1, <3>2
      <4>2. NewCursor(s).eventFrom \in Nat
        BY Zenon, <1>7 DEF Cursor
      <4> QED BY <1>18, <4>1, <4>2
    <3> QED BY <3>1, <3>2
  <2>3. CASE Cut(s)
    <3>1. c.numbers = {}
      BY Zenon, <1>1, <2>3
    <3> QED BY Zenon, <1>3, <1>7, <2>2, <2>3, <3>1
  <2>4. CASE ~Cut(s)
    <3>1. /\ Resumed(s).eventPath = 0 /\ Served(s).from >= Resumed(s).eventFrom
          /\ \A x \in Served(s).sent : x[1] = 1 => x[2] < Served(s).from
      BY Zenon, <1>1, <1>5, <1>7, <1>18, <2>2, <2>4
    <3>2. ASSUME NEW n \in c.numbers PROVE n < Served(s).from /\ n \in Nat
      <4>1. n \in {x[2] : x \in {y \in Served(s).sent : y[1] = 1}}
        BY Zenon, <1>1, <2>4
      <4>2. PICK x \in Served(s).sent : x[1] = 1 /\ n = x[2]
        BY Zenon, <4>1
      <4> QED BY ZenonT(60), <1>15, <3>1, <4>2
    <3>3. Served(s).from \in Nat /\ Resumed(sub).eventFrom >= Served(s).from
      BY <1>5, <1>7, <2>2, <2>4
    <3> QED BY <1>3, <2>2, <3>1, <3>2, <3>3
  <2> QED BY Zenon, <2>3, <2>4
<1> QED BY Zenon, <1>1, <1>8, <1>9, <1>10, <1>13, <1>14, <1>15, <1>16, <1>17, <1>18 DEF c
-----------------------------------------------------------------------------
(* What one subscription and its subscriber are to each other *)

\* One field of a subscription set.
LEMMA SetField ==
    ASSUME NEW s \in Subscription
    PROVE  /\ \A v \in Seq(Attributes) :
                  [s EXCEPT !.dirty = v]
                      = [peer |-> s.peer, bound |-> s.bound, age |-> s.age, dirty |-> v,
                         full |-> s.full, cursor |-> s.cursor, urgent |-> s.urgent,
                         from |-> s.from, through |-> s.through]
           /\ \A v \in BOOLEAN :
                  [s EXCEPT !.full = v]
                      = [peer |-> s.peer, bound |-> s.bound, age |-> s.age, dirty |-> s.dirty,
                         full |-> v, cursor |-> s.cursor, urgent |-> s.urgent,
                         from |-> s.from, through |-> s.through]
           /\ \A v \in BOOLEAN :
                  [s EXCEPT !.urgent = v]
                      = [peer |-> s.peer, bound |-> s.bound, age |-> s.age, dirty |-> s.dirty,
                         full |-> s.full, cursor |-> s.cursor, urgent |-> v,
                         from |-> s.from, through |-> s.through]
           /\ \A v \in BOOLEAN :
                  [s EXCEPT !.bound = v]
                      = [peer |-> s.peer, bound |-> v, age |-> s.age, dirty |-> s.dirty,
                         full |-> s.full, cursor |-> s.cursor, urgent |-> s.urgent,
                         from |-> s.from, through |-> s.through]
           /\ \A v \in Nat :
                  [s EXCEPT !.age = v]
                      = [peer |-> s.peer, bound |-> s.bound, age |-> v, dirty |-> s.dirty,
                         full |-> s.full, cursor |-> s.cursor, urgent |-> s.urgent,
                         from |-> s.from, through |-> s.through]
           /\ \A v \in Nat :
                  [s EXCEPT !.from = v]
                      = [peer |-> s.peer, bound |-> s.bound, age |-> s.age, dirty |-> s.dirty,
                         full |-> s.full, cursor |-> s.cursor, urgent |-> s.urgent,
                         from |-> v, through |-> s.through]
           /\ \A v \in Cursor :
                  [s EXCEPT !.cursor = v]
                      = [peer |-> s.peer, bound |-> s.bound, age |-> s.age, dirty |-> s.dirty,
                         full |-> s.full, cursor |-> v, urgent |-> s.urgent,
                         from |-> s.from, through |-> s.through]
           /\ \A v \in Nat :
                  [s EXCEPT !.through = v]
                      = [peer |-> s.peer, bound |-> s.bound, age |-> s.age, dirty |-> s.dirty,
                         full |-> s.full, cursor |-> s.cursor, urgent |-> s.urgent,
                         from |-> s.from, through |-> v]
<1>1. ASSUME NEW v \in Seq(Attributes)
      PROVE  [s EXCEPT !.dirty = v]
                 = [peer |-> s.peer, bound |-> s.bound, age |-> s.age, dirty |-> v,
                    full |-> s.full, cursor |-> s.cursor, urgent |-> s.urgent,
                    from |-> s.from, through |-> s.through]
  BY SMTT(60) DEF Subscription
<1>2. ASSUME NEW v \in BOOLEAN
      PROVE  [s EXCEPT !.full = v]
                 = [peer |-> s.peer, bound |-> s.bound, age |-> s.age, dirty |-> s.dirty,
                    full |-> v, cursor |-> s.cursor, urgent |-> s.urgent,
                    from |-> s.from, through |-> s.through]
  BY SMTT(60) DEF Subscription
<1>3. ASSUME NEW v \in BOOLEAN
      PROVE  [s EXCEPT !.urgent = v]
                 = [peer |-> s.peer, bound |-> s.bound, age |-> s.age, dirty |-> s.dirty,
                    full |-> s.full, cursor |-> s.cursor, urgent |-> v,
                    from |-> s.from, through |-> s.through]
  BY SMTT(60) DEF Subscription
<1>4. ASSUME NEW v \in BOOLEAN
      PROVE  [s EXCEPT !.bound = v]
                 = [peer |-> s.peer, bound |-> v, age |-> s.age, dirty |-> s.dirty,
                    full |-> s.full, cursor |-> s.cursor, urgent |-> s.urgent,
                    from |-> s.from, through |-> s.through]
  BY SMTT(60) DEF Subscription
<1>5. ASSUME NEW v \in Nat
      PROVE  [s EXCEPT !.age = v]
                 = [peer |-> s.peer, bound |-> s.bound, age |-> v, dirty |-> s.dirty,
                    full |-> s.full, cursor |-> s.cursor, urgent |-> s.urgent,
                    from |-> s.from, through |-> s.through]
  BY SMTT(60) DEF Subscription
<1>6. ASSUME NEW v \in Nat
      PROVE  [s EXCEPT !.from = v]
                 = [peer |-> s.peer, bound |-> s.bound, age |-> s.age, dirty |-> s.dirty,
                    full |-> s.full, cursor |-> s.cursor, urgent |-> s.urgent,
                    from |-> v, through |-> s.through]
  BY DEF Subscription
<1>7. ASSUME NEW v \in Cursor
      PROVE  [s EXCEPT !.cursor = v]
                 = [peer |-> s.peer, bound |-> s.bound, age |-> s.age, dirty |-> s.dirty,
                    full |-> s.full, cursor |-> v, urgent |-> s.urgent,
                    from |-> s.from, through |-> s.through]
  BY DEF Subscription
<1>8. ASSUME NEW v \in Nat
      PROVE  [s EXCEPT !.through = v]
                 = [peer |-> s.peer, bound |-> s.bound, age |-> s.age, dirty |-> s.dirty,
                    full |-> s.full, cursor |-> s.cursor, urgent |-> s.urgent,
                    from |-> s.from, through |-> v]
  BY SMTT(60) DEF Subscription
<1> QED BY Zenon, <1>1, <1>2, <1>3, <1>4, <1>5, <1>6, <1>7, <1>8

\* The parts of a subscription.
LEMMA Parts ==
    ASSUME NEW s \in Subscription
    PROVE  /\ s.peer \in Peers /\ s.bound \in BOOLEAN /\ s.age \in Nat
           /\ s.dirty \in Seq(Attributes) /\ s.full \in BOOLEAN /\ s.cursor \in Cursor
           /\ s.urgent \in BOOLEAN /\ s.from \in Nat /\ s.through \in Nat
  BY DEF Subscription

\* The parts of what is known of a subscriber, and two of them set.
LEMMA TwinParts ==
    ASSUME NEW w \in Twin
    PROVE  /\ w.stale \subseteq Attributes /\ w.lapsed \subseteq Attributes
           /\ w.delivered \subseteq Nat /\ w.failed \in BOOLEAN
           /\ w = [stale |-> w.stale, lapsed |-> w.lapsed, delivered |-> w.delivered,
                   failed |-> w.failed]
  BY DEF Twin

\* Parts of what is known of a subscriber set.
LEMMA TwinSet ==
    ASSUME NEW w \in Twin
    PROVE  /\ \A v : [w EXCEPT !.lapsed = v] = [stale |-> w.stale, lapsed |-> v,
                                                delivered |-> w.delivered, failed |-> w.failed]
           /\ \A v : [w EXCEPT !.delivered = v] = [stale |-> w.stale, lapsed |-> w.lapsed,
                                                   delivered |-> v, failed |-> w.failed]
           /\ \A u, v : [w EXCEPT !.stale = u, !.lapsed = v]
                            = [stale |-> u, lapsed |-> v, delivered |-> w.delivered,
                               failed |-> w.failed]
           /\ \A u, v : [w EXCEPT !.failed = u, !.lapsed = v]
                            = [stale |-> w.stale, lapsed |-> v, delivered |-> w.delivered,
                               failed |-> u]
<1>1. ASSUME NEW v
      PROVE  [w EXCEPT !.lapsed = v] = [stale |-> w.stale, lapsed |-> v,
                                        delivered |-> w.delivered, failed |-> w.failed]
  BY DEF Twin
<1>2. ASSUME NEW v
      PROVE  [w EXCEPT !.delivered = v] = [stale |-> w.stale, lapsed |-> w.lapsed,
                                           delivered |-> v, failed |-> w.failed]
  BY DEF Twin
<1>3. ASSUME NEW u, NEW v
      PROVE  [w EXCEPT !.stale = u, !.lapsed = v]
                 = [stale |-> u, lapsed |-> v, delivered |-> w.delivered, failed |-> w.failed]
  <2>1. [w EXCEPT !.stale = u, !.lapsed = v] = [[w EXCEPT !.stale = u] EXCEPT !.lapsed = v]
    BY Zenon DEF Twin
  <2>2. [w EXCEPT !.stale = u] = [stale |-> u, lapsed |-> w.lapsed, delivered |-> w.delivered,
                                  failed |-> w.failed]
    BY DEF Twin
  <2>3. [[stale |-> u, lapsed |-> w.lapsed, delivered |-> w.delivered, failed |-> w.failed]
            EXCEPT !.lapsed = v]
          = [stale |-> u, lapsed |-> v, delivered |-> w.delivered, failed |-> w.failed]
    OBVIOUS
  <2> QED BY Zenon, <2>1, <2>2, <2>3
<1>4. ASSUME NEW u, NEW v
      PROVE  [w EXCEPT !.failed = u, !.lapsed = v]
                 = [stale |-> w.stale, lapsed |-> v, delivered |-> w.delivered, failed |-> u]
  <2>1. [w EXCEPT !.failed = u, !.lapsed = v] = [[w EXCEPT !.failed = u] EXCEPT !.lapsed = v]
    BY Zenon DEF Twin
  <2>2. [w EXCEPT !.failed = u] = [stale |-> w.stale, lapsed |-> w.lapsed,
                                   delivered |-> w.delivered, failed |-> u]
    BY DEF Twin
  <2>3. [[stale |-> w.stale, lapsed |-> w.lapsed, delivered |-> w.delivered, failed |-> u]
            EXCEPT !.lapsed = v]
          = [stale |-> w.stale, lapsed |-> v, delivered |-> w.delivered, failed |-> u]
    OBVIOUS
  <2> QED BY Zenon, <2>1, <2>2, <2>3
<1> QED BY Zenon, <1>1, <1>2, <1>3, <1>4

\* The states of a priming are three.
LEMMA NoneIsNot == None # "more" /\ None # "last"
  BY Zenon, ReportingAssumption

\* The invariant of a subscription s, what is known of its subscriber w, and where its
\* priming pr is, below the numbers n. What changed and did not go out is still to be
\* carried by the report or has lapsed, and nothing is left of it when the last message
\* of the priming is out. What was sent of the first event path is below the bookmark of
\* the next report, or will be when the report under way is marked, and below the number
\* from which its next message takes events.
Good(s, w, pr, n) ==
    /\ Sound(s, n) /\ w \in Twin
    /\ w.stale \subseteq Range(Asked(s).paths)
    /\ w.stale \ w.lapsed \subseteq Remaining(s)
    /\ pr = "last" => w.stale \subseteq w.lapsed
    /\ pr = None => \A x \in w.delivered : x < s.from
    /\ \A x \in w.delivered : x < s.from \/ x < s.through
    /\ pr # "last" /\ Resumed(s).eventPath = 0 =>
           \A x \in w.delivered : x < Resumed(s).eventFrom
\* What is left of a report is some of its list, and all of it when no series is part-way.
LEMMA RemainingMeans ==
    ASSUME NEW n \in Nat, NEW s, Sound(s, n)
    PROVE  /\ Remaining(s) \subseteq Range(List(s))
           /\ ~PartWay(s) => Remaining(s) = Range(List(s))
           /\ \A i \in 1 .. Len(List(s)) : i > Resumed(s).path => List(s)[i] \in Remaining(s)
<1>1. List(s) \in Seq(Attributes) /\ Len(List(s)) \in Nat
  BY Zenon, ListTypes
<1>2. Resumed(s) \in Cursor /\ (~PartWay(s) => Resumed(s).path = 0)
  BY Zenon, ResumedTypes
<1>3. Resumed(s).path \in Nat
  BY <1>2 DEF Cursor
<1> DEFINE l == List(s)  a == Resumed(s).path
<1>4. DOMAIN l = 1 .. Len(l)
  BY <1>1
<1>5. Remaining(s) = {l[i] : i \in a + 1 .. Len(l)}
  BY Zenon DEF Remaining
<1>6. a \in Nat /\ Len(l) \in Nat
  BY Zenon, <1>1, <1>3
<1> HIDE DEF l, a
<1>7. \A i \in a + 1 .. Len(l) : i \in 1 .. Len(l)
  BY <1>6
<1>8. \A i \in 1 .. Len(l) : i > a => i \in a + 1 .. Len(l)
  BY <1>6
<1>9. Remaining(s) \subseteq Range(l)
  BY Zenon, <1>4, <1>5, <1>7 DEF Range
<1>10. ASSUME a = 0 PROVE Range(l) \subseteq Remaining(s)
  <2>1. \A i \in 1 .. Len(l) : i > a
    BY <1>6, <1>10
  <2> QED BY Zenon, <1>4, <1>5, <1>8, <2>1 DEF Range
<1>11. \A i \in 1 .. Len(l) : i > a => l[i] \in Remaining(s)
  BY Zenon, <1>5, <1>8
<1>12. ~PartWay(s) => Remaining(s) = Range(l)
  BY Zenon, <1>2, <1>9, <1>10 DEF a
<1> QED BY Zenon, <1>9, <1>11, <1>12 DEF l, a

\* The report depends on the paths, the cursor and the bookmarks alone.
LEMMA SameReport ==
    ASSUME NEW n \in Nat, NEW s, NEW w, NEW pr, Good(s, w, pr, n), NEW x \in Subscription,
           x.peer = s.peer, x.dirty = s.dirty, x.full = s.full, x.cursor = s.cursor,
           x.from = s.from, x.through = s.through
    PROVE  Good(x, w, pr, n)
<1>1. Asked(x) = Asked(s) /\ List(x) = List(s) /\ Resumed(x) = Resumed(s)
  BY Zenon DEF Asked, List, Resumed
<1>2. Remaining(x) = Remaining(s)
  BY Zenon, <1>1 DEF Remaining
<1>3. Sound(x, n)
  BY Zenon DEF Good, Sound
<1> QED BY Zenon, <1>1, <1>2, <1>3 DEF Good

\* More numbers given out leave a subscription as it is.
LEMMA LaterGood ==
    ASSUME NEW n \in Nat, NEW m \in Nat, n <= m, NEW s, NEW w, NEW pr, Good(s, w, pr, n)
    PROVE  Good(s, w, pr, m)
<1>1. Sound(s, n) /\ s \in Subscription
  BY Zenon DEF Good, Sound
<1>2. s.cursor \in Cursor /\ s.from \in Nat /\ s.through \in Nat
  BY Zenon, <1>1, Parts
<1>3. s.cursor.eventFrom \in Nat
  BY <1>2 DEF Cursor
<1>4. s.from <= m /\ s.through <= m /\ s.cursor.eventFrom <= m
  <2> DEFINE a == s.from  b == s.through  c == s.cursor.eventFrom
  <2>1. a \in Nat /\ b \in Nat /\ c \in Nat /\ a <= n /\ b <= n /\ c <= n
    BY Zenon, <1>1, <1>2, <1>3 DEF Sound
  <2> HIDE DEF a, b, c
  <2>2. a <= m /\ b <= m /\ c <= m
    BY <2>1
  <2> QED BY Zenon, <2>2 DEF a, b, c
<1>5. Sound(s, m)
  BY Zenon, <1>1, <1>4 DEF Sound
<1> QED BY Zenon, <1>5 DEF Good

\* A path put into the dirty set is to be reported, and what was stays to be reported
\* unless the set overflows, and then everything is.
LEMMA InsertedMeans ==
    ASSUME NEW n \in Nat, NEW s, Sound(s, n), NEW path \in Attributes
    PROVE  LET x == Inserted(s, path)
           IN  /\ Sound(x, n) /\ x.peer = s.peer /\ x.cursor = s.cursor /\ x.from = s.from
               /\ x.through = s.through
               /\ x.full # s.full => x.full = TRUE
               /\ x.full = s.full => Remaining(s) \subseteq Remaining(x)
               /\ x.full = FALSE => path \in Range(List(x))
<1>1. /\ s \in Subscription /\ Len(s.dirty) <= DirtyPaths
      /\ s.from <= n /\ s.through <= n /\ s.cursor.eventFrom <= n
  BY Zenon DEF Sound
<1>2. /\ s.peer \in Peers /\ s.bound \in BOOLEAN /\ s.age \in Nat /\ s.dirty \in Seq(Attributes)
      /\ s.full \in BOOLEAN /\ s.cursor \in Cursor /\ s.urgent \in BOOLEAN /\ s.from \in Nat
      /\ s.through \in Nat
  BY Zenon, <1>1, Parts
<1>3. CASE s.full \/ path \in Range(s.dirty)
  <2>1. Inserted(s, path) = s
    BY Zenon, <1>3 DEF Inserted
  <2>2. s.full = FALSE => path \in Range(List(s))
    BY Zenon, <1>3 DEF List
  <2> QED BY Zenon, <2>1, <2>2
<1>4. CASE ~(s.full \/ path \in Range(s.dirty)) /\ Len(s.dirty) = DirtyPaths
  <2> DEFINE x == [peer |-> s.peer, bound |-> s.bound, age |-> s.age, dirty |-> <<>>,
                   full |-> TRUE, cursor |-> s.cursor, urgent |-> s.urgent,
                   from |-> s.from, through |-> s.through]
             y == [s EXCEPT !.full = TRUE]
  <2>1. Inserted(s, path) = [s EXCEPT !.full = TRUE, !.dirty = <<>>]
    BY Zenon, <1>4 DEF Inserted
  <2>2. [s EXCEPT !.full = TRUE, !.dirty = <<>>] = [y EXCEPT !.dirty = <<>>]
    BY Zenon, <1>1 DEF Subscription
  <2>3. y = [peer |-> s.peer, bound |-> s.bound, age |-> s.age, dirty |-> s.dirty,
             full |-> TRUE, cursor |-> s.cursor, urgent |-> s.urgent,
             from |-> s.from, through |-> s.through]
    BY Zenon, <1>1, SetField
  <2> HIDE DEF y
  <2>4. /\ y \in Subscription /\ y.peer = s.peer /\ y.bound = s.bound /\ y.age = s.age
        /\ y.full = TRUE /\ y.cursor = s.cursor /\ y.urgent = s.urgent
        /\ y.from = s.from /\ y.through = s.through
    BY <1>2, <2>3 DEF Subscription
  <2>5. <<>> \in Seq(Attributes) /\ Len(<<>>) = 0 /\ 0 <= DirtyPaths
    BY ReportingAssumption
  <2>6. [y EXCEPT !.dirty = <<>>] = x
    <3> DEFINE e == <<>>
    <3>0. e \in Seq(Attributes) /\ y \in Subscription
      BY Zenon, <2>4, <2>5
    <3> HIDE DEF e
    <3>1. [y EXCEPT !.dirty = e]
              = [peer |-> y.peer, bound |-> y.bound, age |-> y.age, dirty |-> e,
                 full |-> y.full, cursor |-> y.cursor, urgent |-> y.urgent,
                 from |-> y.from, through |-> y.through]
      BY Zenon, <3>0, SetField
    <3> USE DEF e
    <3> QED BY Zenon, <2>4, <3>1
  <2>7. Inserted(s, path) = x
    BY Zenon, <2>1, <2>2, <2>6
  <2>8. /\ x \in Subscription /\ x.peer = s.peer /\ x.cursor = s.cursor /\ x.from = s.from
        /\ x.through = s.through /\ x.dirty = <<>> /\ x.full = TRUE
    BY <1>2, <2>5 DEF Subscription
  <2> HIDE DEF x
  <2>9. Sound(x, n)
    BY Zenon, <1>1, <2>5, <2>8 DEF Sound
  <2>10. s.full = FALSE
    BY Zenon, <1>2, <1>4
  <2> QED BY Zenon, <2>7, <2>8, <2>9, <2>10
<1>5. CASE ~(s.full \/ path \in Range(s.dirty)) /\ Len(s.dirty) # DirtyPaths
  <2> DEFINE q == Append(s.dirty, path)
             x == [peer |-> s.peer, bound |-> s.bound, age |-> s.age, dirty |-> q,
                   full |-> s.full, cursor |-> s.cursor, urgent |-> s.urgent,
                   from |-> s.from, through |-> s.through]
  <2>1. Inserted(s, path) = [s EXCEPT !.dirty = q]
    BY Zenon, <1>5 DEF Inserted
  <2>2. /\ q \in Seq(Attributes) /\ Len(q) = Len(s.dirty) + 1 /\ Len(q) <= DirtyPaths
        /\ Len(s.dirty) \in Nat
        /\ \A i \in 1 .. Len(s.dirty) : q[i] = s.dirty[i] /\ i \in 1 .. Len(q)
        /\ q[Len(q)] = path /\ Len(q) \in DOMAIN q
    <3> DEFINE d == s.dirty
    <3>1. d \in Seq(Attributes) /\ Len(d) <= DirtyPaths /\ Len(d) # DirtyPaths
          /\ DirtyPaths \in Nat /\ q = Append(d, path)
      BY Zenon, <1>1, <1>2, <1>5, ReportingAssumption
    <3> HIDE DEF d, q
    <3>2. /\ q \in Seq(Attributes) /\ Len(q) = Len(d) + 1 /\ Len(d) \in Nat
          /\ DOMAIN q = 1 .. Len(q)
      BY <3>1
    <3>3. q[Len(d) + 1] = path /\ \A i \in 1 .. Len(d) : q[i] = d[i]
      BY <3>1
    <3>4. Len(q) <= DirtyPaths /\ Len(q) \in 1 .. Len(q) /\ \A i \in 1 .. Len(d) : i \in 1 .. Len(q)
      BY <3>1, <3>2
    <3> QED BY Zenon, <3>2, <3>3, <3>4 DEF d
  <2> HIDE DEF q
  <2>3. Inserted(s, path) = x
    BY Zenon, <1>1, <2>1, <2>2, SetField
  <2>4. /\ x \in Subscription /\ x.peer = s.peer /\ x.cursor = s.cursor /\ x.from = s.from
        /\ x.through = s.through /\ x.dirty = q /\ x.full = s.full
    BY <1>2, <2>2 DEF Subscription
  <2> HIDE DEF x
  <2>5. Sound(x, n)
    BY Zenon, <1>1, <2>2, <2>4 DEF Sound
  <2>6. s.full = FALSE
    BY Zenon, <1>2, <1>5
  <2>7. List(s) = s.dirty /\ List(x) = q /\ Resumed(x) = Resumed(s)
    BY Zenon, <2>4, <2>6 DEF List, Resumed
  <2>8. path \in Range(List(x))
    BY Zenon, <2>2, <2>7 DEF Range
  <2>9. Resumed(s).path \in Nat
    <3>1. Resumed(s) \in Cursor
      BY Zenon, ResumedTypes
    <3> QED BY <3>1 DEF Cursor
  <2>10. ASSUME NEW i \in Resumed(s).path + 1 .. Len(s.dirty)
         PROVE  s.dirty[i] \in Remaining(x)
    <3>1. i \in 1 .. Len(s.dirty) /\ i > Resumed(s).path
      BY <2>2, <2>9
    <3>2. i \in 1 .. Len(q) /\ q[i] = s.dirty[i]
      BY Zenon, <2>2, <3>1
    <3> QED BY Zenon, <2>5, <2>7, <3>1, <3>2, RemainingMeans
  <2>11. Remaining(s) \subseteq Remaining(x)
    BY Zenon, <2>7, <2>10 DEF Remaining
  <2> QED BY Zenon, <2>3, <2>4, <2>5, <2>6, <2>8, <2>11
<1> QED BY Zenon, <1>3, <1>4, <1>5

\* DirtySet::insert, with what it does to a series that is part-way.
LEMMA InsertedGood ==
    ASSUME NEW n \in Nat, NEW s, NEW w, NEW pr, Good(s, w, pr, n),
           NEW path \in Range(Asked(s).paths)
    PROVE  Good(Inserted(s, path),
                [w EXCEPT
                   !.stale = w.stale \cup {path},
                   !.lapsed = IF pr = None /\ ~PartWay(s) THEN @
                              ELSE IF Inserted(s, path).full # s.full THEN w.stale \cup {path}
                              ELSE @ \cup {path}], pr, n)
<1> DEFINE x == Inserted(s, path)
           stale == w.stale \cup {path}
           lapsed == IF pr = None /\ ~PartWay(s) THEN w.lapsed
                     ELSE IF x.full # s.full THEN stale ELSE w.lapsed \cup {path}
           v == [w EXCEPT
                   !.stale = w.stale \cup {path},
                   !.lapsed = IF pr = None /\ ~PartWay(s) THEN @
                              ELSE IF Inserted(s, path).full # s.full THEN w.stale \cup {path}
                              ELSE @ \cup {path}]
<1>1. Sound(s, n) /\ s \in Subscription /\ w \in Twin /\ Len(s.dirty) <= DirtyPaths
  BY Zenon DEF Good, Sound
<1>2. /\ s.peer \in Peers /\ s.bound \in BOOLEAN /\ s.age \in Nat /\ s.dirty \in Seq(Attributes)
      /\ s.full \in BOOLEAN /\ s.cursor \in Cursor /\ s.urgent \in BOOLEAN /\ s.from \in Nat
      /\ s.through \in Nat
  BY Zenon, <1>1, Parts
<1>3. Asked(s).paths \in Seq(Attributes) /\ path \in Attributes
  <2>1. Asked(s).paths \in Seq(Attributes)
    BY Zenon, <1>1, ListTypes
  <2> DEFINE l == Asked(s).paths
  <2> HIDE DEF l
  <2>2. \A i \in DOMAIN l : l[i] \in Attributes
    BY <2>1 DEF l
  <2> QED BY Zenon, <2>1, <2>2 DEF Range, l
<1>4. /\ w.stale \subseteq Attributes /\ w.lapsed \subseteq Attributes
      /\ w.delivered \subseteq Nat /\ w.failed \in BOOLEAN
  BY Zenon, <1>1, TwinParts
<1>5. stale \subseteq Attributes /\ lapsed \subseteq Attributes
  BY Zenon, <1>3, <1>4
<1>6. v = [stale |-> stale, lapsed |-> lapsed, delivered |-> w.delivered, failed |-> w.failed]
  <2>1. v = [w EXCEPT !.stale = stale, !.lapsed = lapsed]
    BY Zenon
  <2> HIDE DEF v, stale, lapsed
  <2> QED BY ZenonT(60), <1>1, <2>1, TwinSet
<1> HIDE DEF stale, lapsed, v
<1>7. /\ v \in Twin /\ v.stale = stale /\ v.lapsed = lapsed /\ v.delivered = w.delivered
  <2>1. /\ stale \in SUBSET Attributes /\ lapsed \in SUBSET Attributes
        /\ w.delivered \in SUBSET Nat /\ w.failed \in BOOLEAN
    BY Zenon, <1>4, <1>5
  <2>2. v \in Twin
    BY <1>6, <2>1 DEF Twin
  <2>3. v.stale = stale /\ v.lapsed = lapsed /\ v.delivered = w.delivered
    BY <1>6
  <2> QED BY Zenon, <2>2, <2>3
<1>8. /\ Sound(x, n) /\ x.peer = s.peer /\ x.cursor = s.cursor /\ x.from = s.from
      /\ x.through = s.through
      /\ x.full # s.full => x.full = TRUE
      /\ x.full = s.full => Remaining(s) \subseteq Remaining(x)
      /\ x.full = FALSE => path \in Range(List(x))
  BY Zenon, <1>1, <1>3, InsertedMeans
<1>9. x.full \in BOOLEAN
  BY Zenon, <1>8, Parts DEF Sound
<1>10. lapsed = IF pr = None /\ ~PartWay(s) THEN w.lapsed
                ELSE IF x.full # s.full THEN stale ELSE w.lapsed \cup {path}
  BY Zenon DEF lapsed
<1> HIDE DEF x
<1>11. Asked(x) = Asked(s) /\ Resumed(x) = Resumed(s) /\ (PartWay(x) <=> PartWay(s))
  BY Zenon, <1>8 DEF Asked, Resumed, PartWay
<1>12. stale \subseteq Range(Asked(x).paths)
  BY Zenon, <1>11 DEF Good, stale
<1>13. stale \ lapsed \subseteq Remaining(x)
  <2>1. CASE pr = None /\ ~PartWay(s)
    <3>1. Remaining(x) = Range(List(x)) /\ lapsed = w.lapsed
      BY Zenon, <1>8, <1>10, <1>11, <2>1, RemainingMeans
    <3>2. CASE x.full = TRUE
      <4>1. List(x) = Asked(x).paths
        BY Zenon, <3>2 DEF List
      <4> QED BY Zenon, <1>12, <3>1, <4>1
    <3>3. CASE x.full = FALSE
      <4>1. path \in Remaining(x) /\ Remaining(s) \subseteq Remaining(x)
        BY Zenon, <1>8, <3>1, <3>3
      <4> QED BY Zenon, <3>1, <4>1 DEF Good, stale
    <3> QED BY Zenon, <1>9, <3>2, <3>3
  <2>2. CASE ~(pr = None /\ ~PartWay(s)) /\ x.full # s.full
    BY Zenon, <1>10, <2>2
  <2>3. CASE ~(pr = None /\ ~PartWay(s)) /\ x.full = s.full
    <3>1. lapsed = w.lapsed \cup {path} /\ Remaining(s) \subseteq Remaining(x)
      BY Zenon, <1>8, <1>10, <2>3
    <3> QED BY Zenon, <3>1 DEF Good, stale
  <2> QED BY Zenon, <2>1, <2>2, <2>3
<1>14. ASSUME pr = "last" PROVE stale \subseteq lapsed
  <2>1. w.stale \subseteq w.lapsed
    BY Zenon, <1>14 DEF Good
  <2>2. pr # None
    BY Zenon, <1>14, NoneIsNot
  <2> QED BY Zenon, <1>10, <2>1, <2>2 DEF stale
<1>15. Good(x, v, pr, n)
  BY Zenon, <1>7, <1>8, <1>11, <1>12, <1>13, <1>14 DEF Good
<1> QED BY Zenon, <1>15 DEF x, v

\* A subscription that is marked reported owes nothing, and its bookmark is above whatever
\* was sent. It begins again with no series part-way.
LEMMA ReportedGood ==
    ASSUME NEW n \in Nat, NEW x, Sound(x, n), NEW w \in Twin,
           w.stale \subseteq Range(Asked(x).paths), w.stale \subseteq w.lapsed,
           \A m \in w.delivered : m < x.from \/ m < x.through
    PROVE  Good(Reported(x), w, None, n)
<1> DEFINE r == Reported(x)
<1>1. x \in Subscription /\ x.from <= n /\ x.through <= n
  BY Zenon DEF Sound
<1>2. x.peer \in Peers /\ x.bound \in BOOLEAN /\ x.from \in Nat /\ x.through \in Nat
  BY Zenon, <1>1, Parts
<1>3. /\ Larger(x.from, x.through) \in Nat /\ Larger(x.from, x.through) <= n
      /\ \A m \in Nat : m < x.from \/ m < x.through => m < Larger(x.from, x.through)
  <2> DEFINE a == x.from  b == x.through
  <2>1. a \in Nat /\ b \in Nat /\ a <= n /\ b <= n
    BY Zenon, <1>1, <1>2
  <2> HIDE DEF a, b
  <2>2. /\ Larger(a, b) \in Nat /\ Larger(a, b) <= n
        /\ \A m \in Nat : m < a \/ m < b => m < Larger(a, b)
    BY <2>1 DEF Larger
  <2> QED BY Zenon, <2>2 DEF a, b
<1>4. START \in Cursor /\ START.eventFrom = 0
  BY DEF START, Cursor
<1>5. <<>> \in Seq(Attributes) /\ Len(<<>>) <= DirtyPaths /\ 0 <= n
  BY ReportingAssumption
<1>6. r = [peer |-> x.peer, bound |-> x.bound, age |-> 0, dirty |-> <<>>, full |-> FALSE,
           cursor |-> START, urgent |-> FALSE, from |-> Larger(x.from, x.through),
           through |-> 0]
  BY Zenon DEF Reported
<1> HIDE DEF r
<1>7. r \in Subscription
  BY Zenon, <1>2, <1>3, <1>4, <1>5, <1>6 DEF Subscription
<1>8. /\ r.peer = x.peer /\ r.dirty = <<>> /\ r.full = FALSE /\ r.cursor = START
      /\ r.from = Larger(x.from, x.through) /\ r.through = 0
  BY Zenon, <1>6
<1>9. Sound(r, n)
  BY Zenon, <1>3, <1>4, <1>5, <1>7, <1>8 DEF Sound
<1>10. Resumed(r).eventFrom = r.from
  BY Zenon, <1>8, <1>9, ResumedTypes
<1>11. \A m \in w.delivered : m < r.from
  <2>1. w.delivered \subseteq Nat
    BY Zenon, TwinParts
  <2> QED BY Zenon, <1>3, <1>8, <2>1
<1>12. Asked(r) = Asked(x)
  BY Zenon, <1>8 DEF Asked
<1>13. w.stale \ w.lapsed = {}
  BY Zenon
<1> QED BY Zenon, <1>9, <1>10, <1>11, <1>12, <1>13 DEF Good, r

\* The next message of a series that goes out: a priming, or the report that is marked
\* reported after it. No event of the first event path is in it that went out before.
LEMMA SentGood ==
    ASSUME LogBehind, issued \in Nat, NEW s, NEW w, NEW pr, Good(s, w, pr, issued), pr # "last"
    PROVE  /\ w.delivered \cap Chunk(s).numbers = {}
           /\ pr = "more" =>
                  Good(Chunk(s).sub, After(w, Chunk(s)),
                       IF Chunk(s).more THEN "more" ELSE "last", issued)
           /\ pr = None =>
                  LET seen == After(w, Chunk(s))
                  IN  Good(Reported(Chunk(s).sub),
                           [seen EXCEPT !.lapsed = IF Chunk(s).more THEN seen.stale ELSE @],
                           None, issued)
<1> DEFINE c == Chunk(s)  x == c.sub  r == Resumed(s)  y == Resumed(x)
           stale == w.stale \ c.paths  lapsed == w.lapsed \ c.paths
           delivered == w.delivered \cup c.numbers
<1>1. Sound(s, issued) /\ w \in Twin /\ s \in Subscription
  BY Zenon DEF Good, Sound
<1>2. /\ Sound(x, issued) /\ c.more \in BOOLEAN /\ c.numbers \subseteq Nat
      /\ x.peer = s.peer /\ x.dirty = s.dirty /\ x.full = s.full /\ x.from = s.from
      /\ ~c.more => Remaining(s) \subseteq c.paths /\ x.cursor.done
      /\ c.more => Remaining(s) \ c.paths \subseteq Remaining(x)
      /\ x.through >= s.through
      /\ \A n \in c.numbers : n < x.through /\ r.eventPath = 0 /\ n >= r.eventFrom
      /\ c.more /\ y.eventPath = 0 =>
             /\ r.eventPath = 0 /\ y.eventFrom >= r.eventFrom
             /\ \A n \in c.numbers : n < y.eventFrom
  BY Zenon, <1>1, ChunkMeans
<1>3. /\ w.stale \subseteq Attributes /\ w.lapsed \subseteq Attributes
      /\ w.delivered \subseteq Nat /\ w.failed \in BOOLEAN
  BY Zenon, <1>1, TwinParts
<1>4. r \in Cursor /\ y \in Cursor /\ (x.cursor.done => y.eventFrom = x.from)
  BY Zenon, <1>1, <1>2, ResumedTypes
<1>5. r.eventFrom \in Nat /\ y.eventFrom \in Nat
  BY <1>4 DEF Cursor
<1>6. /\ s.from \in Nat /\ s.through \in Nat /\ x.through \in Nat /\ x.peer \in Peers
      /\ x.bound \in BOOLEAN /\ x \in Subscription
      /\ x.from <= issued /\ x.through <= issued
  BY Zenon, <1>1, <1>2, Parts DEF Sound
<1>7. r.eventPath = 0 => \A n \in w.delivered : n < r.eventFrom
  BY Zenon DEF Good
<1>8. w.delivered \cap c.numbers = {}
  <2>1. ASSUME NEW n \in w.delivered, n \in c.numbers PROVE FALSE
    <3>1. n \in Nat /\ n >= r.eventFrom /\ n < r.eventFrom
      BY Zenon, <1>2, <1>3, <1>7, <2>1
    <3> DEFINE e == r.eventFrom
    <3>2. n \in Nat /\ e \in Nat /\ n >= e /\ n < e
      BY Zenon, <1>5, <3>1
    <3> HIDE DEF e
    <3> QED BY <3>2
  <2> QED BY Zenon, <2>1
<1>9. After(w, c) = [stale |-> stale, lapsed |-> lapsed, delivered |-> delivered, failed |-> FALSE]
  BY Zenon DEF After
<1>10. /\ stale \in SUBSET Attributes /\ lapsed \in SUBSET Attributes /\ delivered \in SUBSET Nat
       /\ FALSE \in BOOLEAN
  BY Zenon, <1>2, <1>3
<1>11. Asked(x) = Asked(s)
  BY Zenon, <1>2 DEF Asked
<1>12. stale \subseteq Range(Asked(s).paths)
  BY Zenon DEF Good
<1>13. stale \ lapsed \subseteq Remaining(s) \ c.paths
  BY Zenon DEF Good
<1>14. \A n \in delivered : n < s.from \/ n < x.through
  <2> DEFINE a == s.through  b == x.through
  <2>1. \A n \in w.delivered : n \in Nat /\ (n < s.from \/ n < a)
    BY Zenon, <1>3 DEF Good
  <2>2. a \in Nat /\ b \in Nat /\ b >= a
    BY Zenon, <1>2, <1>6
  <2> HIDE DEF a, b
  <2>3. \A n \in w.delivered : n < s.from \/ n < b
    BY <2>1, <2>2
  <2> QED BY Zenon, <1>2, <2>3 DEF b
<1> HIDE DEF c, stale, lapsed, delivered
<1>15. ASSUME pr = "more"
       PROVE  Good(x, After(w, c), IF c.more THEN "more" ELSE "last", issued)
  <2> DEFINE v == After(w, c)
  <2>1. v \in Twin
    BY <1>9, <1>10 DEF Twin
  <2>2. v.stale = stale /\ v.lapsed = lapsed /\ v.delivered = delivered
    BY <1>9
  <2> HIDE DEF v
  <2>3. ASSUME ~c.more PROVE stale \subseteq lapsed
    BY Zenon, <1>2, <1>13, <2>3
  <2>4. stale \ lapsed \subseteq Remaining(x)
    BY Zenon, <1>2, <1>13, <2>3
  <2>5. ASSUME c.more, y.eventPath = 0 PROVE \A n \in delivered : n < y.eventFrom
    <3> DEFINE e == r.eventFrom  f == y.eventFrom
    <3>1. e \in Nat /\ f \in Nat /\ f >= e /\ \A n \in w.delivered : n \in Nat /\ n < e
      BY Zenon, <1>2, <1>3, <1>5, <1>7, <2>5
    <3> HIDE DEF e, f
    <3>2. \A n \in w.delivered : n < f
      BY <3>1
    <3> QED BY Zenon, <1>2, <2>5, <3>2 DEF delivered, f
  <2>6. Good(x, v, "more", issued) \/ ~c.more
    BY Zenon, <1>2, <1>11, <1>12, <1>14, <2>1, <2>2, <2>4, <2>5, NoneIsNot DEF Good
  <2>7. Good(x, v, "last", issued) \/ c.more
    BY Zenon, <1>2, <1>11, <1>12, <1>14, <2>1, <2>2, <2>3, <2>4, NoneIsNot DEF Good
  <2> QED BY Zenon, <1>2, <2>6, <2>7 DEF v
<1>16. ASSUME pr = None
       PROVE  LET seen == After(w, c)
              IN  Good(Reported(x),
                       [seen EXCEPT !.lapsed = IF c.more THEN seen.stale ELSE @],
                       None, issued)
  <2> DEFINE u == After(w, c)
             last == IF c.more THEN stale ELSE lapsed
             v == [u EXCEPT !.lapsed = IF c.more THEN u.stale ELSE @]
  <2>1. u \in Twin
    BY <1>9, <1>10 DEF Twin
  <2>2. u.stale = stale /\ u.lapsed = lapsed /\ u.delivered = delivered /\ u.failed = FALSE
    BY <1>9
  <2> HIDE DEF u
  <2>3. v = [u EXCEPT !.lapsed = last]
    BY Zenon, <2>2
  <2>4. v = [stale |-> stale, lapsed |-> last, delivered |-> delivered, failed |-> FALSE]
    BY ZenonT(60), <2>1, <2>2, <2>3, TwinSet
  <2>5. last \in SUBSET Attributes
    BY Zenon, <1>10
  <2>6. stale \subseteq last
    BY Zenon, <1>2, <1>13
  <2> HIDE DEF v, last
  <2>7. v \in Twin
    BY <1>10, <2>4, <2>5 DEF Twin
  <2>8. v.stale = stale /\ v.lapsed = last /\ v.delivered = delivered
    BY Zenon, <2>4
  <2>9. \A n \in delivered : n < s.from \/ n < x.through
    BY Zenon, <1>14
  <2>10. Good(Reported(x), v, None, issued)
    BY Zenon, <1>2, <1>6, <1>10, <1>11, <1>12, <2>6, <2>7, <2>8, <2>9, ReportedGood
  <2> QED BY Zenon, <2>10 DEF u, v
<1> QED BY Zenon, <1>8, <1>15, <1>16 DEF c

\* A due report built but not sent: the next one resumes where it stopped, or starts again.
LEMMA FailedGood ==
    ASSUME LogBehind, issued \in Nat, NEW s, NEW w, Good(s, w, None, issued)
    PROVE  Good(Chunk(s).sub,
                [w EXCEPT !.failed = TRUE,
                          !.lapsed = IF Chunk(s).more THEN @ \cup Chunk(s).paths ELSE @],
                None, issued)
<1> DEFINE c == Chunk(s)  x == c.sub  r == Resumed(s)  y == Resumed(x)
           lapsed == IF c.more THEN w.lapsed \cup c.paths ELSE w.lapsed
           v == [w EXCEPT !.failed = TRUE, !.lapsed = IF c.more THEN @ \cup c.paths ELSE @]
<1>1. Sound(s, issued) /\ w \in Twin /\ s \in Subscription
  BY Zenon DEF Good, Sound
<1>2. /\ Sound(x, issued) /\ c.more \in BOOLEAN /\ c.paths \subseteq Attributes
      /\ x.peer = s.peer /\ x.dirty = s.dirty /\ x.full = s.full /\ x.from = s.from
      /\ ~c.more => x.cursor.done
      /\ c.more => Remaining(s) \ c.paths \subseteq Remaining(x)
      /\ c.more /\ y.eventPath = 0 => r.eventPath = 0 /\ y.eventFrom >= r.eventFrom
  BY Zenon, <1>1, ChunkMeans
<1>3. /\ w.stale \subseteq Attributes /\ w.lapsed \subseteq Attributes
      /\ w.delivered \subseteq Nat
  BY Zenon, <1>1, TwinParts
<1>4. /\ v = [w EXCEPT !.failed = TRUE, !.lapsed = lapsed]
  BY Zenon
<1>5. lapsed \in SUBSET Attributes
  BY Zenon, <1>2, <1>3
<1>6. lapsed = IF c.more THEN w.lapsed \cup c.paths ELSE w.lapsed
  OBVIOUS
<1> HIDE DEF c, lapsed, v
<1>7. v = [stale |-> w.stale, lapsed |-> lapsed, delivered |-> w.delivered, failed |-> TRUE]
  BY ZenonT(60), <1>1, <1>4, TwinSet
<1>8. v \in Twin
  <2>1. w.stale \in SUBSET Attributes /\ w.delivered \in SUBSET Nat
    BY Zenon, <1>3
  <2> QED BY <1>5, <1>7, <2>1 DEF Twin
<1>9. v.stale = w.stale /\ v.lapsed = lapsed /\ v.delivered = w.delivered
  BY <1>7
<1>10. Asked(x) = Asked(s) /\ List(x) = List(s)
  BY Zenon, <1>2 DEF Asked, List
<1>11. w.stale \ lapsed \subseteq Remaining(x)
  <2>1. CASE c.more
    BY Zenon, <1>2, <1>6, <2>1 DEF Good
  <2>2. CASE ~c.more
    <3>1. ~PartWay(x)
      BY Zenon, <1>2, <2>2 DEF PartWay
    <3>2. Remaining(x) = Range(List(x)) /\ Remaining(s) \subseteq Range(List(s))
      BY Zenon, <1>1, <1>2, <3>1, RemainingMeans
    <3> QED BY Zenon, <1>6, <1>10, <2>2, <3>2 DEF Good
  <2> QED BY Zenon, <2>1, <2>2
<1>12. ASSUME y.eventPath = 0 PROVE \A n \in w.delivered : n < y.eventFrom
  <2>1. CASE c.more
    <3>1. r \in Cursor /\ y \in Cursor
      BY Zenon, <1>1, <1>2, ResumedTypes
    <3>2. r.eventFrom \in Nat /\ y.eventFrom \in Nat
      BY <3>1 DEF Cursor
    <3>3. r.eventPath = 0 /\ y.eventFrom >= r.eventFrom
      BY Zenon, <1>2, <1>12, <2>1
    <3>4. \A n \in w.delivered : n \in Nat /\ n < r.eventFrom
      BY Zenon, <1>3, <3>3, NoneIsNot DEF Good
    <3> DEFINE e == r.eventFrom  f == y.eventFrom
    <3>5. e \in Nat /\ f \in Nat /\ f >= e /\ \A n \in w.delivered : n \in Nat /\ n < e
      BY Zenon, <3>2, <3>3, <3>4
    <3> HIDE DEF e, f
    <3>6. \A n \in w.delivered : n < f
      BY <3>5
    <3> QED BY Zenon, <3>6 DEF f
  <2>2. CASE ~c.more
    <3>1. y.eventFrom = s.from
      BY Zenon, <1>2, <2>2, ResumedTypes
    <3> QED BY Zenon, <3>1 DEF Good
  <2> QED BY Zenon, <2>1, <2>2
<1>13. \A n \in w.delivered : n < x.from
  BY Zenon, <1>2 DEF Good
<1>14. Good(x, v, None, issued)
  BY Zenon, <1>2, <1>8, <1>9, <1>10, <1>11, <1>12, <1>13, NoneIsNot DEF Good
<1> QED BY Zenon, <1>14 DEF c, v

\* A KeepAlive, which is only due where nothing is pending, sent or not.
LEMMA EmptyGood ==
    ASSUME NEW n \in Nat, NEW s, NEW w, Good(s, w, None, n), ~HasPending(s)
    PROVE  /\ Empty(s).more = FALSE /\ Empty(s).paths = {} /\ Empty(s).numbers = {}
           /\ Good(Empty(s).sub, [w EXCEPT !.failed = TRUE, !.lapsed = w.lapsed], None, n)
           /\ Good(Reported(Empty(s).sub), After(w, Empty(s)), None, n)
<1> DEFINE e == Empty(s)  x == e.sub
           v == [w EXCEPT !.failed = TRUE, !.lapsed = w.lapsed]  u == After(w, e)
<1>1. Sound(s, n) /\ w \in Twin /\ s \in Subscription
  BY Zenon DEF Good, Sound
<1>2. e.more = FALSE /\ e.paths = {} /\ e.numbers = {} /\ x = [s EXCEPT !.cursor.done = TRUE]
  BY DEF Empty
<1>3. /\ s.peer \in Peers /\ s.bound \in BOOLEAN /\ s.age \in Nat /\ s.dirty \in Seq(Attributes)
      /\ s.full \in BOOLEAN /\ s.cursor \in Cursor /\ s.urgent \in BOOLEAN /\ s.from \in Nat
      /\ s.through \in Nat
  BY Zenon, <1>1, Parts
<1> DEFINE k == [path |-> s.cursor.path, eventPath |-> s.cursor.eventPath,
                 eventFrom |-> s.cursor.eventFrom, done |-> TRUE]
<1> HIDE DEF e
<1>4. k \in Cursor /\ k.done = TRUE /\ k.eventFrom = s.cursor.eventFrom
  BY Zenon, <1>3 DEF Cursor
<1>5. [s.cursor EXCEPT !.done = TRUE] = k
  <2>1. ASSUME NEW c \in Cursor, NEW b \in BOOLEAN
        PROVE  [c EXCEPT !.done = b] = [path |-> c.path, eventPath |-> c.eventPath,
                                        eventFrom |-> c.eventFrom, done |-> b]
    BY DEF Cursor
  <2> QED BY Zenon, <1>3, <2>1
<1>6. x = [s EXCEPT !.cursor = k]
  BY Zenon, <1>2, <1>5
<1> HIDE DEF k
<1>7. x = [peer |-> s.peer, bound |-> s.bound, age |-> s.age, dirty |-> s.dirty,
           full |-> s.full, cursor |-> k, urgent |-> s.urgent, from |-> s.from,
           through |-> s.through]
  BY Zenon, <1>1, <1>4, <1>6, SetField
<1> HIDE DEF x
<1>8. /\ x \in Subscription /\ x.peer = s.peer /\ x.dirty = s.dirty /\ x.full = s.full
      /\ x.cursor = k /\ x.from = s.from /\ x.through = s.through
  BY <1>3, <1>4, <1>7 DEF Subscription
<1>9. Sound(x, n)
  BY Zenon, <1>1, <1>4, <1>8 DEF Sound
<1>10. Asked(x) = Asked(s)
  BY Zenon, <1>8 DEF Asked
<1>11. w.stale \subseteq w.lapsed
  <2>1. List(s) = <<>>
    BY Zenon DEF HasPending, List
  <2>2. Range(List(s)) = {}
    BY <2>1 DEF Range
  <2>3. Remaining(s) = {}
    BY Zenon, <1>1, <2>2, RemainingMeans
  <2> QED BY Zenon, <2>3 DEF Good
<1>12. /\ w.stale \subseteq Attributes /\ w.lapsed \subseteq Attributes
       /\ w.delivered \subseteq Nat
  BY Zenon, <1>1, TwinParts
<1>13. v = [stale |-> w.stale, lapsed |-> w.lapsed, delivered |-> w.delivered, failed |-> TRUE]
  <2> DEFINE l == w.lapsed
  <2>1. v = [w EXCEPT !.failed = TRUE, !.lapsed = l]
    BY Zenon
  <2> HIDE DEF l, v
  <2>2. v = [stale |-> w.stale, lapsed |-> l, delivered |-> w.delivered, failed |-> TRUE]
    BY ZenonT(60), <1>1, <2>1, TwinSet
  <2> QED BY Zenon, <2>2 DEF l
<1>14. u = [stale |-> w.stale, lapsed |-> w.lapsed, delivered |-> w.delivered, failed |-> FALSE]
  <2>1. /\ w.stale \ e.paths = w.stale /\ w.lapsed \ e.paths = w.lapsed
        /\ w.delivered \cup e.numbers = w.delivered
    BY Zenon, <1>2
  <2> QED BY Zenon, <2>1 DEF After
<1> HIDE DEF u, v
<1>15. /\ v \in Twin /\ v.stale = w.stale /\ v.lapsed = w.lapsed /\ v.delivered = w.delivered
       /\ u \in Twin /\ u.stale = w.stale /\ u.lapsed = w.lapsed /\ u.delivered = w.delivered
  <2>1. /\ w.stale \in SUBSET Attributes /\ w.lapsed \in SUBSET Attributes
        /\ w.delivered \in SUBSET Nat
    BY Zenon, <1>12
  <2>2. v \in Twin /\ u \in Twin
    BY <1>13, <1>14, <2>1 DEF Twin
  <2>3. v.stale = w.stale /\ v.lapsed = w.lapsed /\ v.delivered = w.delivered
    BY <1>13
  <2>4. u.stale = w.stale /\ u.lapsed = w.lapsed /\ u.delivered = w.delivered
    BY <1>14
  <2> QED BY Zenon, <2>2, <2>3, <2>4
<1>16. \A m \in w.delivered : m < x.from
  BY Zenon, <1>8 DEF Good
<1>17. Resumed(x).eventFrom = x.from
  BY Zenon, <1>4, <1>8, <1>9, ResumedTypes
<1>18. w.stale \ w.lapsed \subseteq Remaining(x) /\ w.stale \subseteq Range(Asked(x).paths)
  BY Zenon, <1>10, <1>11 DEF Good
<1>19. Good(x, v, None, n)
  BY Zenon, <1>9, <1>15, <1>16, <1>17, <1>18, NoneIsNot DEF Good
<1>20. Good(Reported(x), u, None, n)
  BY Zenon, <1>9, <1>11, <1>15, <1>16, <1>18, ReportedGood
<1> QED BY Zenon, <1>2, <1>19, <1>20 DEF e, x, u, v

\* A subscription as SubscriptionTable::subscribe makes it, with its subscriber not primed
\* yet, and one out of storage.
LEMMA FreshGood ==
    ASSUME NEW n \in Nat, NEW peer \in Peers, NEW from \in Nat, from <= n
    PROVE  /\ Good(Subscribed(peer), Unknown(peer), "more", n)
           /\ \A d : d.peer = peer /\ d.from = from =>
                  /\ FromStorage(d) \in Subscription /\ FromStorage(d).bound = FALSE
                  /\ FromStorage(d).peer = peer
                  /\ Good(FromStorage(d), Unknown(peer), None, n)
<1> DEFINE w == Unknown(peer)
<1>1. /\ Request[peer].paths \in Seq(Attributes)
  BY ReportingAssumption
<1>2. Range(Request[peer].paths) \subseteq Attributes
  <2> DEFINE l == Request[peer].paths
  <2> HIDE DEF l
  <2>1. \A i \in DOMAIN l : l[i] \in Attributes
    BY <1>1 DEF l
  <2> QED BY Zenon, <2>1 DEF Range, l
<1> DEFINE all == Range(Request[peer].paths)
<1>3. all \in SUBSET Attributes
  BY Zenon, <1>2
<1>4. w = [stale |-> all, lapsed |-> {}, delivered |-> {}, failed |-> FALSE]
  <2>1. Unsent \in Twin /\ Unsent.lapsed = {} /\ Unsent.delivered = {} /\ Unsent.failed = FALSE
    BY DEF Unsent, Twin
  <2>2. ASSUME NEW v
        PROVE  [Unsent EXCEPT !.stale = v] = [stale |-> v, lapsed |-> Unsent.lapsed,
                                              delivered |-> Unsent.delivered,
                                              failed |-> Unsent.failed]
    BY <2>1 DEF Twin
  <2> QED BY Zenon, <2>1, <2>2 DEF Unknown
<1> HIDE DEF w
<1>5. w \in Twin /\ w.stale = all /\ w.lapsed = {} /\ w.delivered = {}
  <2> HIDE DEF all
  <2>1. w \in Twin
    BY <1>3, <1>4 DEF Twin
  <2>2. w.stale = all /\ w.lapsed = {} /\ w.delivered = {}
    BY <1>4
  <2> QED BY Zenon, <2>1, <2>2
<1>6. START \in Cursor /\ START.eventFrom = 0 /\ START.done = FALSE
  BY DEF START, Cursor
<1>7. <<>> \in Seq(Attributes) /\ Len(<<>>) <= DirtyPaths /\ 0 <= n
  BY ReportingAssumption
<1>8. ASSUME NEW s \in Subscription, s.peer = peer, s.dirty = <<>>, s.full = TRUE,
             s.cursor = START, s.from <= n, s.through = 0, NEW pr \in {None, "more"}
      PROVE  Good(s, w, pr, n)
  <2>1. Sound(s, n)
    BY Zenon, <1>6, <1>7, <1>8 DEF Sound
  <2>2. ~PartWay(s)
    BY Zenon, <1>8 DEF PartWay
  <2>3. Asked(s).paths = Request[peer].paths /\ List(s) = Asked(s).paths
    BY Zenon, <1>8 DEF Asked, List
  <2>4. Remaining(s) = all
    BY Zenon, <2>1, <2>2, <2>3, RemainingMeans
  <2>5. pr # "last"
    BY Zenon, <1>8, NoneIsNot
  <2> QED BY Zenon, <1>5, <2>1, <2>3, <2>4, <2>5 DEF Good
<1> DEFINE s == Subscribed(peer)
<1>9. /\ s \in Subscription /\ s.peer = peer /\ s.dirty = <<>> /\ s.full = TRUE
      /\ s.cursor = START /\ s.from = 0 /\ s.through = 0 /\ s.urgent = FALSE /\ s.age = 0
  BY <1>6, <1>7 DEF Subscribed, Subscription
<1> HIDE DEF s
<1>10. Good(s, w, "more", n)
  BY Zenon, <1>7, <1>8, <1>9
<1>11. ASSUME NEW d, d.peer = peer, d.from = from
       PROVE  /\ FromStorage(d) \in Subscription /\ FromStorage(d).bound = FALSE
              /\ FromStorage(d).peer = peer
              /\ Good(FromStorage(d), w, None, n)
  <2> DEFINE y == [s EXCEPT !.bound = FALSE]  x == [y EXCEPT !.from = from]
  <2>1. FromStorage(d) = x
    <3>1. FromStorage(d) = [s EXCEPT !.bound = FALSE, !.from = from]
      BY Zenon, <1>11 DEF FromStorage, s
    <3>2. [s EXCEPT !.bound = FALSE, !.from = from] = x
      BY Zenon, <1>9 DEF Subscription
    <3> QED BY Zenon, <3>1, <3>2
  <2>2. y = [peer |-> s.peer, bound |-> FALSE, age |-> s.age, dirty |-> s.dirty,
             full |-> s.full, cursor |-> s.cursor, urgent |-> s.urgent,
             from |-> s.from, through |-> s.through]
    BY Zenon, <1>9, SetField
  <2> HIDE DEF y
  <2>3. /\ y \in Subscription /\ y.bound = FALSE /\ y.peer = peer /\ y.dirty = <<>>
        /\ y.full = TRUE /\ y.cursor = START /\ y.through = 0 /\ y.urgent = FALSE /\ y.age = 0
    BY Zenon, <1>6, <1>7, <1>9, <2>2 DEF Subscription
  <2>4. x = [peer |-> y.peer, bound |-> y.bound, age |-> y.age, dirty |-> y.dirty,
             full |-> y.full, cursor |-> y.cursor, urgent |-> y.urgent,
             from |-> from, through |-> y.through]
    BY Zenon, <2>3, SetField
  <2> HIDE DEF x
  <2>5. /\ x \in Subscription /\ x.bound = FALSE /\ x.peer = peer /\ x.dirty = <<>>
        /\ x.full = TRUE /\ x.cursor = START /\ x.through = 0 /\ x.from = from
    BY Zenon, <1>6, <1>7, <2>3, <2>4 DEF Subscription
  <2>6. Good(x, w, None, n)
    BY Zenon, <1>8, <2>5
  <2> QED BY Zenon, <2>1, <2>5, <2>6
<1> QED BY Zenon, <1>10, <1>11 DEF s, w

-----------------------------------------------------------------------------
(* The event numbers and the rings *)

\* What the numbers in RAM owe to the one in storage: nothing was given out, and nothing
\* is taken to be reserved, above what a restart resumes at.
NumbersInv ==
    /\ numbers \in [next : Nat, reserved : Nat] /\ durable \in Nat /\ issued \in Nat
    /\ numbers.next >= issued
    /\ numbers.reserved <= durable /\ issued <= durable

\* The event log: its numbers, its types, and no number in it that was not given out.
LogInv == NumbersInv /\ log \in [Priorities -> SUBSET Record] /\ LogBehind

\* One of the four operations of the event log, or none.
EventStep ==
    \/ UNCHANGED events
    \/ StoreReservation \/ ConfirmReservation \/ EventRestart
    \/ \E priority \in Priorities, kind \in Kinds : RecordEvent(priority, kind)

\* The four operations of the event log keep the numbers, and give none back.
LEMMA NumbersStep ==
    ASSUME NumbersInv, EventStep
    PROVE  NumbersInv' /\ issued <= issued'
<1>1. CASE UNCHANGED events
  <2>1. numbers' = numbers /\ durable' = durable /\ issued' = issued
    BY Zenon, <1>1 DEF events
  <2>2. issued <= issued
    BY DEF NumbersInv
  <2> QED BY Zenon, <2>1, <2>2 DEF NumbersInv
<1>2. CASE StoreReservation
  <2>1. /\ durable' = numbers.next + Block /\ numbers' = numbers /\ issued' = issued
        /\ numbers.next >= numbers.reserved
    BY Zenon, <1>2 DEF StoreReservation, Owes
  <2>2. numbers.next \in Nat /\ numbers.reserved \in Nat
    BY DEF NumbersInv
  <2> DEFINE a == numbers.next  b == numbers.reserved
  <2>3. /\ a \in Nat /\ b \in Nat /\ a >= b /\ durable' = a + Block
        /\ issued \in Nat /\ a >= issued
    BY Zenon, <2>1, <2>2 DEF NumbersInv
  <2> HIDE DEF a, b
  <2>4. durable' \in Nat /\ b <= durable' /\ issued <= durable' /\ issued <= issued
    BY <2>3, EventAssumption
  <2> QED BY Zenon, <2>1, <2>4 DEF NumbersInv, b
<1>3. CASE ConfirmReservation
  <2>1. numbers' = [next |-> numbers.next, reserved |-> durable]
    BY Zenon, <1>3 DEF ConfirmReservation, NumbersInv
  <2> QED BY <1>3, <2>1 DEF ConfirmReservation, NumbersInv
<1>4. CASE EventRestart
  BY <1>4 DEF EventRestart, Restored, NumbersInv
<1>5. ASSUME NEW priority \in Priorities, NEW kind \in Kinds, RecordEvent(priority, kind)
      PROVE  NumbersInv' /\ issued <= issued'
  <2>1. numbers' = [next |-> numbers.next + 1, reserved |-> numbers.reserved]
    BY <1>5 DEF RecordEvent, NumbersInv
  <2>2. numbers.next + 1 <= numbers.reserved
    BY <1>5 DEF RecordEvent, Owes, NumbersInv
  <2>3. issued' \in Nat /\ issued' <= numbers.next + 1 /\ issued <= issued'
    BY <1>5 DEF RecordEvent, NumbersInv
  <2>4. durable' = durable
    BY <1>5 DEF RecordEvent
  <2> QED BY SMTT(60), <2>1, <2>2, <2>3, <2>4 DEF NumbersInv
<1> QED BY Zenon, <1>1, <1>2, <1>3, <1>4, <1>5 DEF EventStep

\* A ring holds what was recorded, and a record has the number it was given.
LEMMA LogStep ==
    ASSUME LogInv, EventStep
    PROVE  LogInv' /\ issued <= issued'
<1>1. NumbersInv' /\ issued <= issued' /\ issued \in Nat /\ issued' \in Nat
  BY Zenon, NumbersStep DEF LogInv, NumbersInv
<1>2. CASE UNCHANGED events
  <2>1. log' = log /\ issued' = issued
    BY Zenon, <1>2 DEF events
  <2> QED BY Zenon, <1>1, <2>1 DEF LogInv, LogBehind
<1>3. CASE StoreReservation \/ ConfirmReservation
  <2>1. log' = log /\ issued' = issued
    BY Zenon, <1>3 DEF StoreReservation, ConfirmReservation
  <2> QED BY Zenon, <1>1, <2>1 DEF LogInv, LogBehind
<1>4. CASE EventRestart
  <2>1. log' = [p \in Priorities |-> {}]
    BY Zenon, <1>4 DEF EventRestart
  <2> QED BY Zenon, <1>1, <2>1 DEF LogInv, LogBehind
<1>5. ASSUME NEW priority \in Priorities, NEW kind \in Kinds, RecordEvent(priority, kind)
      PROVE  LogInv'
  <2> DEFINE r == [number |-> numbers.next, kind |-> kind]
             ring == Pushed(log[priority], r)
  <2>1. log' = [log EXCEPT ![priority] = ring]
    BY Zenon, <1>5 DEF RecordEvent
  <2>2. numbers.next \in Nat
    BY DEF LogInv, NumbersInv
  <2>3. r \in Record /\ r.number = numbers.next
    BY <2>2 DEF Record
  <2>4. numbers.next < issued'
    BY <1>1, <1>5, <2>2 DEF RecordEvent
  <2>5. ring \subseteq {r} \cup log[priority]
    BY Zenon DEF Pushed
  <2> HIDE DEF r, ring
  <2>6. log' \in [Priorities -> SUBSET Record]
    BY Zenon, <2>1, <2>3, <2>5 DEF LogInv
  <2>7. ASSUME NEW p \in Priorities, NEW x \in log'[p]
        PROVE  x.number \in Nat /\ x.number < issued'
    <3>1. x = r \/ x \in log[p]
      BY Zenon, <2>1, <2>5, <2>7 DEF LogInv
    <3>2. ASSUME x \in log[p] PROVE x.number \in Nat /\ x.number < issued'
      <4>1. x.number \in Nat /\ x.number < issued
        BY Zenon, <3>2 DEF LogInv, LogBehind
      <4> QED BY <1>1, <4>1
    <3> QED BY Zenon, <2>2, <2>3, <2>4, <3>1, <3>2
  <2> QED BY Zenon, <1>1, <2>6, <2>7 DEF LogInv, LogBehind
<1> QED BY Zenon, <1>1, <1>2, <1>3, <1>4, <1>5 DEF EventStep

\* What a step of the device does to the event log is one of its operations.
LEMMA EventSteps ==
    ASSUME [Next]_vars
    PROVE  EventStep
<1>1. CASE Restart
  BY Zenon, <1>1 DEF Restart, EventStep
<1>2. CASE Reserve
  BY Zenon, <1>2 DEF Reserve, EventStep
<1>3. ASSUME NEW priority \in Priorities, NEW kind \in Kinds, Happen(priority, kind)
      PROVE  EventStep
  BY Zenon, <1>3 DEF Happen, EventStep
<1>4. ASSUME UNCHANGED events PROVE EventStep
  BY Zenon, <1>4 DEF EventStep
<1>5. ASSUME NEW path \in Attributes, Change(path) PROVE UNCHANGED events
  BY Zenon, <1>5 DEF Change
<1>6. ASSUME NEW peer \in Peers, NEW keep \in BOOLEAN,
             Subscribe(peer, keep) \/ SubscribeRefused(peer, keep)
      PROVE  UNCHANGED events
  BY Zenon, <1>6 DEF Subscribe, SubscribeRefused
<1>7. ASSUME NEW id \in Ids, \/ StatusOnPriming(id) \/ PrimingForgotten(id)
                             \/ ReportSettled(id) \/ StatusOnReport(id)
      PROVE  UNCHANGED events
  BY Zenon, <1>7 DEF StatusOnPriming, PrimingForgotten, ReportSettled, StatusOnReport
<1>8. ASSUME NEW t \in todo, ReportWaits(t) \/ ReportSent(t) \/ ReportFails(t)
      PROVE  UNCHANGED events
  BY Zenon, <1>8 DEF ReportWaits, ReportSent, ReportFails
<1>9. ASSUME NEW peer \in Peers, SessionUp(peer) \/ SessionClosed(peer)
      PROVE  UNCHANGED events
  BY Zenon, <1>9 DEF SessionUp, SessionClosed, Ended
<1>10. ASSUME NEW fabric \in Fabrics, FabricRemoved(fabric) PROVE UNCHANGED events
  BY Zenon, <1>10 DEF FabricRemoved, Ended
<1>11. ASSUME NEW t \in 1 .. MaxSleep, Tick(t) PROVE UNCHANGED events
  BY Zenon, <1>11 DEF Tick
<1>12. ASSUME Save PROVE UNCHANGED events
  BY Zenon, <1>12 DEF Save
<1>13. ASSUME UNCHANGED vars PROVE UNCHANGED events
  BY Zenon, <1>13 DEF vars
<1> QED BY Zenon, <1>1, <1>2, <1>3, <1>4, <1>5, <1>6, <1>7, <1>8, <1>9, <1>10, <1>11, <1>12,
           <1>13 DEF Next

\* Across every restart and every moment it can come at, the next event number is above
\* all that were ever given.
THEOREM NumbersOnce == Spec => []NumbersNeverReused
<1>1. Init => NumbersInv
  BY DEF Init, EventInit, Restored, NumbersInv
<1>2. NumbersInv /\ [Next]_vars => NumbersInv'
  BY Zenon, NumbersStep, EventSteps
<1>3. NumbersInv => NumbersNeverReused
  BY DEF NumbersInv, NumbersNeverReused
<1> QED BY <1>1, <1>2, <1>3, PTL DEF Spec

-----------------------------------------------------------------------------
(* The table of subscriptions *)

\* Every subscription and its subscriber are as Good says.
TableInv ==
    /\ subs \in [Ids -> Subscription \cup {None}] /\ twin \in [Ids -> Twin]
    /\ priming \in [Ids -> {None, "more", "last"}]
    /\ \A id \in Ids : subs[id] # None => Good(subs[id], twin[id], priming[id], issued)

\* A step keeps the table when for each id the subscription ends, is left alone or stays good.
LEMMA TableStep ==
    ASSUME TableInv, issued \in Nat, issued' \in Nat, issued <= issued',
           subs' = [x \in Ids |-> subs'[x]], twin' = [x \in Ids |-> twin'[x]],
           priming' = [x \in Ids |-> priming'[x]],
           \A x \in Ids : priming'[x] \in {None, "more", "last"},
           \A x \in Ids :
               \/ subs'[x] = None /\ twin'[x] \in Twin
               \/ subs'[x] = subs[x] /\ twin'[x] = twin[x] /\ priming'[x] = priming[x]
               \/ Good(subs'[x], twin'[x], priming'[x], issued')
    PROVE  TableInv'
<1>1. ASSUME NEW x \in Ids
      PROVE  /\ subs'[x] \in Subscription \cup {None} /\ twin'[x] \in Twin
             /\ subs'[x] # None => Good(subs'[x], twin'[x], priming'[x], issued')
  <2>1. CASE subs'[x] = None /\ twin'[x] \in Twin
    BY Zenon, <2>1
  <2>2. CASE subs'[x] = subs[x] /\ twin'[x] = twin[x] /\ priming'[x] = priming[x]
    <3>1. subs[x] \in Subscription \cup {None} /\ twin[x] \in Twin
      BY Zenon DEF TableInv
    <3>2. ASSUME subs[x] # None PROVE Good(subs[x], twin[x], priming[x], issued')
      <4>1. Good(subs[x], twin[x], priming[x], issued)
        BY Zenon, <3>2 DEF TableInv
      <4> QED BY Zenon, <4>1, LaterGood
    <3> QED BY Zenon, <2>2, <3>1, <3>2
  <2>3. CASE Good(subs'[x], twin'[x], priming'[x], issued')
    BY Zenon, <2>3 DEF Good, Sound
  <2> QED BY Zenon, <2>1, <2>2, <2>3
<1>2. subs' \in [Ids -> Subscription \cup {None}]
  BY Zenon, <1>1
<1>3. twin' \in [Ids -> Twin]
  BY Zenon, <1>1
<1>4. priming' \in [Ids -> {None, "more", "last"}]
  BY Zenon
<1> QED BY Zenon, <1>1, <1>2, <1>3, <1>4 DEF TableInv

\* What an entry of the table is before a step.
LEMMA Entry ==
    ASSUME TableInv, NEW x \in Ids
    PROVE  /\ subs[x] \in Subscription \cup {None} /\ twin[x] \in Twin
           /\ priming[x] \in {None, "more", "last"}
           /\ x \in Active <=> subs[x] # None
           /\ subs[x] # None => subs[x] \in Subscription
                                /\ Good(subs[x], twin[x], priming[x], issued)
  BY Zenon DEF TableInv, Active

\* A change of a cluster keeps the table.
LEMMA ChangeTable ==
    ASSUME TableInv, issued \in Nat, NEW path \in Attributes, Change(path)
    PROVE  TableInv'
<1>1. /\ subs' = [id \in Ids |-> IF Covers(id, path) THEN Inserted(subs[id], path) ELSE subs[id]]
      /\ twin' = [id \in Ids |-> IF Covers(id, path) THEN Changed(id, path) ELSE twin[id]]
      /\ priming' = priming /\ issued' = issued
  BY Zenon DEF Change, events
<1>2. issued <= issued
  OBVIOUS
<1>3. priming' = [x \in Ids |-> priming'[x]] /\ \A x \in Ids : priming'[x] = priming[x]
  BY Zenon, <1>1 DEF TableInv
<1>4. subs' = [x \in Ids |-> subs'[x]] /\ twin' = [x \in Ids |-> twin'[x]]
  BY Zenon, <1>1
<1>5. ASSUME NEW x \in Ids, Covers(x, path)
      PROVE  Good(subs'[x], twin'[x], priming'[x], issued)
  <2>1. subs[x] # None /\ path \in Range(Asked(subs[x]).paths)
    BY Zenon, <1>5 DEF Covers, Active
  <2>2. Good(subs[x], twin[x], priming[x], issued)
    BY Zenon, <2>1, Entry
  <2>3. subs'[x] = Inserted(subs[x], path) /\ twin'[x] = Changed(x, path)
    BY Zenon, <1>1, <1>5
  <2> DEFINE s == subs[x]  w == twin[x]  pr == priming[x]
             v == [w EXCEPT
                   !.stale = w.stale \cup {path},
                   !.lapsed = IF pr = None /\ ~PartWay(s) THEN @
                              ELSE IF Inserted(s, path).full # s.full THEN w.stale \cup {path}
                              ELSE @ \cup {path}]
  <2>4. Changed(x, path) = v
    BY Zenon DEF Changed
  <2>5. Good(Inserted(s, path), v, pr, issued)
    <3> HIDE DEF s, w, pr
    <3>1. Good(s, w, pr, issued) /\ path \in Range(Asked(s).paths)
      BY Zenon, <2>1, <2>2 DEF s, w, pr
    <3> QED BY Zenon, <3>1, InsertedGood
  <2> QED BY Zenon, <1>3, <2>3, <2>4, <2>5
<1>6. ASSUME NEW x \in Ids, ~Covers(x, path)
      PROVE  subs'[x] = subs[x] /\ twin'[x] = twin[x] /\ priming'[x] = priming[x]
  BY Zenon, <1>1, <1>6
<1>7. \A x \in Ids : priming'[x] \in {None, "more", "last"}
  BY Zenon, <1>3, Entry
<1>8. \A x \in Ids :
          \/ subs'[x] = None /\ twin'[x] \in Twin
          \/ subs'[x] = subs[x] /\ twin'[x] = twin[x] /\ priming'[x] = priming[x]
          \/ Good(subs'[x], twin'[x], priming'[x], issued')
  BY Zenon, <1>1, <1>5, <1>6
<1> QED BY Zenon, <1>1, <1>2, <1>3, <1>4, <1>7, <1>8, TableStep

\* A step that touches neither the list nor the bookmarks of a subscription keeps the table.
LEMMA AsideTable ==
    ASSUME TableInv, issued \in Nat, issued' \in Nat, issued <= issued',
           subs' = [x \in Ids |-> subs'[x]], UNCHANGED <<twin, priming>>,
           \A x \in Ids : \/ subs'[x] = subs[x]
                          \/ /\ subs[x] # None /\ subs'[x] \in Subscription
                             /\ subs'[x].peer = subs[x].peer /\ subs'[x].dirty = subs[x].dirty
                             /\ subs'[x].full = subs[x].full
                             /\ subs'[x].cursor = subs[x].cursor
                             /\ subs'[x].from = subs[x].from
                             /\ subs'[x].through = subs[x].through
    PROVE  TableInv'
<1>1. priming' = [x \in Ids |-> priming'[x]] /\ twin' = [x \in Ids |-> twin'[x]]
      /\ \A x \in Ids : priming'[x] = priming[x] /\ twin'[x] = twin[x]
  BY Zenon DEF TableInv
<1>2. \A x \in Ids : priming'[x] \in {None, "more", "last"}
  BY Zenon, <1>1, Entry
<1>3. ASSUME NEW x \in Ids, subs'[x] # subs[x]
      PROVE  Good(subs'[x], twin'[x], priming'[x], issued')
  <2>1. Good(subs[x], twin[x], priming[x], issued)
    BY Zenon, <1>3, Entry
  <2>2. Good(subs'[x], twin[x], priming[x], issued)
    <3> DEFINE s == subs[x]  w == twin[x]  pr == priming[x]  y == subs'[x]
    <3>1. /\ Good(s, w, pr, issued) /\ y \in Subscription /\ y.peer = s.peer
          /\ y.dirty = s.dirty /\ y.full = s.full /\ y.cursor = s.cursor
          /\ y.from = s.from /\ y.through = s.through
      BY Zenon, <1>3, <2>1
    <3> HIDE DEF s, w, pr, y
    <3>2. Good(y, w, pr, issued)
      BY Zenon, <3>1, SameReport
    <3> QED BY Zenon, <3>2 DEF s, w, pr, y
  <2>3. Good(subs'[x], twin[x], priming[x], issued')
    BY Zenon, <2>2, LaterGood
  <2> QED BY Zenon, <1>1, <2>3
<1>4. \A x \in Ids :
          \/ subs'[x] = None /\ twin'[x] \in Twin
          \/ subs'[x] = subs[x] /\ twin'[x] = twin[x] /\ priming'[x] = priming[x]
          \/ Good(subs'[x], twin'[x], priming'[x], issued')
  BY Zenon, <1>1, <1>3
<1> QED BY Zenon, <1>1, <1>2, <1>4, TableStep

\* An event, urgent for some.
LEMMA HappenTable ==
    ASSUME TableInv, LogInv, NEW priority \in Priorities, NEW kind \in Kinds,
           Happen(priority, kind)
    PROVE  TableInv'
<1> DEFINE hit(x) == x \in Active /\ kind \in Asked(subs[x]).urgent
<1>1. /\ subs' = [x \in Ids |-> IF hit(x) THEN [subs[x] EXCEPT !.urgent = TRUE] ELSE subs[x]]
      /\ UNCHANGED <<twin, priming>>
  BY Zenon DEF Happen, history
<1>2. EventStep
  BY Zenon DEF Happen, EventStep
<1>3. issued \in Nat /\ issued' \in Nat /\ issued <= issued'
  BY Zenon, <1>2, LogStep DEF LogInv, NumbersInv
<1>4. ASSUME NEW x \in Ids, hit(x)
      PROVE  /\ subs[x] # None /\ subs'[x] \in Subscription
             /\ subs'[x].peer = subs[x].peer /\ subs'[x].dirty = subs[x].dirty
             /\ subs'[x].full = subs[x].full /\ subs'[x].cursor = subs[x].cursor
             /\ subs'[x].from = subs[x].from /\ subs'[x].through = subs[x].through
  <2> DEFINE s == subs[x]  y == subs'[x]
  <2>1. s # None /\ s \in Subscription
    BY Zenon, <1>4, Entry
  <2>2. y = [s EXCEPT !.urgent = TRUE]
    BY Zenon, <1>1, <1>4
  <2> HIDE DEF s, y
  <2>3. y = [peer |-> s.peer, bound |-> s.bound, age |-> s.age, dirty |-> s.dirty,
             full |-> s.full, cursor |-> s.cursor, urgent |-> TRUE, from |-> s.from,
             through |-> s.through]
    BY Zenon, <2>1, <2>2, SetField
  <2>4. /\ s.peer \in Peers /\ s.bound \in BOOLEAN /\ s.age \in Nat /\ s.dirty \in Seq(Attributes)
        /\ s.full \in BOOLEAN /\ s.cursor \in Cursor /\ s.from \in Nat /\ s.through \in Nat
    BY Zenon, <2>1, Parts
  <2>5. /\ y \in Subscription /\ y.peer = s.peer /\ y.dirty = s.dirty /\ y.full = s.full
        /\ y.cursor = s.cursor /\ y.from = s.from /\ y.through = s.through
    BY <2>3, <2>4 DEF Subscription
  <2> QED BY Zenon, <2>1, <2>5 DEF s, y
<1>5. subs' = [x \in Ids |-> subs'[x]] /\ \A x \in Ids : ~hit(x) => subs'[x] = subs[x]
  BY Zenon, <1>1
<1> QED BY Zenon, <1>1, <1>3, <1>4, <1>5, AsideTable

\* A twin nothing is known of is one.
LEMMA UnsentTwin == Unsent \in Twin
  BY DEF Unsent, Twin

\* A step that ends some subscriptions and leaves the others keeps the table.
LEMMA EndedTable ==
    ASSUME TableInv, issued \in Nat, issued' = issued, NEW gone,
           subs' = Without(subs, gone, None), twin' = Without(twin, gone, Unsent),
           priming' = priming \/ priming' = Without(priming, gone, None)
    PROVE  TableInv'
<1>1. issued' \in Nat /\ issued <= issued'
  OBVIOUS
<1>2. /\ subs' = [x \in Ids |-> subs'[x]] /\ twin' = [x \in Ids |-> twin'[x]]
      /\ priming' = [x \in Ids |-> priming'[x]]
  BY Zenon DEF Without, TableInv
<1>3. ASSUME NEW x \in Ids
      PROVE  /\ x \in gone => subs'[x] = None /\ twin'[x] = Unsent
             /\ x \notin gone => /\ subs'[x] = subs[x] /\ twin'[x] = twin[x]
                                 /\ priming'[x] = priming[x]
             /\ priming'[x] = priming[x] \/ priming'[x] = None
  BY Zenon DEF Without
<1>4. \A x \in Ids : priming'[x] \in {None, "more", "last"}
  BY Zenon, <1>3, Entry
<1>5. \A x \in Ids :
          \/ subs'[x] = None /\ twin'[x] \in Twin
          \/ subs'[x] = subs[x] /\ twin'[x] = twin[x] /\ priming'[x] = priming[x]
          \/ Good(subs'[x], twin'[x], priming'[x], issued')
  BY Zenon, <1>3, UnsentTwin
<1> QED BY Zenon, <1>1, <1>2, <1>4, <1>5, TableStep

\* A step on one subscription keeps the table if it keeps that one good.
LEMMA OneTable ==
    ASSUME TableInv, issued \in Nat, issued' = issued, NEW id \in Ids, NEW s, NEW w, NEW pr,
           subs' = [subs EXCEPT ![id] = s], twin' = [twin EXCEPT ![id] = w],
           priming' = [priming EXCEPT ![id] = pr], pr \in {None, "more", "last"},
           Good(s, w, pr, issued) \/ (s = None /\ w \in Twin)
    PROVE  TableInv'
<1>1. issued' \in Nat /\ issued <= issued'
  OBVIOUS
<1>2. /\ subs' = [x \in Ids |-> subs'[x]] /\ twin' = [x \in Ids |-> twin'[x]]
      /\ priming' = [x \in Ids |-> priming'[x]]
  BY Zenon DEF TableInv
<1>3. ASSUME NEW x \in Ids
      PROVE  /\ x = id => subs'[x] = s /\ twin'[x] = w /\ priming'[x] = pr
             /\ x # id => /\ subs'[x] = subs[x] /\ twin'[x] = twin[x]
                          /\ priming'[x] = priming[x]
  BY Zenon DEF TableInv
<1>4. \A x \in Ids : priming'[x] \in {None, "more", "last"}
  BY Zenon, <1>3, Entry
<1>5. \A x \in Ids :
          \/ subs'[x] = None /\ twin'[x] \in Twin
          \/ subs'[x] = subs[x] /\ twin'[x] = twin[x] /\ priming'[x] = priming[x]
          \/ Good(subs'[x], twin'[x], priming'[x], issued')
  BY Zenon, <1>3
<1> QED BY Zenon, <1>1, <1>2, <1>4, <1>5, TableStep

\* A subscription that is admitted, and the priming report that answers the request.
LEMMA SubscribeTable ==
    ASSUME TableInv, LogInv, lastId \in 0 .. MaxId, NEW peer \in Peers, NEW keep \in BOOLEAN,
           Subscribe(peer, keep)
    PROVE  TableInv' /\ repeated' = repeated /\ lastId' \in 0 .. MaxId
<1> DEFINE gone == Replaced(peer, keep)  id == lastId + 1  c == Chunk(Subscribed(peer))
           pr == IF c.more THEN "more" ELSE "last"
           w == After(Unknown(peer), c)
<1>1. /\ subs' = [Without(subs, gone, None) EXCEPT ![id] = c.sub]
      /\ twin' = [Without(twin, gone, Unsent) EXCEPT ![id] = w]
      /\ priming' = [priming EXCEPT ![id] = pr]
      /\ lastId < MaxId /\ lastId' = id /\ issued' = issued /\ repeated' = repeated
  BY Zenon DEF Subscribe, events
<1>2. id \in Ids /\ id \in 0 .. MaxId
  BY <1>1, ReportingAssumption DEF Ids
<1>3. issued \in Nat /\ issued' \in Nat /\ issued <= issued' /\ LogBehind
  <2>1. issued \in Nat /\ LogBehind
    BY Zenon DEF LogInv, NumbersInv
  <2> QED BY <1>1, <2>1
<1>4. Good(c.sub, w, pr, issued)
  <2>1. Good(Subscribed(peer), Unknown(peer), "more", issued)
    <3>1. 0 \in Nat /\ 0 <= issued
      BY <1>3
    <3> QED BY Zenon, <1>3, <3>1, FreshGood
  <2>2. "more" # "last"
    OBVIOUS
  <2> QED BY Zenon, <1>3, <2>1, <2>2, SentGood
<1> HIDE DEF gone, id, c, pr, w
<1>5. /\ subs' = [x \in Ids |-> subs'[x]] /\ twin' = [x \in Ids |-> twin'[x]]
      /\ priming' = [x \in Ids |-> priming'[x]]
  BY Zenon, <1>1 DEF Without, TableInv
<1>6. ASSUME NEW x \in Ids
      PROVE  /\ x = id => subs'[x] = c.sub /\ twin'[x] = w /\ priming'[x] = pr
             /\ x # id => priming'[x] = priming[x]
             /\ x # id /\ x \in gone => subs'[x] = None /\ twin'[x] = Unsent
             /\ x # id /\ x \notin gone => subs'[x] = subs[x] /\ twin'[x] = twin[x]
  BY Zenon, <1>1 DEF Without, TableInv
<1>7. \A x \in Ids : priming'[x] \in {None, "more", "last"}
  BY Zenon, <1>6, Entry DEF pr
<1>8. \A x \in Ids :
          \/ subs'[x] = None /\ twin'[x] \in Twin
          \/ subs'[x] = subs[x] /\ twin'[x] = twin[x] /\ priming'[x] = priming[x]
          \/ Good(subs'[x], twin'[x], priming'[x], issued')
  BY Zenon, <1>1, <1>4, <1>6, UnsentTwin
<1>9. TableInv'
  BY Zenon, <1>3, <1>5, <1>7, <1>8, TableStep
<1> QED BY Zenon, <1>1, <1>2, <1>9

\* The answer to a message of a priming report, and the priming given up.
LEMMA PrimingTable ==
    ASSUME TableInv, LogInv, repeated = FALSE, NEW id \in Ids,
           StatusOnPriming(id) \/ PrimingForgotten(id)
    PROVE  TableInv' /\ repeated' = FALSE
<1> DEFINE s == subs[id]  w == twin[id]  c == Chunk(s)
<1>1. issued \in Nat /\ LogBehind
  BY Zenon DEF LogInv, NumbersInv
<1>2. /\ s \in Subscription \cup {None} /\ w \in Twin /\ priming[id] \in {None, "more", "last"}
      /\ id \in Active <=> s # None
      /\ s # None => Good(s, w, priming[id], issued)
  BY Zenon, Entry
<1>3. issued' = issued
  BY Zenon DEF StatusOnPriming, PrimingForgotten, events
<1>4. subs = [subs EXCEPT ![id] = s] /\ twin = [twin EXCEPT ![id] = w]
  BY Zenon DEF TableInv
<1>5. CASE StatusOnPriming(id) /\ id \notin Active
  <2>1. priming' = [priming EXCEPT ![id] = None] /\ subs' = subs /\ twin' = twin
        /\ repeated' = repeated
    BY Zenon, <1>5 DEF StatusOnPriming, history
  <2>2. TableInv'
    BY Zenon, <1>1, <1>2, <1>3, <1>4, <1>5, <2>1, OneTable
  <2> QED BY Zenon, <2>1, <2>2
<1>6. CASE StatusOnPriming(id) /\ id \in Active /\ priming[id] = "more"
  <2> DEFINE pr == IF c.more THEN "more" ELSE "last"
  <2>1. /\ priming' = [priming EXCEPT ![id] = pr] /\ subs' = [subs EXCEPT ![id] = c.sub]
        /\ twin' = [twin EXCEPT ![id] = After(w, c)]
        /\ repeated' = (repeated \/ w.delivered \cap c.numbers # {})
    BY Zenon, <1>6 DEF StatusOnPriming, Repeats
  <2>2. Good(s, w, "more", issued) /\ "more" # "last"
    BY <1>2, <1>6
  <2>3. w.delivered \cap c.numbers = {} /\ Good(c.sub, After(w, c), pr, issued)
    <3> HIDE DEF s, w
    <3> QED BY Zenon, <1>1, <2>2, SentGood
  <2>4. pr \in {None, "more", "last"}
    BY Zenon
  <2>5. TableInv'
    <3> HIDE DEF c, pr, w
    <3> QED BY Zenon, <1>1, <1>3, <2>1, <2>3, <2>4, OneTable
  <2> QED BY Zenon, <2>1, <2>3, <2>5
<1>7. CASE StatusOnPriming(id) /\ id \in Active /\ priming[id] # "more"
  <2>1. /\ priming' = [priming EXCEPT ![id] = None] /\ subs' = [subs EXCEPT ![id] = Reported(s)]
        /\ twin' = twin /\ repeated' = repeated
    BY Zenon, <1>7 DEF StatusOnPriming, history
  <2>2. priming[id] = "last"
    BY Zenon, <1>2, <1>7 DEF StatusOnPriming
  <2>3. Good(Reported(s), w, None, issued)
    <3>1. /\ Sound(s, issued) /\ w \in Twin /\ w.stale \subseteq Range(Asked(s).paths)
          /\ w.stale \subseteq w.lapsed
          /\ \A m \in w.delivered : m < s.from \/ m < s.through
      BY Zenon, <1>2, <1>7, <2>2 DEF Good
    <3> HIDE DEF s, w
    <3> QED BY Zenon, <1>1, <3>1, ReportedGood
  <2>4. TableInv'
    BY Zenon, <1>1, <1>3, <1>4, <2>1, <2>3, OneTable
  <2> QED BY Zenon, <2>1, <2>4
<1>8. CASE PrimingForgotten(id)
  <2> DEFINE v == [w EXCEPT !.delivered = {}]
  <2>1. /\ priming' = [priming EXCEPT ![id] = None] /\ subs' = subs
        /\ twin' = [twin EXCEPT ![id] = v] /\ repeated' = repeated
    BY Zenon, <1>8 DEF PrimingForgotten, table
  <2>2. v = [stale |-> w.stale, lapsed |-> w.lapsed, delivered |-> {}, failed |-> w.failed]
    <3> HIDE DEF w
    <3> QED BY Zenon, <1>2, TwinSet
  <2>3. /\ v \in Twin /\ v.stale = w.stale /\ v.lapsed = w.lapsed /\ v.delivered = {}
    <3> HIDE DEF v, w
    <3>1. /\ w.stale \in SUBSET Attributes /\ w.lapsed \in SUBSET Attributes
          /\ w.failed \in BOOLEAN /\ {} \in SUBSET Nat
      BY Zenon, <1>2, TwinParts
    <3>2. v \in Twin
      BY Zenon, <2>2, <3>1 DEF Twin
    <3>3. v.stale = w.stale /\ v.lapsed = w.lapsed /\ v.delivered = {}
      BY <2>2
    <3> QED BY Zenon, <3>2, <3>3
  <2> HIDE DEF v
  <2>4. s = None \/ Good(s, v, None, issued)
    BY Zenon, <1>2, <2>3, NoneIsNot DEF Good
  <2>5. TableInv'
    BY Zenon, <1>1, <1>3, <1>4, <2>1, <2>3, <2>4, OneTable
  <2> QED BY Zenon, <2>1, <2>5
<1> QED BY Zenon, <1>5, <1>6, <1>7, <1>8

\* What is left of a round is due and not being primed, and a KeepAlive is only for a
\* subscription with nothing pending.
RoundInv ==
    /\ todo \subseteq Ids \X {"Data", "KeepAlive"}
    /\ \A t \in todo : /\ subs[t[1]] # None /\ priming[t[1]] = None
                       /\ t[2] = "KeepAlive" => ~HasPending(subs[t[1]])

\* A report of the round, sent.
LEMMA ReportSentTable ==
    ASSUME TableInv, LogInv, RoundInv, repeated = FALSE, NEW t \in todo, ReportSent(t)
    PROVE  /\ TableInv' /\ repeated' = FALSE
           /\ t[1] \in Ids /\ priming' = priming
           /\ subs'[t[1]] \in Subscription /\ ~HasPending(subs'[t[1]]) /\ subs'[t[1]].age = 0
           /\ \A x \in Ids \ {t[1]} : subs'[x] = subs[x] /\ twin'[x] = twin[x]
<1> DEFINE id == t[1]  s == subs[id]  w == twin[id]  c == Built(id, t[2])  seen == After(w, c)
           r == Reported(c.sub)
           v == [seen EXCEPT !.lapsed = IF c.more THEN seen.stale ELSE @]
<1>1. issued \in Nat /\ LogBehind
  BY Zenon DEF LogInv, NumbersInv
<1>2. id \in Ids /\ t[2] \in {"Data", "KeepAlive"}
  BY DEF RoundInv
<1>3. s # None /\ priming[id] = None /\ (t[2] = "KeepAlive" => ~HasPending(s))
  BY Zenon DEF RoundInv
<1>4. Good(s, w, None, issued)
  BY Zenon, <1>2, <1>3, Entry
<1>5. /\ subs' = [subs EXCEPT ![id] = r] /\ twin' = [twin EXCEPT ![id] = v]
      /\ repeated' = (repeated \/ w.delivered \cap c.numbers # {})
      /\ priming' = priming /\ issued' = issued
  BY Zenon DEF ReportSent, Repeats, events
<1>6. w.delivered \cap c.numbers = {} /\ Good(r, v, None, issued)
  <2>1. CASE t[2] = "Data"
    <3>1. c = Chunk(s)
      BY Zenon, <2>1 DEF Built
    <3> HIDE DEF c, s, w
    <3> QED BY Zenon, <1>1, <1>4, <3>1, SentGood, NoneIsNot
  <2>2. CASE t[2] # "Data"
    <3>1. c = Empty(s)
      BY Zenon, <2>2 DEF Built
    <3>2. ~HasPending(s)
      BY Zenon, <1>2, <1>3, <2>2
    <3> HIDE DEF c, s, w
    <3>3. /\ c.more = FALSE /\ c.numbers = {} /\ Good(Reported(c.sub), After(w, c), None, issued)
      BY Zenon, <1>1, <1>4, <3>1, <3>2, EmptyGood
    <3>4. seen \in Twin
      BY Zenon, <3>3 DEF Good
    <3>5. v = [seen EXCEPT !.lapsed = seen.lapsed]
      BY Zenon, <3>3
    <3> HIDE DEF seen
    <3> DEFINE l == seen.lapsed
    <3>6. v = [seen EXCEPT !.lapsed = l]
      BY Zenon, <3>5
    <3> HIDE DEF l, v
    <3>7. v = [stale |-> seen.stale, lapsed |-> l, delivered |-> seen.delivered,
               failed |-> seen.failed]
      BY Zenon, <3>4, <3>6, TwinSet
    <3>8. v = seen
      BY Zenon, <3>4, <3>7, TwinParts DEF l
    <3> QED BY Zenon, <3>3, <3>8 DEF seen
  <2> QED BY Zenon, <2>1, <2>2
<1>7. r.age = 0 /\ r.dirty = <<>> /\ r.full = FALSE /\ r.urgent = FALSE
  BY Zenon DEF Reported
<1> HIDE DEF r, v, c, seen
<1>8. TableInv'
  <2>1. priming = [priming EXCEPT ![id] = None]
    BY Zenon, <1>2, <1>3 DEF TableInv
  <2> QED BY Zenon, <1>1, <1>2, <1>5, <1>6, <2>1, OneTable
<1>9. /\ subs'[id] = r /\ \A x \in Ids \ {id} : subs'[x] = subs[x] /\ twin'[x] = twin[x]
  BY Zenon, <1>2, <1>5 DEF TableInv
<1>10. r \in Subscription /\ ~HasPending(r)
  BY Zenon, <1>6, <1>7 DEF Good, Sound, HasPending
<1> QED BY Zenon, <1>2, <1>5, <1>6, <1>7, <1>8, <1>9, <1>10

\* A report of the round, built and not sent.
LEMMA ReportFailsTable ==
    ASSUME TableInv, LogInv, RoundInv, NEW t \in todo, ReportFails(t)
    PROVE  /\ TableInv' /\ t[1] \in Ids /\ priming' = priming
           /\ subs'[t[1]] \in Subscription
           /\ HasPending(subs'[t[1]]) => HasPending(subs[t[1]])
           /\ twin'[t[1]].failed = TRUE
           /\ \A x \in Ids \ {t[1]} : subs'[x] = subs[x] /\ twin'[x] = twin[x]
<1> DEFINE id == t[1]  s == subs[id]  w == twin[id]  c == Built(id, t[2])
           l == IF c.more THEN w.lapsed \cup c.paths ELSE w.lapsed
           v == [w EXCEPT !.failed = TRUE, !.lapsed = l]
<1>1. issued \in Nat /\ LogBehind
  BY Zenon DEF LogInv, NumbersInv
<1>2. id \in Ids /\ t[2] \in {"Data", "KeepAlive"}
  BY DEF RoundInv
<1>3. s # None /\ priming[id] = None /\ (t[2] = "KeepAlive" => ~HasPending(s))
  BY Zenon DEF RoundInv
<1>4. Good(s, w, None, issued) /\ w \in Twin /\ s \in Subscription /\ Sound(s, issued)
  BY Zenon, <1>2, <1>3, Entry DEF Good
<1>5. /\ subs' = [subs EXCEPT ![id] = c.sub]
      /\ twin' = [twin EXCEPT ![id].failed = TRUE,
                              ![id].lapsed = IF c.more THEN @ \cup c.paths ELSE @]
      /\ priming' = priming /\ issued' = issued
  BY Zenon DEF ReportFails, events
<1>6. twin' = [twin EXCEPT ![id] = v]
  BY Zenon, <1>2, <1>5 DEF TableInv, Twin
<1>7. /\ Good(c.sub, v, None, issued)
      /\ HasPending(c.sub) => HasPending(s)
  <2>1. CASE t[2] = "Data"
    <3>1. c = Chunk(s)
      BY Zenon, <2>1 DEF Built
    <3> HIDE DEF c, s, w
    <3>2. Good(c.sub, v, None, issued)
      BY Zenon, <1>1, <1>4, <3>1, FailedGood
    <3>3. c.sub.dirty = s.dirty /\ c.sub.full = s.full /\ c.sub.urgent = s.urgent
      BY Zenon, <1>1, <1>4, <3>1, ChunkMeans
    <3> QED BY Zenon, <3>2, <3>3 DEF HasPending
  <2>2. CASE t[2] # "Data"
    <3>1. c = Empty(s)
      BY Zenon, <2>2 DEF Built
    <3>2. ~HasPending(s)
      BY Zenon, <1>2, <1>3, <2>2
    <3> HIDE DEF c, s, w
    <3>3. /\ c.more = FALSE
          /\ Good(c.sub, [w EXCEPT !.failed = TRUE, !.lapsed = w.lapsed], None, issued)
      BY Zenon, <1>1, <1>4, <3>1, <3>2, EmptyGood
    <3>4. c.sub = [s EXCEPT !.cursor.done = TRUE]
      BY <3>1 DEF Empty
    <3>5. c.sub.dirty = s.dirty /\ c.sub.full = s.full /\ c.sub.urgent = s.urgent
      BY Zenon, <1>4, <3>4 DEF Subscription
    <3> QED BY Zenon, <3>3, <3>5 DEF HasPending
  <2> QED BY Zenon, <2>1, <2>2
<1>8. v = [stale |-> w.stale, lapsed |-> l, delivered |-> w.delivered, failed |-> TRUE]
  <2>1. v = [w EXCEPT !.failed = TRUE, !.lapsed = l]
    BY Zenon
  <2> HIDE DEF l, w, v
  <2> QED BY ZenonT(60), <1>4, <2>1, TwinSet
<1> HIDE DEF v, c, l
<1>9. v.failed = TRUE
  BY <1>8
<1>10. TableInv'
  <2>1. priming = [priming EXCEPT ![id] = None]
    BY Zenon, <1>2, <1>3 DEF TableInv
  <2> QED BY Zenon, <1>1, <1>2, <1>5, <1>6, <1>7, <2>1, OneTable
<1>11. /\ subs'[id] = c.sub /\ twin'[id] = v
       /\ \A x \in Ids \ {id} : subs'[x] = subs[x] /\ twin'[x] = twin[x]
  BY Zenon, <1>2, <1>5, <1>6 DEF TableInv
<1>12. c.sub \in Subscription
  BY Zenon, <1>7 DEF Good, Sound
<1> QED BY Zenon, <1>2, <1>5, <1>7, <1>9, <1>10, <1>11, <1>12

\* A session comes up, and time passes: the list and the bookmarks are left alone.
LEMMA SessionUpTable ==
    ASSUME TableInv, issued \in Nat, NEW peer \in Peers, SessionUp(peer)
    PROVE  TableInv'
<1> DEFINE hit(x) == x \in Active /\ subs[x].peer = peer /\ ~subs[x].bound
<1>1. /\ subs' = [x \in Ids |-> IF hit(x) THEN [subs[x] EXCEPT !.bound = TRUE, !.age = 0]
                                ELSE subs[x]]
      /\ UNCHANGED <<twin, priming>> /\ issued' = issued
  BY Zenon DEF SessionUp, history, events
<1>2. issued' \in Nat /\ issued <= issued'
  <2>1. issued' = issued
    BY Zenon, <1>1
  <2> QED BY <2>1
<1>3. ASSUME NEW x \in Ids, hit(x)
      PROVE  /\ subs[x] # None /\ subs'[x] \in Subscription
             /\ subs'[x].peer = subs[x].peer /\ subs'[x].dirty = subs[x].dirty
             /\ subs'[x].full = subs[x].full /\ subs'[x].cursor = subs[x].cursor
             /\ subs'[x].from = subs[x].from /\ subs'[x].through = subs[x].through
  <2> DEFINE s == subs[x]  y == subs'[x]  z == [s EXCEPT !.bound = TRUE]
  <2>1. s # None /\ s \in Subscription
    BY Zenon, <1>3, Entry
  <2>2. y = [s EXCEPT !.bound = TRUE, !.age = 0]
    BY Zenon, <1>1, <1>3
  <2> HIDE DEF s, y
  <2>3. y = [z EXCEPT !.age = 0]
    BY Zenon, <2>1, <2>2 DEF Subscription
  <2>4. z = [peer |-> s.peer, bound |-> TRUE, age |-> s.age, dirty |-> s.dirty,
             full |-> s.full, cursor |-> s.cursor, urgent |-> s.urgent, from |-> s.from,
             through |-> s.through]
    BY Zenon, <2>1, SetField
  <2>5. /\ s.peer \in Peers /\ s.age \in Nat /\ s.dirty \in Seq(Attributes)
        /\ s.full \in BOOLEAN /\ s.cursor \in Cursor /\ s.urgent \in BOOLEAN
        /\ s.from \in Nat /\ s.through \in Nat
    BY ZenonT(60), <2>1, Parts
  <2> HIDE DEF z
  <2>6. /\ z \in Subscription /\ z.peer = s.peer /\ z.bound = TRUE /\ z.dirty = s.dirty
        /\ z.full = s.full /\ z.cursor = s.cursor /\ z.urgent = s.urgent /\ z.from = s.from
        /\ z.through = s.through
    BY <2>4, <2>5 DEF Subscription
  <2>7. y = [peer |-> z.peer, bound |-> z.bound, age |-> 0, dirty |-> z.dirty,
             full |-> z.full, cursor |-> z.cursor, urgent |-> z.urgent, from |-> z.from,
             through |-> z.through]
    <3>1. z \in Subscription /\ 0 \in Nat
      BY ZenonT(60), <2>6
    <3> QED BY Zenon, <2>3, <3>1, SetField
  <2>8. /\ y \in Subscription /\ y.peer = s.peer /\ y.dirty = s.dirty /\ y.full = s.full
        /\ y.cursor = s.cursor /\ y.from = s.from /\ y.through = s.through
    BY <2>5, <2>6, <2>7 DEF Subscription
  <2> QED BY Zenon, <2>1, <2>8 DEF s, y
<1>4. subs' = [x \in Ids |-> subs'[x]] /\ \A x \in Ids : ~hit(x) => subs'[x] = subs[x]
  BY Zenon, <1>1
<1> QED BY Zenon, <1>1, <1>2, <1>3, <1>4, AsideTable

\* The passing of time keeps the table.
LEMMA TickTable ==
    ASSUME TableInv, issued \in Nat, NEW t \in 1 .. MaxSleep, Tick(t)
    PROVE  TableInv'
<1> DEFINE hit(x) == x \in {id \in Active : subs[id].bound}
           age(x) == Least(subs[x].age + t, Asked(subs[x]).max)
<1>1. /\ subs' = [x \in Ids |-> IF hit(x) THEN [subs[x] EXCEPT !.age = age(x)] ELSE subs[x]]
      /\ UNCHANGED <<twin, priming>> /\ issued' = issued
  BY Zenon DEF Tick, history, events
<1>2. issued' \in Nat /\ issued <= issued'
  <2>1. issued' = issued
    BY Zenon, <1>1
  <2> QED BY <2>1
<1>3. ASSUME NEW x \in Ids, hit(x)
      PROVE  /\ subs[x] # None /\ subs'[x] \in Subscription
             /\ subs'[x].peer = subs[x].peer /\ subs'[x].dirty = subs[x].dirty
             /\ subs'[x].full = subs[x].full /\ subs'[x].cursor = subs[x].cursor
             /\ subs'[x].from = subs[x].from /\ subs'[x].through = subs[x].through
  <2> DEFINE s == subs[x]  y == subs'[x]  a == age(x)
  <2>1. s # None /\ s \in Subscription /\ Good(s, twin[x], priming[x], issued)
    BY Zenon, <1>3, Entry
  <2>2. y = [s EXCEPT !.age = a]
    BY Zenon, <1>1, <1>3
  <2>3. /\ s.peer \in Peers /\ s.bound \in BOOLEAN /\ s.age \in Nat /\ s.dirty \in Seq(Attributes)
        /\ s.full \in BOOLEAN /\ s.cursor \in Cursor /\ s.urgent \in BOOLEAN
        /\ s.from \in Nat /\ s.through \in Nat
    BY Zenon, <2>1, Parts
  <2>4. a \in Nat
    <3>1. Asked(s).max \in Nat
      BY Zenon, <2>1, ListTypes DEF Good
    <3> DEFINE m == Asked(s).max  g == s.age
    <3>2. m \in Nat /\ g \in Nat /\ a = Least(g + t, m)
      BY Zenon, <2>3, <3>1
    <3> HIDE DEF m, g, a
    <3> QED BY <3>2 DEF Least
  <2> HIDE DEF s, y, a
  <2>5. y = [peer |-> s.peer, bound |-> s.bound, age |-> a, dirty |-> s.dirty,
             full |-> s.full, cursor |-> s.cursor, urgent |-> s.urgent, from |-> s.from,
             through |-> s.through]
    BY ZenonT(60), <2>1, <2>2, <2>4, SetField
  <2>6. /\ y \in Subscription /\ y.peer = s.peer /\ y.dirty = s.dirty /\ y.full = s.full
        /\ y.cursor = s.cursor /\ y.from = s.from /\ y.through = s.through
    BY Zenon, <2>3, <2>4, <2>5 DEF Subscription
  <2> QED BY Zenon, <2>1, <2>6 DEF s, y
<1>4. subs' = [x \in Ids |-> subs'[x]] /\ \A x \in Ids : ~hit(x) => subs'[x] = subs[x]
  BY Zenon, <1>1
<1> QED BY Zenon, <1>1, <1>2, <1>3, <1>4, AsideTable

-----------------------------------------------------------------------------
\* What is in storage: one record for an id, of a subscription with a fabric, and no
\* bookmark above the numbers given out.
SavedInv ==
    /\ saved \subseteq [id : Ids, peer : Peers, from : Nat]
    /\ \A d \in saved : d.from <= issued /\ FabricOf[d.peer] # None
    /\ \A d, e \in saved : d.id = e.id => d = e

\* The record of an id, for a restart.
LEMMA StoredRecord ==
    ASSUME SavedInv, NEW x, \E d \in saved : d.id = x
    PROVE  /\ (CHOOSE d \in saved : d.id = x) \in saved
           /\ (CHOOSE d \in saved : d.id = x).id = x
  BY Zenon

\* A restart makes the table out of storage.
LEMMA RestartTable ==
    ASSUME SavedInv, issued \in Nat, Restart
    PROVE  /\ TableInv' /\ RoundInv' /\ lastId' \in 0 .. MaxId
           /\ \A x \in Ids : subs'[x] # None =>
                  \E d \in saved : /\ d.id = x /\ subs'[x].peer = d.peer
                                   /\ subs'[x].bound = FALSE
<1> DEFINE has(x) == \E d \in saved : d.id = x
           rec(x) == CHOOSE d \in saved : d.id = x
<1>1. /\ subs' = [x \in Ids |-> IF has(x) THEN FromStorage(rec(x)) ELSE None]
      /\ twin' = [x \in Ids |-> IF has(x) THEN Unknown(rec(x).peer) ELSE Unsent]
      /\ priming' = [x \in Ids |-> None] /\ todo' = {} /\ issued' = issued
      /\ lastId' = Max({0} \cup {d.id : d \in saved})
  BY Zenon DEF Restart, EventRestart
<1>2. ASSUME NEW x \in Ids, has(x)
      PROVE  /\ Good(subs'[x], twin'[x], None, issued) /\ subs'[x] \in Subscription
             /\ subs'[x].bound = FALSE /\ twin'[x] \in Twin
             /\ rec(x) \in saved /\ rec(x).id = x /\ subs'[x].peer = rec(x).peer
  <2> DEFINE d == rec(x)
  <2>1. d \in saved /\ d.id = x
    BY Zenon, <1>2, StoredRecord
  <2>2. subs'[x] = FromStorage(d) /\ twin'[x] = Unknown(d.peer)
    BY Zenon, <1>1, <1>2
  <2> HIDE DEF d
  <2>3. d.peer \in Peers /\ d.from \in Nat
    BY <2>1 DEF SavedInv
  <2>4. d.from <= issued
    BY Zenon, <2>1 DEF SavedInv
  <2> DEFINE peer == d.peer  from == d.from
  <2>5. peer \in Peers /\ from \in Nat /\ from <= issued /\ d.peer = peer /\ d.from = from
    BY Zenon, <2>3, <2>4
  <2> HIDE DEF peer, from
  <2>6. /\ FromStorage(d) \in Subscription /\ FromStorage(d).bound = FALSE
        /\ FromStorage(d).peer = peer /\ Good(FromStorage(d), Unknown(peer), None, issued)
    <3>1. \A e : e.peer = peer /\ e.from = from =>
                    /\ FromStorage(e) \in Subscription /\ FromStorage(e).bound = FALSE
                    /\ FromStorage(e).peer = peer
                    /\ Good(FromStorage(e), Unknown(peer), None, issued)
      <4>1. peer \in Peers /\ from \in Nat /\ from <= issued
        BY Zenon, <2>5
      <4> QED BY Zenon, <4>1, FreshGood
    <3> QED BY Zenon, <2>5, <3>1
  <2>7. Unknown(peer) \in Twin
    BY Zenon, <2>6 DEF Good
  <2> QED BY Zenon, <2>1, <2>2, <2>5, <2>6, <2>7 DEF d
<1>3. ASSUME NEW x \in Ids, ~has(x)
      PROVE  subs'[x] = None /\ twin'[x] \in Twin
  BY Zenon, <1>1, <1>3, UnsentTwin
<1>4. \A x \in Ids : /\ subs'[x] \in Subscription \cup {None} /\ twin'[x] \in Twin
                     /\ subs'[x] # None => Good(subs'[x], twin'[x], priming'[x], issued')
  <2>1. \A x \in Ids : priming'[x] = None
    BY Zenon, <1>1
  <2> QED BY Zenon, <1>1, <1>2, <1>3, <2>1
<1>5. subs' = [x \in Ids |-> subs'[x]] /\ twin' = [x \in Ids |-> twin'[x]]
  BY Zenon, <1>1
<1>6. subs' \in [Ids -> Subscription \cup {None}] /\ twin' \in [Ids -> Twin]
  BY Zenon, <1>4, <1>5
<1>7. priming' \in [Ids -> {None, "more", "last"}]
  BY Zenon, <1>1
<1>8. TableInv'
  BY Zenon, <1>4, <1>6, <1>7 DEF TableInv
<1>9. RoundInv'
  BY Zenon, <1>1 DEF RoundInv
<1>10. lastId' \in 0 .. MaxId
  <2> DEFINE S == {0} \cup {d.id : d \in saved}
  <2>1. MaxId \in Nat
    BY Zenon, ReportingAssumption
  <2>2. \A d \in saved : d.id \in Ids
    BY DEF SavedInv
  <2>3. \A i \in Ids : i \in Nat /\ i <= MaxId
    BY <2>1 DEF Ids
  <2>4. S \in SUBSET Nat /\ S # {} /\ \A i \in S : i <= MaxId
    <3>1. 0 \in Nat /\ 0 <= MaxId
      BY <2>1
    <3> QED BY Zenon, <2>2, <2>3, <3>1
  <2>5. lastId' = Max(S)
    BY Zenon, <1>1
  <2> HIDE DEF S
  <2>6. lastId' \in S
    BY Zenon, <2>1, <2>4, <2>5, Greatest
  <2> QED BY <2>1, <2>4, <2>6
<1>11. \A x \in Ids : subs'[x] # None =>
           \E d \in saved : d.id = x /\ subs'[x].peer = d.peer /\ subs'[x].bound = FALSE
  BY Zenon, <1>2, <1>3
<1> QED BY Zenon, <1>8, <1>9, <1>10, <1>11

\* What the loop keeps, and that it has sent no event twice.
LoopInv ==
    /\ lastId \in 0 .. MaxId /\ live \subseteq Peers /\ reporting \subseteq Ids
    /\ open \in [Ids -> Nat] /\ repeated = FALSE

\* The inductive invariant of the table and the loop.
Inv == LogInv /\ TableInv /\ SavedInv /\ LoopInv /\ RoundInv

\* The round a step starts has what is due and not being primed.
LEMMA RoundStep ==
    ASSUME NextRound
    PROVE  RoundInv'
<1> DEFINE due == {id \in Ids : /\ subs'[id] # None /\ subs'[id].bound
                                /\ Due(subs'[id]) /\ priming'[id] = None}
<1>1. todo' = {<<id, Reason(subs'[id])>> : id \in due}
  BY Zenon DEF NextRound, DueNow
<1>2. ASSUME NEW t \in todo'
      PROVE  /\ t \in Ids \X {"Data", "KeepAlive"}
             /\ subs'[t[1]] # None /\ priming'[t[1]] = None
             /\ t[2] = "KeepAlive" => ~HasPending(subs'[t[1]])
  <2>1. PICK id \in due : t = <<id, Reason(subs'[id])>>
    BY Zenon, <1>1, <1>2
  <2>2. t[1] = id /\ t[2] = Reason(subs'[id])
    BY <2>1
  <2>3. Reason(subs'[id]) = IF HasPending(subs'[id]) THEN "Data" ELSE "KeepAlive"
    BY Zenon DEF Reason
  <2>4. Reason(subs'[id]) \in {"Data", "KeepAlive"}
    BY Zenon, <2>3
  <2>5. t \in Ids \X {"Data", "KeepAlive"}
    BY Zenon, <2>1, <2>4
  <2>6. t[2] = "KeepAlive" => ~HasPending(subs'[t[1]])
    <3>1. "Data" # "KeepAlive"
      OBVIOUS
    <3> QED BY Zenon, <2>2, <2>3, <3>1
  <2> QED BY Zenon, <2>2, <2>5, <2>6
<1> QED BY Zenon, <1>2 DEF RoundInv

\* Storage is written by a save alone.
LEMMA SavedStep ==
    ASSUME SavedInv, TableInv, issued \in Nat, issued' \in Nat, issued <= issued',
           saved' = saved \/ Save
    PROVE  SavedInv'
<1>1. CASE saved' = saved
  <2>1. ASSUME NEW d \in saved PROVE d.from <= issued'
    <3>1. d.from \in Nat
      BY <2>1 DEF SavedInv
    <3>2. d.from <= issued
      BY Zenon, <2>1 DEF SavedInv
    <3> DEFINE a == d.from
    <3>3. a \in Nat /\ a <= issued
      BY Zenon, <3>1, <3>2
    <3> HIDE DEF a
    <3>4. a <= issued'
      BY <3>3
    <3> QED BY Zenon, <3>4 DEF a
  <2> QED BY Zenon, <1>1, <2>1 DEF SavedInv
<1>2. CASE Save
  <2> DEFINE K == {x \in Active : FabricOf[subs[x].peer] # None}
             D(x) == [id |-> x, peer |-> subs[x].peer, from |-> subs[x].from]
  <2>1. saved' = {D(x) : x \in K} /\ issued' = issued
    BY Zenon, <1>2 DEF Save, events
  <2>2. ASSUME NEW x \in K
        PROVE  /\ D(x) \in [id : Ids, peer : Peers, from : Nat] /\ D(x).from <= issued
               /\ FabricOf[D(x).peer] # None /\ D(x).id = x
    <3>1. x \in Ids /\ subs[x] # None
      BY Zenon DEF Active
    <3>2. Good(subs[x], twin[x], priming[x], issued) /\ subs[x] \in Subscription
      BY Zenon, <3>1, Entry
    <3>3. subs[x].peer \in Peers /\ subs[x].from \in Nat /\ subs[x].from <= issued
      BY Zenon, <3>2, Parts DEF Good, Sound
    <3> DEFINE p == subs[x].peer  f == subs[x].from
    <3>4. p \in Peers /\ f \in Nat /\ f <= issued /\ FabricOf[p] # None
      BY Zenon, <3>3
    <3>5. D(x) = [id |-> x, peer |-> p, from |-> f]
      BY Zenon
    <3> HIDE DEF p, f, D
    <3>6. D(x) \in [id : Ids, peer : Peers, from : Nat]
      BY SMTT(60), <3>1, <3>4, <3>5
    <3>7. D(x).id = x /\ D(x).peer = p /\ D(x).from = f
      BY <3>5
    <3> QED BY Zenon, <3>4, <3>6, <3>7
  <2> HIDE DEF K, D
  <2>3. ASSUME NEW d \in saved', NEW e \in saved', d.id = e.id PROVE d = e
    <3>1. PICK x \in K : d = D(x)
      BY Zenon, <2>1
    <3>2. PICK y \in K : e = D(y)
      BY Zenon, <2>1
    <3>3. D(x).id = x /\ D(y).id = y
      BY Zenon, <2>2
    <3> QED BY Zenon, <2>3, <3>1, <3>2, <3>3
  <2>4. \A d \in saved' : /\ d \in [id : Ids, peer : Peers, from : Nat] /\ d.from <= issued'
                          /\ FabricOf[d.peer] # None
    BY ZenonT(60), <2>1, <2>2
  <2> QED BY Zenon, <2>3, <2>4 DEF SavedInv
<1> QED BY Zenon, <1>1, <1>2

\* What a step leaves of the invariant besides the event log and storage.
Kept == TableInv' /\ LoopInv' /\ RoundInv' /\ (saved' = saved \/ Save)

\* A step that starts the next round and leaves the rest of the loop alone.
LEMMA EventKept ==
    ASSUME LoopInv, TableInv', NextRound, UNCHANGED <<lastId, saved, live, reporting, open>>,
           repeated' = FALSE
    PROVE  Kept
<1>1. RoundInv'
  BY Zenon, RoundStep
<1>2. LoopInv'
  BY Zenon DEF LoopInv
<1> QED BY Zenon, <1>1, <1>2 DEF Kept

\* The end of some subscriptions, with their sessions and what the loop keeps for them.
LEMMA EndedKept ==
    ASSUME Inv, NEW gone, NEW peers, Ended(gone, peers),
           reporting' = reporting \/ reporting' = reporting \ gone
    PROVE  Kept
<1>1. /\ live' = live \ peers /\ subs' = Without(subs, gone, None)
      /\ twin' = Without(twin, gone, Unsent) /\ priming' = Without(priming, gone, None)
      /\ open' = Without(open, gone, 0) /\ issued' = issued /\ lastId' = lastId
      /\ saved' = saved /\ repeated' = repeated /\ NextRound
  BY Zenon DEF Ended, events
<1>2. issued \in Nat
  BY Zenon DEF Inv, LogInv, NumbersInv
<1>3. TableInv'
  BY Zenon, <1>1, <1>2, EndedTable DEF Inv
<1>4. open' \in [Ids -> Nat]
  <2>1. 0 \in Nat
    OBVIOUS
  <2> QED BY Zenon, <1>1, <2>1 DEF Inv, LoopInv, Without
<1>5. live' \subseteq Peers /\ reporting' \subseteq Ids
  BY Zenon, <1>1 DEF Inv, LoopInv
<1>6. LoopInv'
  BY Zenon, <1>1, <1>4, <1>5 DEF Inv, LoopInv
<1>7. RoundInv'
  BY Zenon, <1>1, RoundStep
<1> QED BY Zenon, <1>1, <1>3, <1>6, <1>7 DEF Kept

\* Each step keeps it: one case for each action.
LEMMA KeptStep ==
    ASSUME Inv, [Next]_vars
    PROVE  Kept
<1>0. issued \in Nat /\ TableInv /\ LogInv /\ SavedInv /\ LoopInv /\ RoundInv /\ repeated = FALSE
  BY Zenon DEF Inv, LogInv, NumbersInv, LoopInv
<1>1. ASSUME NEW path \in Attributes, Change(path) PROVE Kept
  <2>1. TableInv'
    BY Zenon, <1>0, <1>1, ChangeTable
  <2>2. NextRound /\ UNCHANGED <<lastId, saved, live, reporting, open>> /\ repeated' = repeated
    BY Zenon, <1>1 DEF Change
  <2> QED BY Zenon, <1>0, <2>1, <2>2, EventKept
<1>2. ASSUME NEW priority \in Priorities, NEW kind \in Kinds, Happen(priority, kind) PROVE Kept
  <2>1. TableInv'
    BY Zenon, <1>0, <1>2, HappenTable
  <2>2. NextRound /\ UNCHANGED <<lastId, saved, live, reporting, open>> /\ repeated' = repeated
    BY Zenon, <1>2 DEF Happen, history
  <2> QED BY Zenon, <1>0, <2>1, <2>2, EventKept
<1>3. ASSUME NEW peer \in Peers, NEW keep \in BOOLEAN, Subscribe(peer, keep) PROVE Kept
  <2>1. lastId \in 0 .. MaxId
    BY Zenon, <1>0 DEF LoopInv
  <2>2. TableInv' /\ repeated' = repeated /\ lastId' \in 0 .. MaxId
    BY Zenon, <1>0, <1>3, <2>1, SubscribeTable
  <2>3. NextRound /\ UNCHANGED <<saved, live, reporting, open>>
    BY Zenon, <1>3 DEF Subscribe
  <2>4. RoundInv'
    BY Zenon, <2>3, RoundStep
  <2>5. LoopInv'
    BY Zenon, <1>0, <2>2, <2>3 DEF LoopInv
  <2> QED BY Zenon, <2>2, <2>3, <2>4, <2>5 DEF Kept
<1>4. ASSUME NEW peer \in Peers, NEW keep \in BOOLEAN, SubscribeRefused(peer, keep) PROVE Kept
  <2> DEFINE gone == Replaced(peer, keep)
  <2>1. /\ subs' = Without(subs, gone, None) /\ twin' = Without(twin, gone, Unsent)
        /\ priming' = priming /\ issued' = issued /\ repeated' = repeated
        /\ NextRound /\ UNCHANGED <<lastId, saved, live, reporting, open>>
    BY Zenon, <1>4 DEF SubscribeRefused, events
  <2> HIDE DEF gone
  <2>2. TableInv'
    BY Zenon, <1>0, <2>1, EndedTable
  <2> QED BY Zenon, <1>0, <2>1, <2>2, EventKept
<1>5. ASSUME NEW id \in Ids, StatusOnPriming(id) \/ PrimingForgotten(id) PROVE Kept
  <2>1. TableInv' /\ repeated' = FALSE
    BY Zenon, <1>0, <1>5, PrimingTable
  <2>2. NextRound /\ UNCHANGED <<lastId, saved, live, reporting, open>>
    BY Zenon, <1>5 DEF StatusOnPriming, PrimingForgotten, table
  <2> QED BY Zenon, <1>0, <2>1, <2>2, EventKept
<1>6. ASSUME UNCHANGED <<subs, twin, priming, issued>> PROVE TableInv'
  BY Zenon, <1>0, <1>6 DEF TableInv
<1>7. ASSUME NEW id \in Ids, ReportSettled(id) \/ StatusOnReport(id) PROVE Kept
  <2>1. /\ UNCHANGED <<subs, twin, priming, issued>>
        /\ UNCHANGED <<lastId, saved, live, repeated>> /\ NextRound
        /\ open' = [open EXCEPT ![id] = @ - 1] /\ open[id] > 0
        /\ reporting' = reporting \/ reporting' = reporting \ {id}
    BY Zenon, <1>7 DEF ReportSettled, StatusOnReport, table, history, events
  <2>2. open[id] \in Nat
    BY Zenon, <1>0 DEF LoopInv
  <2>3. open[id] - 1 \in Nat
    BY <2>1, <2>2
  <2>4. open' \in [Ids -> Nat] /\ reporting' \subseteq Ids
    BY Zenon, <1>0, <2>1, <2>3 DEF LoopInv
  <2>5. LoopInv'
    BY Zenon, <1>0, <2>1, <2>4 DEF LoopInv
  <2> QED BY Zenon, <1>6, <2>1, <2>5, RoundStep DEF Kept
<1>8. ASSUME NEW t \in todo, ReportWaits(t) PROVE Kept
  <2>1. /\ UNCHANGED <<subs, twin, priming, issued>> /\ todo' \subseteq todo
        /\ UNCHANGED <<lastId, saved, live, repeated, open, reporting>>
    BY Zenon, <1>8 DEF ReportWaits, table, history, events
  <2>2. LoopInv'
    BY Zenon, <1>0, <2>1 DEF LoopInv
  <2>3. RoundInv'
    BY Zenon, <1>0, <2>1 DEF RoundInv
  <2> QED BY Zenon, <1>6, <2>1, <2>2, <2>3 DEF Kept
<1>9. ASSUME NEW t \in todo, ReportSent(t) PROVE Kept
  <2>1. /\ TableInv' /\ repeated' = FALSE /\ t[1] \in Ids /\ priming' = priming
        /\ subs'[t[1]] \in Subscription /\ ~HasPending(subs'[t[1]])
        /\ \A x \in Ids \ {t[1]} : subs'[x] = subs[x]
    BY Zenon, <1>0, <1>9, ReportSentTable
  <2>2. /\ open' = [open EXCEPT ![t[1]] = @ + 1] /\ todo' \subseteq todo
        /\ reporting' = reporting \/ reporting' = reporting \cup {t[1]}
        /\ UNCHANGED <<lastId, saved, live>>
    BY Zenon, <1>9 DEF ReportSent
  <2>3. open[t[1]] \in Nat
    BY Zenon, <1>0, <2>1 DEF LoopInv
  <2>4. open[t[1]] + 1 \in Nat
    BY <2>3
  <2>5. open' \in [Ids -> Nat] /\ reporting' \subseteq Ids
    BY Zenon, <1>0, <2>1, <2>2, <2>4 DEF LoopInv
  <2>6. LoopInv'
    BY Zenon, <1>0, <2>1, <2>2, <2>5 DEF LoopInv
  <2>7. subs'[t[1]] # None
    BY Zenon, <2>1, NoneAssumption
  <2>8. ASSUME NEW u \in todo'
        PROVE  /\ subs'[u[1]] # None /\ priming'[u[1]] = None
               /\ u[2] = "KeepAlive" => ~HasPending(subs'[u[1]])
    <3>1. u \in todo /\ u[1] \in Ids
      BY Zenon, <1>0, <2>2 DEF RoundInv
    <3>2. CASE u[1] = t[1]
      BY Zenon, <1>0, <2>1, <2>7, <3>1, <3>2 DEF RoundInv
    <3>3. CASE u[1] # t[1]
      BY Zenon, <1>0, <2>1, <3>1, <3>3 DEF RoundInv
    <3> QED BY Zenon, <3>2, <3>3
  <2>9. RoundInv'
    BY Zenon, <1>0, <2>2, <2>8 DEF RoundInv
  <2> QED BY Zenon, <2>1, <2>2, <2>6, <2>9 DEF Kept
<1>10. ASSUME NEW t \in todo, ReportFails(t) PROVE Kept
  <2>1. /\ TableInv' /\ t[1] \in Ids /\ priming' = priming
        /\ subs'[t[1]] \in Subscription /\ (HasPending(subs'[t[1]]) => HasPending(subs[t[1]]))
        /\ \A x \in Ids \ {t[1]} : subs'[x] = subs[x]
    BY Zenon, <1>0, <1>10, ReportFailsTable
  <2>2. /\ todo' \subseteq todo /\ UNCHANGED <<lastId, saved, live, open, reporting, repeated>>
    BY Zenon, <1>10 DEF ReportFails
  <2>3. LoopInv'
    BY Zenon, <1>0, <2>2 DEF LoopInv
  <2>4. subs'[t[1]] # None
    BY ZenonT(60), <2>1, NoneAssumption
  <2>5. ASSUME NEW u \in todo'
        PROVE  /\ subs'[u[1]] # None /\ priming'[u[1]] = None
               /\ u[2] = "KeepAlive" => ~HasPending(subs'[u[1]])
    <3>1. u \in todo /\ u[1] \in Ids
      BY Zenon, <1>0, <2>2 DEF RoundInv
    <3>2. CASE u[1] = t[1]
      BY Zenon, <1>0, <2>1, <2>4, <3>1, <3>2 DEF RoundInv
    <3>3. CASE u[1] # t[1]
      BY Zenon, <1>0, <2>1, <3>1, <3>3 DEF RoundInv
    <3> QED BY Zenon, <3>2, <3>3
  <2>6. RoundInv'
    BY Zenon, <1>0, <2>2, <2>5 DEF RoundInv
  <2> QED BY Zenon, <2>1, <2>2, <2>3, <2>6 DEF Kept
<1>11. ASSUME NEW peer \in Peers, SessionUp(peer) PROVE Kept
  <2>1. TableInv'
    BY Zenon, <1>0, <1>11, SessionUpTable
  <2>2. /\ NextRound /\ UNCHANGED <<lastId, saved, reporting, open>> /\ repeated' = repeated
        /\ live' = live \cup {peer}
    BY Zenon, <1>11 DEF SessionUp, history
  <2>3. LoopInv'
    BY Zenon, <1>0, <2>2 DEF LoopInv
  <2> QED BY Zenon, <2>1, <2>2, <2>3, RoundStep DEF Kept
<1>12. ASSUME NEW peer \in Peers, SessionClosed(peer) PROVE Kept
  <2> DEFINE gone == {id \in Active : subs[id].peer = peer /\ subs[id].bound}
  <2>1. reporting' = reporting \ gone /\ Ended(gone, {peer})
    BY Zenon, <1>12 DEF SessionClosed
  <2> HIDE DEF gone
  <2> QED BY Zenon, <2>1, EndedKept
<1>13. ASSUME NEW fabric \in Fabrics, FabricRemoved(fabric) PROVE Kept
  <2> DEFINE gone == {id \in Active : FabricOf[subs[id].peer] = fabric}
             peers == {p \in Peers : FabricOf[p] = fabric}
  <2>1. reporting' = reporting /\ Ended(gone, peers)
    BY Zenon, <1>13 DEF FabricRemoved
  <2> HIDE DEF gone, peers
  <2> QED BY Zenon, <2>1, EndedKept
<1>14. CASE Save
  <2>1. /\ UNCHANGED <<subs, twin, priming, issued, todo>>
        /\ UNCHANGED <<lastId, live, repeated, open, reporting>>
    BY Zenon, <1>14 DEF Save, loop, history, events
  <2>2. LoopInv'
    BY Zenon, <1>0, <2>1 DEF LoopInv
  <2>3. RoundInv'
    BY Zenon, <1>0, <2>1 DEF RoundInv
  <2> QED BY Zenon, <1>6, <1>14, <2>1, <2>2, <2>3 DEF Kept
<1>15. CASE Restart
  <2>1. TableInv' /\ RoundInv' /\ lastId' \in 0 .. MaxId
    BY Zenon, <1>0, <1>15, RestartTable
  <2>2. live' = {} /\ reporting' = {} /\ open' = [id \in Ids |-> 0] /\ UNCHANGED <<saved, repeated>>
    BY Zenon, <1>15 DEF Restart
  <2>3. open' \in [Ids -> Nat]
    BY <2>2
  <2>4. LoopInv'
    BY Zenon, <1>0, <2>1, <2>2, <2>3 DEF LoopInv
  <2> QED BY Zenon, <2>1, <2>2, <2>4 DEF Kept
<1>16. ASSUME NEW t \in 1 .. MaxSleep, Tick(t) PROVE Kept
  <2>1. TableInv'
    BY Zenon, <1>0, <1>16, TickTable
  <2>2. NextRound /\ UNCHANGED <<lastId, saved, live, reporting, open>> /\ repeated' = repeated
    BY Zenon, <1>16 DEF Tick, history
  <2> QED BY Zenon, <1>0, <2>1, <2>2, EventKept
<1>17. CASE Reserve \/ UNCHANGED vars
  <2>1. /\ UNCHANGED <<subs, twin, priming, issued, todo>>
        /\ UNCHANGED <<lastId, live, repeated, open, reporting, saved>>
    <3>1. CASE Reserve
      BY Zenon, <3>1 DEF Reserve, StoreReservation, ConfirmReservation, table, loop, history
    <3>2. CASE UNCHANGED vars
      BY Zenon, <3>2 DEF vars, events, table, loop, history
    <3> QED BY Zenon, <1>17, <3>1, <3>2
  <2>2. LoopInv'
    BY Zenon, <1>0, <2>1 DEF LoopInv
  <2>3. RoundInv'
    BY Zenon, <1>0, <2>1 DEF RoundInv
  <2> QED BY Zenon, <1>6, <2>1, <2>2, <2>3 DEF Kept
<1> QED BY Zenon, <1>1, <1>2, <1>3, <1>4, <1>5, <1>7, <1>8, <1>9, <1>10, <1>11, <1>12, <1>13,
           <1>14, <1>15, <1>16, <1>17 DEF Next

\* The invariant holds at the start and is kept.
LEMMA InvInit == Init => Inv
<1> SUFFICES ASSUME Init PROVE Inv
  OBVIOUS
<1>1. NumbersInv
  BY DEF Init, EventInit, Restored, NumbersInv
<1>2. LogInv
  BY Zenon, <1>1 DEF Init, EventInit, LogInv, LogBehind
<1>3. TableInv
  BY Zenon, UnsentTwin DEF Init, TableInv
<1>4. SavedInv
  BY Zenon DEF Init, SavedInv
<1>5. LoopInv
  <2>1. 0 \in 0 .. MaxId /\ 0 \in Nat
    BY ReportingAssumption
  <2> QED BY Zenon, <2>1 DEF Init, LoopInv
<1>6. RoundInv
  BY Zenon DEF Init, RoundInv
<1> QED BY Zenon, <1>2, <1>3, <1>4, <1>5, <1>6 DEF Inv

\* Every step keeps the invariant.
LEMMA InvStep ==
    ASSUME Inv, [Next]_vars
    PROVE  Inv'
<1>1. LogInv' /\ issued <= issued'
  BY Zenon, EventSteps, LogStep DEF Inv
<1>2. issued \in Nat /\ issued' \in Nat
  BY Zenon, <1>1 DEF Inv, LogInv, NumbersInv
<1>3. Kept
  BY Zenon, KeptStep
<1>4. SavedInv'
  BY Zenon, <1>1, <1>2, <1>3, SavedStep DEF Inv, Kept
<1> QED BY Zenon, <1>1, <1>3, <1>4 DEF Inv, Kept

\* What the invariant says of the properties.
LEMMA InvMeans ==
    ASSUME Inv
    PROVE  TypeOK /\ NoLostChange /\ EventsOnce /\ BookmarkBehind
<1>1. /\ issued \in Nat /\ TableInv /\ LogInv /\ SavedInv /\ LoopInv /\ RoundInv
      /\ numbers \in [next : Nat, reserved : Nat] /\ numbers.next >= issued
  BY Zenon DEF Inv, LogInv, NumbersInv
<1>2. ASSUME NEW id \in Active
      PROVE  /\ id \in Ids /\ subs[id] # None /\ subs[id] \in Subscription
             /\ Good(subs[id], twin[id], priming[id], issued)
             /\ Sound(subs[id], issued)
  BY Zenon, <1>1, Entry DEF Active, Good
<1>3. TypeOK
  <2>1. EventTypeOK
    BY Zenon, <1>1 DEF LogInv, NumbersInv, EventTypeOK
  <2>2. \A id \in Ids : subs[id] # None => Len(subs[id].dirty) <= DirtyPaths
    BY Zenon, <1>1, Entry DEF Good, Sound
  <2> QED BY Zenon, <1>1, <2>1, <2>2 DEF TypeOK, TableInv, SavedInv, LoopInv, RoundInv
<1>4. NoLostChange
  <2>1. ASSUME NEW id \in Active
        PROVE  twin[id].stale \ twin[id].lapsed \subseteq
                   IF subs[id].full THEN Range(Asked(subs[id]).paths) ELSE Range(subs[id].dirty)
    <3> DEFINE s == subs[id]  w == twin[id]
    <3>1. w.stale \ w.lapsed \subseteq Remaining(s) /\ Sound(s, issued)
      BY Zenon, <1>2 DEF Good
    <3> HIDE DEF s, w
    <3>2. Remaining(s) \subseteq Range(List(s))
      BY Zenon, <1>1, <3>1, RemainingMeans
    <3>3. w.stale \ w.lapsed \subseteq
              IF s.full THEN Range(Asked(s).paths) ELSE Range(s.dirty)
      BY Zenon, <3>1, <3>2 DEF List
    <3> QED BY Zenon, <3>3 DEF s, w
  <2> QED BY Zenon, <2>1 DEF NoLostChange
<1>5. EventsOnce
  BY Zenon, <1>1 DEF LoopInv, EventsOnce
<1>6. BookmarkBehind
  <2> DEFINE next == numbers.next
  <2>1. next \in Nat /\ next >= issued
    BY <1>1
  <2> HIDE DEF next
  <2>2. ASSUME NEW a \in Nat, a <= issued PROVE a <= next
    BY <1>1, <2>1, <2>2
  <2>3. ASSUME NEW id \in Active PROVE subs[id].from <= next
    <3>1. subs[id].from \in Nat /\ subs[id].from <= issued
      BY Zenon, <1>2, Parts DEF Sound
    <3> QED BY Zenon, <2>2, <3>1
  <2>4. ASSUME NEW d \in saved PROVE d.from <= next
    <3>1. d.from \in Nat
      BY <1>1 DEF SavedInv
    <3>2. d.from <= issued
      BY Zenon, <1>1 DEF SavedInv
    <3> QED BY Zenon, <2>2, <3>1, <3>2
  <2> QED BY Zenon, <2>3, <2>4 DEF BookmarkBehind, next
<1> QED BY Zenon, <1>3, <1>4, <1>5, <1>6

\* The inductive invariant holds of every behaviour: the event log, the table with what each
\* subscriber was sent, storage, the loop and its round.
THEOREM ReportingInvariant == Spec => []Inv
<1>1. Inv /\ [Next]_vars => Inv'
  BY InvStep
<1> QED BY InvInit, <1>1, PTL DEF Spec

\* Every variable keeps its type, and no dirty set outgrows DIRTY_PATHS.
THEOREM TypesKept == Spec => []TypeOK
<1>1. Inv => TypeOK
  BY InvMeans
<1> QED BY ReportingInvariant, <1>1, PTL

\* DirtySet::insert, report_chunk and reported lose no change: for any tables, requests and
\* chunk size, what a subscriber has not been sent is still to be reported to it.
THEOREM ChangesReachThem == Spec => []NoLostChange
<1>1. Inv => NoLostChange
  BY Zenon, InvMeans
<1> QED BY ReportingInvariant, <1>1, PTL

\* The bookmarks of report_chunk and reported send no event of the first event path twice,
\* for any event log, chunk size and order of failures.
THEOREM EventsSentOnce == Spec => []EventsOnce
<1>1. Inv => EventsOnce
  BY Zenon, InvMeans
<1> QED BY ReportingInvariant, <1>1, PTL

\* No bookmark, in the table or in storage, gets ahead of the numbers still to be given out,
\* however often the node restarts.
THEOREM BookmarksBehind == Spec => []BookmarkBehind
<1>1. Inv => BookmarkBehind
  BY InvMeans
<1> QED BY ReportingInvariant, <1>1, PTL

\* What is open is tracked, and what the loop tracks is finite.
OpenInv == open \in [Ids -> Nat] /\ IsFiniteSet(reporting) /\ OpenIsTracked

\* A report exchange is opened only for a subscription without one, and recorded.
LEMMA OpenStep ==
    ASSUME OpenInv, [Next]_vars
    PROVE  OpenInv'
<1> USE DEF OpenInv, OpenIsTracked
<1>1. ASSUME NEW t \in todo, ReportSent(t)
      PROVE  OpenInv'
  <2> DEFINE id == t[1]
  <2>1. ~InFlight(id) /\ open' = [open EXCEPT ![id] = @ + 1]
        /\ reporting' = IF Cardinality(reporting) < MaxReporting THEN reporting \cup {id}
                        ELSE reporting
    BY <1>1 DEF ReportSent
  <2> HIDE DEF id
  <2>2. Cardinality(reporting) \in Nat
    BY Zenon, FS_CardinalityType
  <2>3. id \notin reporting /\ reporting' = reporting \cup {id}
    BY SMTT(20), <2>1, <2>2, ReportingAssumption DEF InFlight
  <2>4. IsFiniteSet(reporting')
    BY <2>3, FS_AddElement
  <2>5. open' \in [Ids -> Nat] /\ \A x \in Ids : open'[x] = IF x = id THEN open[x] + 1 ELSE open[x]
    <3>1. open' = [x \in Ids |-> IF x = id THEN open[x] + 1 ELSE open[x]]
      BY <2>1, Zenon
    <3>2. \A x \in Ids : open[x] \in Nat /\ open[x] + 1 \in Nat
      OBVIOUS
    <3> QED BY <3>1, <3>2
  <2>6. ASSUME NEW x \in Ids
        PROVE  open'[x] <= 1 /\ (open'[x] = 1 => x \in reporting')
    BY SMTT(20), <2>3, <2>5
  <2> QED BY Zenon, <2>4, <2>5, <2>6
<1>2. ASSUME NEW id \in Ids, ReportSettled(id)
      PROVE  OpenInv'
  BY <1>2, FS_Subset DEF ReportSettled
<1>3. ASSUME NEW id \in Ids, StatusOnReport(id)
      PROVE  OpenInv'
  BY <1>3 DEF StatusOnReport
<1>4. ASSUME NEW peer \in Peers, SessionClosed(peer)
      PROVE  OpenInv'
  <2> DEFINE gone == {id \in Active : subs[id].peer = peer /\ subs[id].bound}
  <2>1. reporting' = reporting \ gone /\ open' = Without(open, gone, 0)
    BY <1>4 DEF SessionClosed, Ended
  <2> HIDE DEF gone
  <2>2. IsFiniteSet(reporting')
    BY SMTT(30), <2>1, FS_Subset
  <2> QED BY SMTT(30), <2>1, <2>2 DEF Without
<1>5. ASSUME NEW fabric \in Fabrics, FabricRemoved(fabric)
      PROVE  OpenInv'
  <2> DEFINE gone == {id \in Active : FabricOf[subs[id].peer] = fabric}
  <2>1. reporting' = reporting /\ open' = Without(open, gone, 0)
    BY <1>5 DEF FabricRemoved, Ended
  <2> HIDE DEF gone
  <2> QED BY SMTT(30), <2>1 DEF Without
<1>6. CASE Restart
  <2>1. reporting' = {} /\ open' = [id \in Ids |-> 0]
    BY Zenon, <1>6 DEF Restart
  <2>2. IsFiniteSet(reporting')
    BY Zenon, <2>1, FS_EmptySet
  <2> QED BY <2>1, <2>2
<1>7. ASSUME UNCHANGED <<reporting, open>>
      PROVE  OpenInv'
  BY <1>7
<1>8. ASSUME \/ \E path \in Attributes : Change(path)
             \/ \E priority \in Priorities, kind \in Kinds : Happen(priority, kind)
             \/ \E peer \in Peers, keep \in BOOLEAN :
                    Subscribe(peer, keep) \/ SubscribeRefused(peer, keep)
             \/ \E id \in Ids : StatusOnPriming(id) \/ PrimingForgotten(id)
             \/ \E t \in todo : ReportWaits(t) \/ ReportFails(t)
             \/ \E peer \in Peers : SessionUp(peer)
             \/ Save \/ Reserve
             \/ \E t \in 1 .. MaxSleep : Tick(t)
             \/ UNCHANGED vars
      PROVE  OpenInv'
  <2>1. UNCHANGED <<reporting, open>>
    BY Zenon, <1>8 DEF Change, Happen, Subscribe, SubscribeRefused, StatusOnPriming,
                PrimingForgotten, ReportWaits, ReportFails, SessionUp, Save, Reserve, Tick,
                loop, vars
  <2> QED BY Zenon, <2>1, <1>7
<1> QED BY Zenon, <1>1, <1>2, <1>3, <1>4, <1>5, <1>6, <1>8 DEF Next

\* However reports are answered, abandoned, refused or cut short by the end of a session
\* or of a fabric, a subscription has at most one report exchange, and it is accounted for.
THEOREM OpenTracked == Spec => []OpenIsTracked
<1>1. Init => OpenInv
  BY FS_EmptySet DEF Init, OpenInv, OpenIsTracked
<1>2. OpenInv /\ [Next]_vars => OpenInv'
  BY OpenStep
<1>3. OpenInv => OpenIsTracked
  BY DEF OpenInv
<1> QED BY <1>1, <1>2, <1>3, PTL DEF Spec
\* When the round is over, nothing due is overlooked; until then it is still to be reported.
Timely ==
    \A id \in Active :
        subs[id].bound /\ priming[id] = None /\ Due(subs[id])
            => InFlight(id) \/ twin[id].failed \/ \E t \in todo : t[1] = id

\* The round that follows an event has everything due.
LEMMA TimelyRound ==
    ASSUME NextRound
    PROVE  Timely'
<1> DEFINE due == {id \in Ids : /\ subs'[id] # None /\ subs'[id].bound
                                /\ Due(subs'[id]) /\ priming'[id] = None}
<1>1. todo' = {<<id, Reason(subs'[id])>> : id \in due}
  BY Zenon DEF NextRound, DueNow
<1>2. ASSUME NEW id \in due
      PROVE  \E t \in todo' : t[1] = id
  <2>1. <<id, Reason(subs'[id])>> \in todo'
    BY Zenon, <1>1
  <2>2. <<id, Reason(subs'[id])>>[1] = id
    OBVIOUS
  <2> QED BY Zenon, <2>1, <2>2
<1>3. ASSUME NEW id \in Active', subs'[id].bound, priming'[id] = None, Due(subs'[id])
      PROVE  id \in due
  BY Zenon, <1>3 DEF Active
<1> HIDE DEF due
<1> QED BY Zenon, <1>2, <1>3 DEF Timely

\* A step of the round takes up a report, passes it over or ends the round.
LEMMA TimelyStep ==
    ASSUME Inv, Timely, [Next]_vars
    PROVE  Timely'
<1>0. TableInv /\ LogInv /\ RoundInv /\ repeated = FALSE /\ reporting \subseteq Ids
  BY Zenon DEF Inv, LoopInv
<1>1. IsFiniteSet(reporting) /\ Cardinality(reporting) \in Nat
  <2>1. IsFiniteSet(Ids)
    BY FS_Interval, ReportingAssumption DEF Ids
  <2> QED BY ZenonT(60), <1>0, <2>1, FS_Subset, FS_CardinalityType
<1>2. ASSUME NEW t \in todo, ReportWaits(t)
      PROVE  Timely'
  <2>1. /\ UNCHANGED <<subs, twin, priming, reporting>> /\ InFlight(t[1])
        /\ todo' = IF t[1] \in reporting THEN todo \ {t} ELSE {}
    BY Zenon, <1>2 DEF ReportWaits, table, history
  <2>2. CASE t[1] \in reporting
    <3>1. \A u \in todo : u = t \/ u \in todo'
      BY Zenon, <2>1, <2>2
    <3> QED BY Zenon, <2>1, <2>2, <3>1 DEF Timely, InFlight, Active
  <2>3. CASE t[1] \notin reporting
    <3>1. Cardinality(reporting') >= MaxReporting
      BY Zenon, <2>1, <2>3 DEF InFlight
    <3> QED BY Zenon, <3>1 DEF Timely, InFlight
  <2> QED BY Zenon, <2>2, <2>3
<1>3. ASSUME NEW t \in todo, NEW id \in Ids, t[1] # id, todo' = todo \ {t},
             subs'[id] = subs[id], twin'[id] = twin[id], priming' = priming,
             InFlight(id) => InFlight(id)', id \in Active'
      PROVE  subs'[id].bound /\ priming'[id] = None /\ Due(subs'[id])
                 => InFlight(id)' \/ twin'[id].failed \/ \E u \in todo' : u[1] = id
  <2>1. id \in Active
    BY Zenon, <1>3 DEF Active
  <2>2. \A u \in todo : u[1] = id => u \in todo'
    BY Zenon, <1>3
  <2> QED BY Zenon, <1>3, <2>1, <2>2 DEF Timely
<1>4. ASSUME NEW t \in todo, ReportSent(t)
      PROVE  Timely'
  <2>1. /\ t[1] \in Ids /\ priming' = priming
        /\ subs'[t[1]] \in Subscription /\ ~HasPending(subs'[t[1]]) /\ subs'[t[1]].age = 0
        /\ \A x \in Ids \ {t[1]} : subs'[x] = subs[x] /\ twin'[x] = twin[x]
    BY Zenon, <1>0, <1>4, ReportSentTable
  <2>2. /\ todo' = todo \ {t}
        /\ reporting' = reporting \/ reporting' = reporting \cup {t[1]}
    BY Zenon, <1>4 DEF ReportSent
  <2>3. ASSUME NEW id, InFlight(id) PROVE InFlight(id)'
    <3>1. IsFiniteSet(reporting') /\ reporting \subseteq reporting'
      BY <1>1, <2>2, FS_AddElement
    <3>2. Cardinality(reporting') \in Nat /\ Cardinality(reporting) <= Cardinality(reporting')
      BY Zenon, <3>1, FS_Subset, FS_CardinalityType
    <3>3. Cardinality(reporting) >= MaxReporting => Cardinality(reporting') >= MaxReporting
      BY <1>1, <3>2, ReportingAssumption
    <3> QED BY Zenon, <2>3, <3>1, <3>3 DEF InFlight
  <2>4. ~Due(subs'[t[1]])
    <3> DEFINE s == subs'[t[1]]  max == Asked(s).max
    <3>1. s \in Subscription /\ ~HasPending(s) /\ s.age = 0
      BY Zenon, <2>1
    <3> HIDE DEF s
    <3>2. s.peer \in Peers
      BY Zenon, <3>1 DEF Subscription
    <3>3. max \in Nat \ {0}
      BY Zenon, <3>2, ReportingAssumption DEF Asked
    <3> HIDE DEF max
    <3>4. ~(0 >= max)
      BY <3>3
    <3>5. ~Due(s)
      BY Zenon, <3>1, <3>4 DEF Due, max
    <3> QED BY Zenon, <3>5 DEF s
  <2>5. ASSUME NEW id \in Active'
        PROVE  subs'[id].bound /\ priming'[id] = None /\ Due(subs'[id])
                   => InFlight(id)' \/ twin'[id].failed \/ \E u \in todo' : u[1] = id
    <3>1. id \in Ids
      BY Zenon, <2>5 DEF Active
    <3>2. CASE id = t[1]
      BY Zenon, <2>4, <3>2
    <3>3. CASE id # t[1]
      <4>1. subs'[id] = subs[id] /\ twin'[id] = twin[id] /\ t[1] # id
        BY Zenon, <2>1, <3>1, <3>3
      <4>2. InFlight(id) => InFlight(id)'
        BY Zenon, <2>3
      <4> QED BY Zenon, <1>3, <2>1, <2>2, <2>5, <3>1, <4>1, <4>2
    <3> QED BY Zenon, <3>2, <3>3
  <2> QED BY Zenon, <2>5 DEF Timely
<1>5. ASSUME NEW t \in todo, ReportFails(t)
      PROVE  Timely'
  <2>1. /\ t[1] \in Ids /\ priming' = priming /\ twin'[t[1]].failed = TRUE
        /\ \A x \in Ids \ {t[1]} : subs'[x] = subs[x] /\ twin'[x] = twin[x]
    BY Zenon, <1>0, <1>5, ReportFailsTable
  <2>2. todo' = todo \ {t} /\ reporting' = reporting
    BY Zenon, <1>5 DEF ReportFails
  <2>3. ASSUME NEW id \in Active'
        PROVE  subs'[id].bound /\ priming'[id] = None /\ Due(subs'[id])
                   => InFlight(id)' \/ twin'[id].failed \/ \E u \in todo' : u[1] = id
    <3>1. id \in Ids
      BY Zenon, <2>3 DEF Active
    <3>2. CASE id = t[1]
      BY Zenon, <2>1, <3>2
    <3>3. CASE id # t[1]
      <4>1. subs'[id] = subs[id] /\ twin'[id] = twin[id] /\ t[1] # id
        BY Zenon, <2>1, <3>1, <3>3
      <4>2. InFlight(id) => InFlight(id)'
        BY Zenon, <2>2 DEF InFlight
      <4> QED BY Zenon, <1>3, <2>1, <2>2, <2>3, <3>1, <4>1, <4>2
    <3> QED BY Zenon, <3>2, <3>3
  <2> QED BY Zenon, <2>3 DEF Timely
<1>6. CASE Restart
  <2>1. \A x \in Ids : subs'[x] # None => subs'[x].bound = FALSE
    BY Zenon, <1>6, RestartTable DEF Inv, LogInv, NumbersInv
  <2> QED BY Zenon, <2>1 DEF Timely, Active
<1>7. CASE Save \/ Reserve \/ UNCHANGED vars
  <2>1. UNCHANGED <<subs, twin, priming, reporting, todo>>
    BY Zenon, <1>7 DEF Save, Reserve, vars, table, loop, history
  <2> QED BY Zenon, <2>1 DEF Timely, Active, InFlight
<1>8. ASSUME \/ \E path \in Attributes : Change(path)
             \/ \E priority \in Priorities, kind \in Kinds : Happen(priority, kind)
             \/ \E peer \in Peers, keep \in BOOLEAN :
                    Subscribe(peer, keep) \/ SubscribeRefused(peer, keep)
             \/ \E id \in Ids : \/ StatusOnPriming(id) \/ PrimingForgotten(id)
                                \/ ReportSettled(id) \/ StatusOnReport(id)
             \/ \E peer \in Peers : SessionUp(peer) \/ SessionClosed(peer)
             \/ \E fabric \in Fabrics : FabricRemoved(fabric)
             \/ \E t \in 1 .. MaxSleep : Tick(t)
      PROVE  Timely'
  <2>1. NextRound
    BY Zenon, <1>8 DEF Change, Happen, Subscribe, SubscribeRefused, StatusOnPriming,
                PrimingForgotten, ReportSettled, StatusOnReport, SessionUp, SessionClosed,
                FabricRemoved, Ended, Tick
  <2> QED BY Zenon, <2>1, TimelyRound
<1> QED BY Zenon, <1>2, <1>4, <1>5, <1>6, <1>7, <1>8 DEF Next

\* Neither a change nor a keep-alive is overlooked when the loop goes to sleep.
THEOREM ReportsInTime == Spec => []ReportedInTime
<1>1. Init => Timely
  BY Zenon DEF Init, Timely, Active
<1>2. Inv /\ Timely /\ [Next]_vars => Timely'
  BY TimelyStep
<1>3. Timely => ReportedInTime
  BY Zenon DEF Timely, ReportedInTime
<1> QED BY ReportingInvariant, <1>1, <1>2, <1>3, PTL DEF Spec

-----------------------------------------------------------------------------
(* The shares of the fabrics *)

\* A family of sets of at most n elements has at most n times as many elements as members.
LEMMA FamilyBound ==
    ASSUME NEW F, IsFiniteSet(F), NEW A, NEW n \in Nat,
           \A f \in F : IsFiniteSet(A[f]) /\ Cardinality(A[f]) <= n
    PROVE  LET U == UNION {A[f] : f \in F}
           IN  IsFiniteSet(U) /\ Cardinality(U) <= n * Cardinality(F)
<1> DEFINE U == UNION {A[f] : f \in F}
           b(f) == CHOOSE g : g \in Bijection(1 .. Cardinality(A[f]), A[f])
           P == F \X (1 .. n)
           D == {p \in P : p[2] <= Cardinality(A[p[1]])}
           h == [p \in D |-> b(p[1])[p[2]]]
<1>1. ASSUME NEW f \in F
      PROVE  /\ Cardinality(A[f]) \in Nat /\ Cardinality(A[f]) <= n
             /\ b(f) \in Bijection(1 .. Cardinality(A[f]), A[f])
  <2>1. Cardinality(A[f]) \in Nat /\ ExistsBijection(1 .. Cardinality(A[f]), A[f])
    BY Zenon, FS_CardinalityType
  <2>2. \E g : g \in Bijection(1 .. Cardinality(A[f]), A[f])
    BY Zenon, <2>1 DEF ExistsBijection
  <2> QED BY Zenon, <2>1, <2>2
<1>2. ASSUME NEW f \in F
      PROVE  /\ b(f) \in [1 .. Cardinality(A[f]) -> A[f]]
             /\ \A u \in A[f] : \E i \in 1 .. Cardinality(A[f]) : b(f)[i] = u
  BY Zenon, <1>1 DEF Bijection, Injection, Surjection
<1>3. IsFiniteSet(P) /\ Cardinality(P) = Cardinality(F) * n
  <2>1. IsFiniteSet(1 .. n) /\ Cardinality(1 .. n) = n
    BY FS_Interval
  <2> QED BY Zenon, <2>1, FS_Product
<1> HIDE DEF b
<1>4. ASSUME NEW p \in D
      PROVE  h[p] \in U
  <2>1. p[1] \in F /\ p[2] \in 1 .. n /\ p[2] <= Cardinality(A[p[1]])
    BY Zenon, <1>4
  <2> DEFINE f == p[1]  i == p[2]  c == Cardinality(A[f])
  <2>2. c \in Nat
    BY Zenon, <1>1, <2>1
  <2> HIDE DEF c, f, i
  <2>3. i \in 1 .. c
    <3>1. i \in 1 .. n /\ i <= c
      BY Zenon, <2>1 DEF c, f, i
    <3> QED BY <2>2, <3>1
  <2>4. b(f)[i] \in A[f]
    BY Zenon, <1>2, <2>1, <2>3 DEF c, f
  <2>5. h[p] = b(f)[i]
    BY Zenon DEF f, i
  <2> QED BY Zenon, <2>1, <2>4, <2>5 DEF f
<1>5. ASSUME NEW u \in U
      PROVE  \E p \in D : h[p] = u
  <2>1. PICK f \in F : u \in A[f]
    BY Zenon
  <2> DEFINE c == Cardinality(A[f])
  <2>2. PICK i \in 1 .. c : b(f)[i] = u
    BY Zenon, <1>2, <2>1
  <2>3. c \in Nat /\ c <= n
    BY Zenon, <1>1, <2>1
  <2> HIDE DEF c
  <2>4. i \in 1 .. n /\ i <= c
    BY SMTT(30), <2>2, <2>3
  <2> DEFINE p == <<f, i>>
  <2>5. p[1] = f /\ p[2] = i /\ p \in P
    BY <2>1, <2>4
  <2> HIDE DEF p, P
  <2>6. p \in D
    BY Zenon, <2>4, <2>5 DEF c
  <2>7. h[p] = u
    BY Zenon, <2>2, <2>5, <2>6
  <2> QED BY Zenon, <2>6, <2>7
<1>6. IsFiniteSet(D) /\ Cardinality(D) <= Cardinality(P)
  BY Zenon, <1>3, FS_Subset
<1> HIDE DEF D, U, P
<1>7. h \in Surjection(D, U)
  <2>1. h \in [D -> U]
    BY Zenon, <1>4
  <2> QED BY Zenon, <1>5, <2>1 DEF Surjection
<1> HIDE DEF h
<1>8. IsFiniteSet(U) /\ Cardinality(U) <= Cardinality(D)
  BY Zenon, <1>6, <1>7, FS_Surjection
<1>9. Cardinality(U) \in Nat /\ Cardinality(D) \in Nat /\ Cardinality(P) \in Nat /\ Cardinality(F) \in Nat
  BY Zenon, <1>3, <1>6, <1>8, FS_CardinalityType
<1>10. Cardinality(U) <= n * Cardinality(F)
  <2> DEFINE k == Cardinality(F)
  <2>1. k \in Nat /\ Cardinality(P) = k * n
    BY Zenon, <1>3, <1>9
  <2> HIDE DEF k
  <2>2. k * n = n * k /\ k * n \in Nat
    BY SMTT(30), <2>1
  <2>3. Cardinality(U) <= n * k
    BY SMTT(60), <1>6, <1>8, <1>9, <2>1, <2>2
  <2> QED BY Zenon, <2>3 DEF k
<1> QED BY Zenon, <1>8, <1>10 DEF U

\* The subscriptions of a fabric, or of none, in the table and in storage.
OnFabric(f) == {id \in Active : FabricOf[subs[id].peer] = f}
SavedOn(f) == {id \in Ids : \E d \in saved : d.id = id /\ FabricOf[d.peer] = f}

\* No fabric has more than its share, also of what a restart would bring back, and what has
\* no fabric leaves all the shares free.
ShareInv ==
    /\ \A f \in Fabrics : /\ Cardinality(OnFabric(f)) <= PerFabric
                          /\ Cardinality(SavedOn(f)) <= PerFabric
    /\ Cardinality(OnFabric(None)) + PerFabric * Cardinality(Fabrics) <= MaxSubscriptions

\* Every set of ids is finite, and a part of one is no larger.
LEMMA IdSets ==
    /\ \A S : S \subseteq Ids => IsFiniteSet(S) /\ Cardinality(S) \in Nat
    /\ \A S, T : S \subseteq T /\ T \subseteq Ids => Cardinality(S) <= Cardinality(T)
<1>1. IsFiniteSet(Ids)
  BY FS_Interval, ReportingAssumption DEF Ids
<1>2. ASSUME NEW S, S \subseteq Ids PROVE IsFiniteSet(S) /\ Cardinality(S) \in Nat
  BY Zenon, <1>1, <1>2, FS_Subset, FS_CardinalityType
<1>3. ASSUME NEW S, NEW T, S \subseteq T, T \subseteq Ids PROVE Cardinality(S) <= Cardinality(T)
  BY Zenon, <1>2, <1>3, FS_Subset
<1> QED BY Zenon, <1>2, <1>3

\* Two sets have together no more elements than one and the other.
LEMMA UnionBound ==
    ASSUME NEW S, NEW T, IsFiniteSet(S), IsFiniteSet(T)
    PROVE  /\ Cardinality(S \cup T) <= Cardinality(S) + Cardinality(T)
           /\ S \cap T = {} => Cardinality(S \cup T) = Cardinality(S) + Cardinality(T)
<1>1. Cardinality(S \cup T) = Cardinality(S) + Cardinality(T) - Cardinality(S \cap T)
  BY Zenon, FS_Union
<1>2. Cardinality(S) \in Nat /\ Cardinality(T) \in Nat /\ Cardinality(S \cap T) \in Nat
  <2>1. IsFiniteSet(S \cap T)
    BY Zenon, FS_Intersection
  <2> QED BY Zenon, <2>1, FS_CardinalityType
<1>3. S \cap T = {} => Cardinality(S \cap T) = 0
  BY Zenon, FS_EmptySet
<1> QED BY <1>1, <1>2, <1>3

\* With the shares kept there is room for a fabric that has not its own.
LEMMA ShareMeans ==
    ASSUME Inv, ShareInv
    PROVE  FabricShare
<1> SUFFICES ASSUME NEW f \in Fabrics, Cardinality(OnFabric(f)) < PerFabric
             PROVE  Cardinality(Active) < MaxSubscriptions
  BY Zenon DEF FabricShare, OnFabric
<1> DEFINE G == Fabrics \ {f}  A == [g \in Fabrics |-> OnFabric(g)]
           U == UNION {A[g] : g \in G}  V == OnFabric(f)  W == OnFabric(None)
<1>0. IsFiniteSet(Fabrics) /\ PerFabric \in Nat /\ MaxSubscriptions \in Nat
  BY Zenon, ReportingAssumption
<1>1. IsFiniteSet(G) /\ Cardinality(G) = Cardinality(Fabrics) - 1
  BY Zenon, <1>0, FS_RemoveElement
<1>2. \A g \in Fabrics \cup {None} : OnFabric(g) \subseteq Ids
  BY Zenon DEF OnFabric, Active
<1>3. \A g \in G : IsFiniteSet(A[g]) /\ Cardinality(A[g]) <= PerFabric
  BY Zenon, <1>2, IdSets DEF ShareInv
<1>4. U \subseteq Ids /\ V \subseteq Ids /\ W \subseteq Ids
  BY Zenon, <1>2
<1>5. Active \subseteq (U \cup V) \cup W
  <2>1. ASSUME NEW id \in Active PROVE FabricOf[subs[id].peer] \in Fabrics \cup {None}
    <3>1. subs[id] \in Subscription
      BY Zenon, Entry DEF Active, Inv
    <3>2. subs[id].peer \in Peers
      BY Zenon, <3>1, Parts
    <3> QED BY Zenon, <3>2, ReportingAssumption
  <2>2. ASSUME NEW id \in Active PROVE id \in (U \cup V) \cup W
    <3> DEFINE g == FabricOf[subs[id].peer]
    <3>1. id \in OnFabric(g) /\ g \in Fabrics \cup {None}
      BY Zenon, <2>1 DEF OnFabric
    <3> HIDE DEF g
    <3>2. CASE g \in G
      <4>1. A[g] = OnFabric(g)
        BY Zenon, <3>2
      <4> QED BY Zenon, <3>1, <3>2, <4>1
    <3> QED BY Zenon, <3>1, <3>2
  <2> QED BY Zenon, <2>2
<1> HIDE DEF G, A
<1>6. Cardinality(U) <= PerFabric * Cardinality(G)
  BY Zenon, <1>0, <1>1, <1>3, FamilyBound
<1> HIDE DEF U, V, W
<1>7. /\ IsFiniteSet(U) /\ IsFiniteSet(V) /\ IsFiniteSet(W) /\ U \cup V \subseteq Ids
      /\ (U \cup V) \cup W \subseteq Ids
  BY Zenon, <1>4, IdSets
<1>8. /\ Cardinality((U \cup V) \cup W) <= Cardinality(U \cup V) + Cardinality(W)
      /\ Cardinality(U \cup V) <= Cardinality(U) + Cardinality(V)
      /\ Cardinality(Active) <= Cardinality((U \cup V) \cup W)
  BY Zenon, <1>5, <1>7, IdSets, UnionBound
<1>9. /\ Cardinality(U) \in Nat /\ Cardinality(V) \in Nat /\ Cardinality(W) \in Nat
      /\ Cardinality(U \cup V) \in Nat /\ Cardinality((U \cup V) \cup W) \in Nat
      /\ Cardinality(Active) \in Nat
  BY Zenon, <1>4, <1>7, IdSets DEF Active
<1>10. Cardinality(V) < PerFabric
  BY Zenon DEF V
<1>11. Cardinality(W) + PerFabric * Cardinality(Fabrics) <= MaxSubscriptions
  BY Zenon DEF ShareInv, W
<1> DEFINE k == Cardinality(Fabrics)  m == PerFabric * k
<1>12. k \in Nat /\ Cardinality(G) = k - 1
  BY Zenon, <1>0, <1>1, FS_CardinalityType
<1> HIDE DEF k
<1>13. m \in Nat /\ PerFabric * (k - 1) = m - PerFabric
  BY <1>0, <1>12
<1>14. Cardinality(U) <= m - PerFabric /\ Cardinality(W) + m <= MaxSubscriptions
  BY Zenon, <1>6, <1>11, <1>12, <1>13 DEF k
<1> HIDE DEF m
<1> QED BY SMTT(60), <1>0, <1>8, <1>9, <1>10, <1>13, <1>14

\* A step that brings no subscription, and saves none but those of the table, keeps the shares.
LEMMA SharesShrink ==
    ASSUME Inv, ShareInv, saved' = saved \/ (Save /\ subs' = subs),
           \A x \in Ids : subs'[x] # None => subs[x] # None /\ subs'[x].peer = subs[x].peer
    PROVE  ShareInv'
<1>1. ASSUME NEW f
      PROVE  OnFabric(f)' \subseteq OnFabric(f)
  BY Zenon DEF OnFabric, Active
<1>2. \A f : OnFabric(f) \subseteq Ids /\ OnFabric(f)' \subseteq Ids /\ SavedOn(f) \subseteq Ids
  BY Zenon DEF OnFabric, Active, SavedOn
<1>3. ASSUME NEW f
      PROVE  /\ Cardinality(OnFabric(f)) \in Nat /\ Cardinality(OnFabric(f)') \in Nat
             /\ Cardinality(OnFabric(f)') <= Cardinality(OnFabric(f))
  BY Zenon, <1>1, <1>2, IdSets
<1>4. ASSUME NEW f \in Fabrics
      PROVE  SavedOn(f)' = SavedOn(f) \/ SavedOn(f)' \subseteq OnFabric(f)
  <2>1. CASE saved' = saved
    BY Zenon, <2>1 DEF SavedOn
  <2>2. CASE Save
    <3>1. saved' = {[id |-> id, peer |-> subs[id].peer, from |-> subs[id].from] :
                        id \in {x \in Active : FabricOf[subs[x].peer] # None}}
      BY Zenon, <2>2 DEF Save
    <3>2. ASSUME NEW d \in saved', FabricOf[d.peer] = f
          PROVE  d.id \in OnFabric(f)
      <4>1. PICK id \in Active : d = [id |-> id, peer |-> subs[id].peer, from |-> subs[id].from]
        BY ZenonT(60), <3>1, <3>2
      <4>2. d.id = id /\ d.peer = subs[id].peer
        BY <4>1
      <4> QED BY Zenon, <3>2, <4>2 DEF OnFabric
    <3> QED BY Zenon, <3>2 DEF SavedOn
  <2> QED BY Zenon, <2>1, <2>2
<1>5. ASSUME NEW f \in Fabrics
      PROVE  Cardinality(OnFabric(f)') <= PerFabric /\ Cardinality(SavedOn(f)') <= PerFabric
  <2>1. Cardinality(OnFabric(f)) <= PerFabric /\ Cardinality(SavedOn(f)) <= PerFabric
    BY Zenon DEF ShareInv
  <2>2. SavedOn(f)' \subseteq Ids
    BY Zenon DEF SavedOn
  <2>3. SavedOn(f)' \subseteq OnFabric(f) =>
            Cardinality(SavedOn(f)') \in Nat /\ Cardinality(SavedOn(f)') <= Cardinality(OnFabric(f))
    BY Zenon, <1>2, <2>2, IdSets
  <2>4. SavedOn(f)' = SavedOn(f) => Cardinality(SavedOn(f)') <= PerFabric
    BY Zenon, <2>1
  <2>5. SavedOn(f)' \subseteq OnFabric(f) => Cardinality(SavedOn(f)') <= PerFabric
    <3> DEFINE a == Cardinality(SavedOn(f)')  b == Cardinality(OnFabric(f))
    <3>1. SavedOn(f)' \subseteq OnFabric(f) => a \in Nat /\ b \in Nat /\ a <= b /\ b <= PerFabric
      BY ZenonT(60), <1>3, <2>1, <2>3
    <3> HIDE DEF a, b
    <3>2. a \in Nat /\ b \in Nat /\ a <= b /\ b <= PerFabric => a <= PerFabric
      BY ReportingAssumption
    <3> QED BY Zenon, <3>1, <3>2 DEF a
  <2>6. Cardinality(OnFabric(f)') <= PerFabric
    <3> DEFINE a == Cardinality(OnFabric(f)')  b == Cardinality(OnFabric(f))
    <3>1. a \in Nat /\ b \in Nat /\ a <= b /\ b <= PerFabric
      BY Zenon, <1>3, <2>1
    <3> HIDE DEF a, b
    <3>2. a <= PerFabric
      BY <3>1, ReportingAssumption
    <3> QED BY Zenon, <3>2 DEF a
  <2> QED BY Zenon, <1>4, <2>4, <2>5, <2>6
<1>6. Cardinality(OnFabric(None)') + PerFabric * Cardinality(Fabrics) <= MaxSubscriptions
  <2> DEFINE a == Cardinality(OnFabric(None)')  b == Cardinality(OnFabric(None))
             m == PerFabric * Cardinality(Fabrics)
  <2>1. a \in Nat /\ b \in Nat /\ a <= b /\ b + m <= MaxSubscriptions
    BY Zenon, <1>3 DEF ShareInv
  <2>2. m \in Nat
    <3>1. Cardinality(Fabrics) \in Nat
      BY Zenon, ReportingAssumption, FS_CardinalityType
    <3> QED BY <3>1, ReportingAssumption
  <2> HIDE DEF a, b, m
  <2>3. a + m <= MaxSubscriptions
    BY SMTT(60), <2>1, <2>2, ReportingAssumption
  <2> QED BY Zenon, <2>3 DEF a, m
<1> QED BY Zenon, <1>5, <1>6 DEF ShareInv

\* No field but the peer's own names the peer.
LEMMA PeerStays ==
    ASSUME NEW s \in Subscription
    PROVE  /\ \A v \in BOOLEAN : [s EXCEPT !.urgent = v].peer = s.peer
           /\ \A v \in Nat : [s EXCEPT !.age = v].peer = s.peer
           /\ [s EXCEPT !.bound = TRUE, !.age = 0].peer = s.peer
           /\ Reported(s).peer = s.peer /\ Empty(s).sub.peer = s.peer
<1>1. \A v \in BOOLEAN : [s EXCEPT !.urgent = v].peer = s.peer
  BY DEF Subscription
<1>2. \A v : [s EXCEPT !.age = v].peer = s.peer
  BY DEF Subscription
<1>3. [s EXCEPT !.bound = TRUE, !.age = 0].peer = s.peer
  BY Zenon DEF Subscription
<1>4. Reported(s).peer = s.peer
  BY Zenon DEF Reported
<1>5. Empty(s).sub.peer = s.peer
  <2>1. Empty(s).sub = [s EXCEPT !.cursor.done = TRUE]
    BY Zenon DEF Empty
  <2>2. [s EXCEPT !.cursor.done = TRUE].peer = s.peer
    BY Zenon DEF Subscription
  <2> QED BY Zenon, <2>1, <2>2
<1> QED BY Zenon, <1>1, <1>2, <1>3, <1>4, <1>5

\* A subscription stays its peer's, and only a SubscribeRequest or a restart brings one.
PeersKept ==
    \A x \in Ids : subs'[x] # None => subs[x] # None /\ subs'[x].peer = subs[x].peer

\* One subscription replaced by one of the same peer.
LEMMA OneKept ==
    ASSUME TableInv, NEW id \in Ids, subs[id] # None, NEW v, v.peer = subs[id].peer,
           subs' = [subs EXCEPT ![id] = v]
    PROVE  PeersKept
<1>1. \A x \in Ids : subs'[x] = IF x = id THEN v ELSE subs[x]
  BY Zenon DEF TableInv
<1> QED BY Zenon, <1>1 DEF PeersKept

\* Every other step keeps the peers.
LEMMA PeersStep ==
    ASSUME Inv, [Next]_vars
    PROVE  \/ PeersKept /\ (saved' = saved \/ (Save /\ subs' = subs))
           \/ \E peer \in Peers, keep \in BOOLEAN : Subscribe(peer, keep)
           \/ Restart
<1> DEFINE Keeps == PeersKept /\ (saved' = saved \/ (Save /\ subs' = subs))
<1>0. TableInv /\ LogInv /\ RoundInv /\ issued \in Nat /\ LogBehind
  BY Zenon DEF Inv, LogInv, NumbersInv
<1>1. ASSUME NEW x \in Ids, subs[x] # None
      PROVE  subs[x] \in Subscription /\ Sound(subs[x], issued)
  BY Zenon, <1>0, <1>1, Entry DEF Good
<1>2. ASSUME NEW x \in Ids, subs[x] # None
      PROVE  Chunk(subs[x]).sub \in Subscription /\ Chunk(subs[x]).sub.peer = subs[x].peer
  <2> DEFINE s == subs[x]
  <2>1. Sound(s, issued)
    BY Zenon, <1>1, <1>2
  <2> HIDE DEF s
  <2>2. Sound(Chunk(s).sub, issued) /\ Chunk(s).sub.peer = s.peer
    BY Zenon, <1>0, <2>1, ChunkMeans
  <2> QED BY Zenon, <2>2 DEF s, Sound
<1>3. ASSUME NEW path \in Attributes, Change(path) PROVE Keeps
  <2>1. /\ subs' = [id \in Ids |-> IF Covers(id, path) THEN Inserted(subs[id], path) ELSE subs[id]]
        /\ saved' = saved
    BY Zenon, <1>3 DEF Change
  <2>2. ASSUME NEW x \in Ids, subs'[x] # None
        PROVE  subs[x] # None /\ subs'[x].peer = subs[x].peer
    <3>1. CASE Covers(x, path)
      <4>1. subs[x] # None /\ subs'[x] = Inserted(subs[x], path)
        BY Zenon, <2>1, <3>1 DEF Covers, Active
      <4> DEFINE s == subs[x]
      <4>2. Sound(s, issued)
        BY Zenon, <1>1, <4>1
      <4> HIDE DEF s
      <4>3. Inserted(s, path).peer = s.peer
        BY Zenon, <1>0, <4>2, InsertedMeans
      <4> QED BY Zenon, <4>1, <4>3 DEF s
    <3>2. CASE ~Covers(x, path)
      BY Zenon, <2>1, <2>2, <3>2
    <3> QED BY Zenon, <3>1, <3>2
  <2> QED BY Zenon, <2>1, <2>2 DEF PeersKept
<1>4. ASSUME NEW priority \in Priorities, NEW kind \in Kinds, Happen(priority, kind) PROVE Keeps
  <2>1. /\ subs' = [id \in Ids |-> IF id \in Active /\ kind \in Asked(subs[id]).urgent
                                   THEN [subs[id] EXCEPT !.urgent = TRUE] ELSE subs[id]]
        /\ saved' = saved
    BY Zenon, <1>4 DEF Happen
  <2>2. ASSUME NEW x \in Active PROVE [subs[x] EXCEPT !.urgent = TRUE].peer = subs[x].peer
    BY Zenon, <1>1, PeerStays DEF Active
  <2> QED BY Zenon, <2>1, <2>2 DEF PeersKept, Active
<1>5. ASSUME NEW peer \in Peers, SessionUp(peer) PROVE Keeps
  <2>1. /\ subs' = [id \in Ids |->
                      IF id \in Active /\ subs[id].peer = peer /\ ~subs[id].bound
                      THEN [subs[id] EXCEPT !.bound = TRUE, !.age = 0] ELSE subs[id]]
        /\ saved' = saved
    BY Zenon, <1>5 DEF SessionUp
  <2>2. ASSUME NEW x \in Active PROVE [subs[x] EXCEPT !.bound = TRUE, !.age = 0].peer = subs[x].peer
    BY Zenon, <1>1, PeerStays DEF Active
  <2> QED BY Zenon, <2>1, <2>2 DEF PeersKept, Active
<1>6. ASSUME NEW t \in 1 .. MaxSleep, Tick(t) PROVE Keeps
  <2> DEFINE age(x) == Least(subs[x].age + t, Asked(subs[x]).max)
             waits == {id \in Active : subs[id].bound}
  <2>1. /\ subs' = [id \in Ids |-> IF id \in waits THEN [subs[id] EXCEPT !.age = age(id)] ELSE subs[id]]
        /\ saved' = saved
    BY Zenon, <1>6 DEF Tick
  <2>2. ASSUME NEW x \in Active PROVE [subs[x] EXCEPT !.age = age(x)].peer = subs[x].peer
    <3>1. ASSUME NEW s \in Subscription, NEW v PROVE [s EXCEPT !.age = v].peer = s.peer
      BY DEF Subscription
    <3> HIDE DEF age
    <3> QED BY Zenon, <1>1, <3>1 DEF Active
  <2> HIDE DEF age
  <2> QED BY Zenon, <2>1, <2>2 DEF PeersKept, Active
<1>7. ASSUME NEW gone, subs' = Without(subs, gone, None), saved' = saved PROVE Keeps
  BY Zenon, <1>7 DEF PeersKept, Without
<1>8. ASSUME NEW peer \in Peers, NEW keep \in BOOLEAN, SubscribeRefused(peer, keep) PROVE Keeps
  <2> HIDE DEF Keeps
  <2> QED BY Zenon, <1>7, <1>8 DEF SubscribeRefused
<1>9. ASSUME NEW peer \in Peers, SessionClosed(peer) PROVE Keeps
  <2> HIDE DEF Keeps
  <2> QED BY Zenon, <1>7, <1>9 DEF SessionClosed, Ended
<1>10. ASSUME NEW fabric \in Fabrics, FabricRemoved(fabric) PROVE Keeps
  <2> HIDE DEF Keeps
  <2> QED BY Zenon, <1>7, <1>10 DEF FabricRemoved, Ended
<1>11. ASSUME UNCHANGED <<subs>>, saved' = saved \/ Save PROVE Keeps
  BY Zenon, <1>11 DEF PeersKept
<1>12. ASSUME NEW id \in Ids, StatusOnPriming(id) PROVE Keeps
  <2>1. /\ saved' = saved
        /\ \/ subs' = subs
           \/ id \in Active /\ subs' = [subs EXCEPT ![id] = Chunk(subs[id]).sub]
           \/ id \in Active /\ subs' = [subs EXCEPT ![id] = Reported(subs[id])]
    BY Zenon, <1>12 DEF StatusOnPriming
  <2>2. ASSUME id \in Active
        PROVE  /\ subs[id] # None /\ Chunk(subs[id]).sub.peer = subs[id].peer
               /\ Reported(subs[id]).peer = subs[id].peer
    BY Zenon, <1>1, <1>2, <2>2, PeerStays DEF Active
  <2> QED BY Zenon, <1>0, <1>11, <2>1, <2>2, OneKept
<1>13. ASSUME NEW t \in todo, ReportSent(t) \/ ReportFails(t) PROVE Keeps
  <2> DEFINE id == t[1]  c == Built(id, t[2])
  <2>1. id \in Ids /\ subs[id] # None
    BY <1>0 DEF RoundInv
  <2>2. c.sub.peer = subs[id].peer
    <3>1. CASE t[2] = "Data"
      BY Zenon, <1>2, <2>1, <3>1 DEF Built
    <3>2. CASE t[2] # "Data"
      <4>1. c.sub = Empty(subs[id]).sub
        BY Zenon, <3>2 DEF Built
      <4>2. Empty(subs[id]).sub.peer = subs[id].peer
        BY Zenon, <1>1, <2>1, PeerStays
      <4> QED BY Zenon, <4>1, <4>2
    <3> QED BY Zenon, <3>1, <3>2
  <2>3. Reported(c.sub).peer = subs[id].peer
    BY Zenon, <2>2 DEF Reported
  <2>4. /\ saved' = saved
        /\ subs' = [subs EXCEPT ![id] = Reported(c.sub)] \/ subs' = [subs EXCEPT ![id] = c.sub]
    BY Zenon, <1>13 DEF ReportSent, ReportFails
  <2> HIDE DEF id, c
  <2> QED BY ZenonT(60), <1>0, <2>1, <2>2, <2>3, <2>4, OneKept
<1>14. ASSUME \/ \E id \in Ids : PrimingForgotten(id) \/ ReportSettled(id) \/ StatusOnReport(id)
              \/ \E t \in todo : ReportWaits(t)
              \/ Save \/ Reserve \/ UNCHANGED vars
       PROVE  Keeps
  <2>1. UNCHANGED <<subs>> /\ (saved' = saved \/ Save)
    BY Zenon, <1>14 DEF PrimingForgotten, ReportSettled, StatusOnReport, ReportWaits, Save, Reserve,
                        vars, table
  <2> QED BY Zenon, <1>11, <2>1
<1> HIDE DEF Keeps
<1>15. \/ Keeps \/ \E peer \in Peers, keep \in BOOLEAN : Subscribe(peer, keep)
       \/ Restart
  BY Zenon, <1>3, <1>4, <1>5, <1>6, <1>8, <1>9, <1>10, <1>12, <1>13, <1>14 DEF Next
<1> QED BY Zenon, <1>15 DEF Keeps

\* A subscription is admitted only within the share.
LEMMA SubscribeShares ==
    ASSUME Inv, ShareInv, NEW peer \in Peers, NEW keep \in BOOLEAN, Subscribe(peer, keep)
    PROVE  ShareInv'
<1> DEFINE gone == Replaced(peer, keep)  id == lastId + 1  sub == Chunk(Subscribed(peer)).sub
           K == Active \ gone  Of(f) == {x \in K : FabricOf[subs[x].peer] = f}
           mine == FabricOf[peer]
<1>0. /\ TableInv /\ issued \in Nat /\ LogBehind /\ LogInv /\ lastId \in 0 .. MaxId
      /\ PerFabric \in Nat /\ MaxSubscriptions \in Nat /\ IsFiniteSet(Fabrics) /\ None \notin Fabrics
      /\ mine \in Fabrics \cup {None}
  BY Zenon, ReportingAssumption DEF Inv, LogInv, NumbersInv, LoopInv
<1>1. /\ subs' = [Without(subs, gone, None) EXCEPT ![id] = sub] /\ saved' = saved
      /\ Admits(peer, K)
  BY Zenon DEF Subscribe
<1>2. sub.peer = peer
  <2>1. 0 \in Nat /\ 0 <= issued
    BY <1>0
  <2>2. Good(Subscribed(peer), Unknown(peer), "more", issued)
    BY Zenon, <1>0, <2>1, FreshGood
  <2>3. Sound(Subscribed(peer), issued)
    BY Zenon, <2>2 DEF Good
  <2>4. sub.peer = Subscribed(peer).peer
    BY Zenon, <1>0, <2>3, ChunkMeans
  <2>5. Subscribed(peer).peer = peer
    BY Zenon DEF Subscribed
  <2> QED BY Zenon, <2>4, <2>5
<1> HIDE DEF gone, id, sub
<1>3. \A x \in Ids : subs'[x] = IF x = id THEN sub ELSE IF x \in gone THEN None ELSE subs[x]
  BY Zenon, <1>1 DEF Without
<1>4. ASSUME NEW f
      PROVE  OnFabric(f)' \subseteq Of(f) \cup (IF f = mine THEN {id} ELSE {})
  <2>1. ASSUME NEW x \in Active', FabricOf[subs'[x].peer] = f
        PROVE  x \in Of(f) \cup (IF f = mine THEN {id} ELSE {})
    <3>1. x \in Ids /\ subs'[x] # None
      BY Zenon, <2>1 DEF Active
    <3>2. CASE x = id
      BY Zenon, <1>2, <1>3, <2>1, <3>1, <3>2
    <3>3. CASE x # id
      <4>1. x \notin gone /\ subs'[x] = subs[x]
        BY Zenon, <1>3, <3>1, <3>3
      <4>2. x \in K /\ FabricOf[subs[x].peer] = f
        BY Zenon, <2>1, <3>1, <4>1 DEF Active
      <4> QED BY Zenon, <4>2
    <3> QED BY Zenon, <3>2, <3>3
  <2> QED BY Zenon, <2>1 DEF OnFabric
<1>5. K \subseteq Ids /\ \A f : Of(f) \subseteq OnFabric(f) /\ OnFabric(f) \subseteq Ids
                                /\ Of(f) \subseteq Ids /\ OnFabric(f)' \subseteq Ids
  BY Zenon DEF OnFabric, Active
<1> HIDE DEF K
<1>6. ASSUME NEW f
      PROVE  /\ Cardinality(Of(f)) \in Nat /\ Cardinality(OnFabric(f)') \in Nat
             /\ Cardinality(OnFabric(f)) \in Nat
             /\ Cardinality(Of(f)) <= Cardinality(OnFabric(f))
             /\ Cardinality(OnFabric(f)') <= Cardinality(Of(f)) + 1
             /\ f # mine => Cardinality(OnFabric(f)') <= Cardinality(Of(f))
  <2>1. /\ Cardinality(Of(f)) \in Nat /\ Cardinality(OnFabric(f)') \in Nat
        /\ Cardinality(OnFabric(f)) \in Nat /\ Cardinality(Of(f)) <= Cardinality(OnFabric(f))
        /\ IsFiniteSet(Of(f))
    BY Zenon, <1>5, IdSets
  <2> DEFINE T == Of(f) \cup {id}
  <2>2. OnFabric(f)' \subseteq T /\ (f # mine => OnFabric(f)' \subseteq Of(f))
    BY Zenon, <1>4
  <2>3. /\ IsFiniteSet(T)
        /\ Cardinality(T) = IF id \in Of(f) THEN Cardinality(Of(f)) ELSE Cardinality(Of(f)) + 1
    BY Zenon, <2>1, FS_AddElement
  <2> HIDE DEF T
  <2>4. Cardinality(OnFabric(f)') <= Cardinality(T) /\ Cardinality(T) \in Nat
    BY Zenon, <2>2, <2>3, FS_Subset, FS_CardinalityType
  <2>5. f # mine => Cardinality(OnFabric(f)') <= Cardinality(Of(f))
    BY Zenon, <1>5, <2>2, IdSets
  <2>6. Cardinality(OnFabric(f)') <= Cardinality(Of(f)) + 1
    <3> DEFINE a == Cardinality(OnFabric(f)')  b == Cardinality(Of(f))  c == Cardinality(T)
    <3>1. a \in Nat /\ b \in Nat /\ c \in Nat /\ a <= c /\ (c = b \/ c = b + 1)
      BY Zenon, <2>1, <2>3, <2>4
    <3> HIDE DEF a, b, c
    <3>2. a <= b + 1
      BY <3>1
    <3> QED BY Zenon, <3>2 DEF a, b
  <2> QED BY Zenon, <2>1, <2>5, <2>6
<1>7. ASSUME NEW f \in Fabrics
      PROVE  Cardinality(OnFabric(f)') <= PerFabric
  <2> DEFINE a == Cardinality(OnFabric(f)')  b == Cardinality(Of(f))  c == Cardinality(OnFabric(f))
  <2>1. /\ a \in Nat /\ b \in Nat /\ c \in Nat /\ b <= c /\ a <= b + 1 /\ (f # mine => a <= b)
        /\ c <= PerFabric
    BY Zenon, <1>6 DEF ShareInv
  <2>2. f = mine => b < PerFabric
    <3>1. f # None
      BY Zenon, <1>0
    <3> QED BY Zenon, <1>1, <3>1 DEF Admits
  <2> HIDE DEF a, b, c, mine
  <2>3. a <= PerFabric
    BY <1>0, <2>1, <2>2
  <2> QED BY Zenon, <2>3 DEF a
<1>8. Cardinality(OnFabric(None)') + PerFabric * Cardinality(Fabrics) <= MaxSubscriptions
  <2> DEFINE a == Cardinality(OnFabric(None)')  b == Cardinality(Of(None))
             c == Cardinality(OnFabric(None))  m == PerFabric * Cardinality(Fabrics)
             L == {x \in K : FabricOf[subs[x].peer] # None}
             k == Cardinality(K)  l == Cardinality(L)
  <2>1. /\ a \in Nat /\ b \in Nat /\ c \in Nat /\ b <= c /\ a <= b + 1 /\ (None # mine => a <= b)
        /\ c + m <= MaxSubscriptions
    BY Zenon, <1>6 DEF ShareInv
  <2>2. m \in Nat
    <3>1. Cardinality(Fabrics) \in Nat
      BY Zenon, <1>0, FS_CardinalityType
    <3> QED BY <1>0, <3>1
  <2>3. mine = None => MaxSubscriptions - k > m - l
    BY Zenon, <1>1 DEF Admits
  <2>4. k = b + l /\ l \in Nat
    <3> DEFINE N == Of(None)
    <3>1. K = N \cup L /\ N \cap L = {} /\ N \subseteq Ids /\ L \subseteq Ids
      BY Zenon, <1>5
    <3> HIDE DEF N, L
    <3>2. IsFiniteSet(N) /\ IsFiniteSet(L) /\ Cardinality(L) \in Nat
      BY Zenon, <3>1, IdSets
    <3>3. Cardinality(N \cup L) = Cardinality(N) + Cardinality(L)
      BY Zenon, <3>1, <3>2, UnionBound
    <3> QED BY Zenon, <3>1, <3>2, <3>3 DEF N
  <2> HIDE DEF a, b, c, k, l, m, mine
  <2>5. a + m <= MaxSubscriptions
    BY SMTT(60), <1>0, <2>1, <2>2, <2>3, <2>4
  <2> QED BY Zenon, <2>5 DEF a, m
<1>9. ASSUME NEW f \in Fabrics
      PROVE  Cardinality(SavedOn(f)') <= PerFabric
  <2>1. SavedOn(f)' = SavedOn(f)
    BY Zenon, <1>1 DEF SavedOn
  <2> QED BY Zenon, <2>1 DEF ShareInv
<1> QED BY Zenon, <1>7, <1>8, <1>9 DEF ShareInv

\* A restart brings back what was saved, and that is within the shares.
LEMMA RestartShares ==
    ASSUME Inv, ShareInv, Restart
    PROVE  ShareInv'
<1>1. \A x \in Ids : subs'[x] # None => \E d \in saved : d.id = x /\ subs'[x].peer = d.peer
  BY Zenon, RestartTable DEF Inv, LogInv, NumbersInv
<1>2. saved' = saved
  BY Zenon DEF Restart
<1>3. ASSUME NEW f \in Fabrics
      PROVE  Cardinality(OnFabric(f)') <= PerFabric /\ Cardinality(SavedOn(f)') <= PerFabric
  <2>1. OnFabric(f)' \subseteq SavedOn(f) /\ SavedOn(f) \subseteq Ids
    <3>1. ASSUME NEW x \in OnFabric(f)' PROVE x \in SavedOn(f)
      <4>1. x \in Ids /\ subs'[x] # None /\ FabricOf[subs'[x].peer] = f
        BY Zenon, <3>1 DEF OnFabric, Active
      <4>2. PICK d \in saved : d.id = x /\ subs'[x].peer = d.peer
        BY Zenon, <1>1, <4>1
      <4>3. FabricOf[d.peer] = f
        BY Zenon, <4>1, <4>2
      <4> QED BY Zenon, <4>1, <4>2, <4>3 DEF SavedOn
    <3> QED BY Zenon, <3>1 DEF SavedOn
  <2> DEFINE a == Cardinality(OnFabric(f)')  b == Cardinality(SavedOn(f))
  <2>2. a <= b /\ a \in Nat /\ b \in Nat /\ b <= PerFabric
    <3>1. OnFabric(f)' \subseteq Ids
      BY Zenon, <2>1
    <3> QED BY Zenon, <2>1, <3>1, IdSets DEF ShareInv
  <2> HIDE DEF a, b
  <2>3. a <= PerFabric
    BY <2>2, ReportingAssumption
  <2>4. SavedOn(f)' = SavedOn(f)
    BY Zenon, <1>2 DEF SavedOn
  <2> QED BY Zenon, <2>2, <2>3, <2>4 DEF a, b
<1>4. Cardinality(OnFabric(None)') + PerFabric * Cardinality(Fabrics) <= MaxSubscriptions
  <2>1. OnFabric(None)' = {}
    <3>1. ASSUME NEW x \in OnFabric(None)' PROVE FALSE
      <4>1. x \in Ids /\ subs'[x] # None /\ FabricOf[subs'[x].peer] = None
        BY Zenon, <3>1 DEF OnFabric, Active
      <4>2. PICK d \in saved : d.id = x /\ subs'[x].peer = d.peer
        BY Zenon, <1>1, <4>1
      <4>3. FabricOf[d.peer] = None
        BY Zenon, <4>1, <4>2
      <4> QED BY Zenon, <4>2, <4>3 DEF Inv, SavedInv
    <3> QED BY Zenon, <3>1
  <2>2. Cardinality(OnFabric(None)') = 0
    BY Zenon, <2>1, FS_EmptySet
  <2>3. Cardinality(Fabrics) \in Nat
    BY Zenon, ReportingAssumption, FS_CardinalityType
  <2> DEFINE m == PerFabric * Cardinality(Fabrics)
  <2>4. m \in Nat /\ m <= MaxSubscriptions
    BY <2>3, ReportingAssumption
  <2> HIDE DEF m
  <2>5. 0 + m <= MaxSubscriptions
    BY <2>4
  <2> QED BY Zenon, <2>2, <2>5 DEF m
<1> QED BY Zenon, <1>3, <1>4 DEF ShareInv

\* SubscriptionTable::admit keeps a place for every fabric that has not its share, against
\* any mixture of requests, replacements, ends of sessions and fabrics, saves and restarts.
THEOREM SharesKept == Spec => []FabricShare
<1>1. Init => ShareInv
  <2> SUFFICES ASSUME Init PROVE ShareInv
    OBVIOUS
  <2>1. \A f : OnFabric(f) = {} /\ SavedOn(f) = {}
    BY Zenon DEF Init, OnFabric, SavedOn, Active
  <2>2. Cardinality({}) = 0 /\ Cardinality(Fabrics) \in Nat
    BY Zenon, FS_EmptySet, FS_CardinalityType, ReportingAssumption
  <2> DEFINE m == PerFabric * Cardinality(Fabrics)
  <2>3. m \in Nat /\ m <= MaxSubscriptions
    BY SMTT(30), <2>2, ReportingAssumption
  <2> HIDE DEF m
  <2>4. 0 + m <= MaxSubscriptions /\ 0 <= PerFabric
    BY <2>3, ReportingAssumption
  <2> QED BY Zenon, <2>1, <2>2, <2>4 DEF ShareInv, m
<1>2. Inv /\ ShareInv /\ [Next]_vars => ShareInv'
  BY Zenon, PeersStep, SharesShrink, SubscribeShares, RestartShares DEF PeersKept
<1>3. Inv /\ ShareInv => FabricShare
  BY ShareMeans
<1> QED BY ReportingInvariant, <1>1, <1>2, <1>3, PTL DEF Spec
=============================================================================
