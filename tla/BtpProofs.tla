----------------------------- MODULE BtpProofs -----------------------------
(***************************************************************************)
(* That two BTP Sessions never close each other, and that the connection   *)
(* they make implements a message pipe (transport/btp.rs).                 *)
(*                                                                         *)
(* The invariant, IInv, looks at the two directions of the connection in   *)
(* the same way (Way): the last frame acknowledged, the last one whose     *)
(* acknowledgement was sent, the last one received and the last one sent   *)
(* come in this order and span at most the window (Order); the frames on   *)
(* the link number the gap between the last two (InSequence), carry the    *)
(* acknowledgements between the first two (AcksInOrder) and the segments   *)
(* from the octet reassembled last to the octet cut off last (Segmented);  *)
(* and while both ends are there, the acknowledgement timer of the one has *)
(* more left than the send-acknowledgement timer of the other (InTime).    *)
(* That poll_send never leaves both ends waiting needs one more fact: the  *)
(* two windows are not both used up at once (Spare).                       *)
(***************************************************************************)
EXTENDS Btp, SequenceTheorems, TLAPS

\* wrapping_sub and wrapping_add(1) of sequence numbers, by cases
LEMMA WrapCases ==
    /\ SeqMod \in Nat /\ SeqMod > 1
    /\ \A n, k \in Seq8 : Minus(n, k) = IF n >= k THEN n - k ELSE n - k + SeqMod
    /\ \A n \in Seq8 : Minus(n, 1) = IF n >= 1 THEN n - 1 ELSE SeqMod - 1
    /\ \A n \in Seq8 : Up(n) = IF n = SeqMod - 1 THEN 0 ELSE n + 1
<1> DEFINE M == SeqMod
<1>1. M \in Nat /\ M > 1
  BY BtpAssumption
<1>2. \A a \in Int : 0 <= a /\ a < M => a % M = a
  BY <1>1
<1>3. \A a \in Int : -M <= a /\ a < 0 => a % M = a + M
  BY <1>1
<1>4. M % M = 0
  BY <1>1
<1>5. \A n, k \in Seq8 : (n - k) % M = IF n >= k THEN n - k ELSE n - k + M
  BY <1>1, <1>2, <1>3 DEF Seq8
<1>6. \A n \in Seq8 : (n - 1) % M = IF n >= 1 THEN n - 1 ELSE M - 1
  BY <1>1, <1>2, <1>3 DEF Seq8
<1>7. \A n \in Seq8 : (n + 1) % M = IF n = M - 1 THEN 0 ELSE n + 1
  BY <1>1, <1>2, <1>4 DEF Seq8
<1> QED
  BY <1>1, <1>5, <1>6, <1>7 DEF Minus, Up

\* Distances of sequence numbers
LEMMA Distances ==
    /\ \A n, k \in Seq8 : Minus(n, k) \in Seq8 /\ (Minus(n, k) = 0 <=> n = k)
    /\ \A n \in Seq8 : Minus(n, 1) \in Seq8 /\ Up(n) \in Seq8 /\ Minus(Up(n), 1) = n
    /\ \A n, k \in Seq8 : Minus(Minus(n, k), 1) = Minus(Minus(n, 1), k)
<1>1. SeqMod \in Nat /\ SeqMod > 1
  BY WrapCases
<1>2. \A n, k \in Seq8 : Minus(n, k) \in Seq8 /\ (Minus(n, k) = 0 <=> n = k)
  BY WrapCases DEF Seq8
<1>3. \A n \in Seq8 : Minus(n, 1) \in Seq8 /\ Up(n) \in Seq8
  BY WrapCases DEF Seq8
<1>4. ASSUME NEW n \in Seq8 PROVE Minus(Up(n), 1) = n
  <2>1. Up(n) \in Seq8 /\ Up(n) = IF n = SeqMod - 1 THEN 0 ELSE n + 1
    BY <1>3, WrapCases
  <2>2. Minus(Up(n), 1) = IF Up(n) >= 1 THEN Up(n) - 1 ELSE SeqMod - 1
    BY <2>1, WrapCases
  <2> QED
    BY <1>1, <2>1, <2>2 DEF Seq8
<1>5. ASSUME NEW n \in Seq8, NEW k \in Seq8 PROVE Minus(Minus(n, k), 1) = Minus(Minus(n, 1), k)
  <2>1. Minus(Minus(n, k), 1) = IF Minus(n, k) >= 1 THEN Minus(n, k) - 1 ELSE SeqMod - 1
    BY <1>2, WrapCases
  <2>2. Minus(Minus(n, 1), k) = IF Minus(n, 1) >= k THEN Minus(n, 1) - k
                                                     ELSE Minus(n, 1) - k + SeqMod
    BY <1>3, WrapCases
  <2>3. Minus(n, k) = IF n >= k THEN n - k ELSE n - k + SeqMod
    BY WrapCases
  <2>4. Minus(n, 1) = IF n >= 1 THEN n - 1 ELSE SeqMod - 1
    BY WrapCases
  <2> QED
    BY <1>1, <2>1, <2>2, <2>3, <2>4 DEF Seq8
<1> QED
  BY Zenon, <1>2, <1>3, <1>4, <1>5

\* Four sequence numbers in the order in which a window passes over them: the last one
\* acknowledged, the last one an acknowledgement was sent for, the last one received and
\* the last one sent
InOrder(w, a, b, c, d) ==
    /\ Minus(b, a) + Minus(c, b) + Minus(d, c) = Minus(d, a)
    /\ Minus(d, a) <= w

\* What the windows need of SeqMod and of the window
LEMMA WindowType ==
    ASSUME window \in Windows
    PROVE  SeqMod \in Nat /\ SeqMod > 1 /\ window \in Nat /\ 1 <= window /\ window < SeqMod
BY BtpAssumption

\* The distance between two sequence numbers, by cases, and the next one
Apart(n, k) ==
    \/ n >= k /\ Minus(n, k) = n - k
    \/ n < k /\ Minus(n, k) = n - k + SeqMod
Follows(u, n) == u = n + 1 \/ (u = 0 /\ n = SeqMod - 1)

\* Any two sequence numbers are apart, and Up is the one that follows
LEMMA ApartCases ==
    /\ \A n, k \in Seq8 : Apart(n, k)
    /\ \A n \in Seq8 : Up(n) \in Seq8 /\ Follows(Up(n), n)
    /\ \A n \in Seq8 : n \in Nat /\ n < SeqMod
<1>1. \A n, k \in Seq8 : Apart(n, k)
  BY WrapCases DEF Seq8, Apart
<1>2. \A n \in Seq8 : Up(n) \in Seq8 /\ Follows(Up(n), n)
  BY WrapCases DEF Seq8, Follows
<1>3. \A n \in Seq8 : n \in Nat /\ n < SeqMod
  BY WrapCases DEF Seq8
<1> QED
  BY Zenon, <1>1, <1>2, <1>3

\* A frame is sent
LEMMA OrderSend ==
    ASSUME NEW a \in Seq8, NEW b \in Seq8, NEW c \in Seq8, NEW d \in Seq8, window \in Windows,
           InOrder(window, a, b, c, d), Minus(d, a) < window
    PROVE  /\ InOrder(window, a, b, c, Up(d))
           /\ Minus(Up(d), a) = Minus(d, a) + 1
           /\ Minus(Up(d), b) = Minus(d, b) + 1
           /\ Minus(Up(d), c) = Minus(d, c) + 1
<1> DEFINE u == Up(d)
<1>1. SeqMod \in Nat /\ SeqMod > 1 /\ window \in Nat /\ 1 <= window /\ window < SeqMod
  BY Zenon, WindowType
<1>2. u \in Seq8 /\ Follows(u, d)
  BY Zenon, ApartCases
<1> HIDE DEF u
<1>3. /\ Apart(d, a) /\ Apart(d, b) /\ Apart(d, c) /\ Apart(c, b) /\ Apart(b, a)
      /\ Apart(u, a) /\ Apart(u, b) /\ Apart(u, c)
      /\ a \in Nat /\ a < SeqMod /\ b \in Nat /\ b < SeqMod
      /\ c \in Nat /\ c < SeqMod /\ d \in Nat /\ d < SeqMod
  BY Zenon, <1>2, ApartCases
<1>4. Minus(b, a) + Minus(c, b) + Minus(d, c) = Minus(d, a)
  BY Zenon DEF InOrder
<1>5. /\ Minus(u, a) = Minus(d, a) + 1
      /\ Minus(u, b) = Minus(d, b) + 1
      /\ Minus(u, c) = Minus(d, c) + 1
  BY <1>1, <1>2, <1>3, <1>4 DEF Apart, Follows
<1>6. Minus(b, a) + Minus(c, b) + Minus(u, c) = Minus(u, a) /\ Minus(u, a) <= window
  BY <1>1, <1>3, <1>4, <1>5 DEF Apart
<1> QED
  BY Zenon, <1>5, <1>6 DEF u, InOrder

\* A frame is received
LEMMA OrderReceive ==
    ASSUME NEW a \in Seq8, NEW b \in Seq8, NEW c \in Seq8, NEW d \in Seq8, window \in Windows,
           InOrder(window, a, b, c, d), c # d
    PROVE  /\ InOrder(window, a, b, Up(c), d)
           /\ Minus(d, c) = Minus(d, Up(c)) + 1
           /\ Minus(Up(c), b) <= window /\ Up(c) # b
<1> DEFINE u == Up(c)
<1>1. SeqMod \in Nat /\ SeqMod > 1 /\ window \in Nat /\ 1 <= window /\ window < SeqMod
  BY Zenon, WindowType
<1>2. u \in Seq8 /\ Follows(u, c)
  BY Zenon, ApartCases
<1> HIDE DEF u
<1>3. /\ Apart(d, a) /\ Apart(d, c) /\ Apart(c, b) /\ Apart(b, a)
      /\ Apart(u, b) /\ Apart(d, u)
      /\ a \in Nat /\ a < SeqMod /\ b \in Nat /\ b < SeqMod
      /\ c \in Nat /\ c < SeqMod /\ d \in Nat /\ d < SeqMod
  BY Zenon, <1>2, ApartCases
<1>4. Minus(b, a) + Minus(c, b) + Minus(d, c) = Minus(d, a) /\ Minus(d, a) <= window
  BY Zenon DEF InOrder
<1>5. /\ Minus(d, c) = Minus(d, u) + 1 /\ Minus(u, b) = Minus(c, b) + 1
      /\ Minus(u, b) <= window /\ u # b
  BY <1>1, <1>2, <1>3, <1>4 DEF Apart, Follows
<1>6. Minus(b, a) + Minus(u, b) + Minus(d, u) = Minus(d, a)
  BY <1>1, <1>2, <1>3, <1>4, <1>5 DEF Apart
<1> QED
  BY Zenon, <1>4, <1>5, <1>6 DEF u, InOrder

\* What has been received is acknowledged by a frame that is sent
LEMMA OrderOwnAck ==
    ASSUME NEW a \in Seq8, NEW b \in Seq8, NEW c \in Seq8, NEW d \in Seq8, window \in Windows,
           InOrder(window, a, b, c, d)
    PROVE  /\ InOrder(window, a, c, c, d)
           /\ Minus(b, a) <= Minus(c, a) /\ Minus(c, a) <= Minus(d, a)
           /\ b # c => Minus(b, a) < Minus(c, a) /\ Minus(d, c) < Minus(d, b)
           /\ Minus(d, b) <= Minus(d, a) /\ Minus(d, c) <= Minus(d, b)
<1>1. SeqMod \in Nat /\ SeqMod > 1 /\ window \in Nat /\ 1 <= window /\ window < SeqMod
  BY Zenon, WindowType
<1>2. /\ Apart(d, a) /\ Apart(d, b) /\ Apart(d, c) /\ Apart(c, b) /\ Apart(b, a)
      /\ Apart(c, a) /\ Apart(c, c)
      /\ a \in Nat /\ a < SeqMod /\ b \in Nat /\ b < SeqMod
      /\ c \in Nat /\ c < SeqMod /\ d \in Nat /\ d < SeqMod
  BY Zenon, ApartCases
<1>3. Minus(b, a) + Minus(c, b) + Minus(d, c) = Minus(d, a) /\ Minus(d, a) <= window
  BY Zenon DEF InOrder
<1>4. /\ Minus(b, a) <= Minus(c, a) /\ Minus(c, a) <= Minus(d, a)
      /\ b # c => Minus(b, a) < Minus(c, a) /\ Minus(d, c) < Minus(d, b)
      /\ Minus(d, b) <= Minus(d, a) /\ Minus(d, c) <= Minus(d, b)
  BY <1>1, <1>2, <1>3 DEF Apart
<1>5. Minus(c, a) + Minus(c, c) + Minus(d, c) = Minus(d, a)
  BY <1>1, <1>2, <1>3 DEF Apart
<1> QED
  BY Zenon, <1>3, <1>4, <1>5 DEF InOrder

\* An acknowledgement arrives
LEMMA OrderAcked ==
    ASSUME NEW a \in Seq8, NEW b \in Seq8, NEW c \in Seq8, NEW d \in Seq8, window \in Windows,
           InOrder(window, a, b, c, d),
           NEW x \in Seq8, 1 <= Minus(x, a), Minus(x, a) <= Minus(b, a)
    PROVE  /\ InOrder(window, x, b, c, d)
           /\ Minus(x, a) <= Minus(d, a)
           /\ Minus(d, x) = Minus(d, a) - Minus(x, a)
           /\ \A y \in Seq8 : Minus(x, a) < Minus(y, a) =>
                Minus(y, x) = Minus(y, a) - Minus(x, a)
<1>1. SeqMod \in Nat /\ SeqMod > 1 /\ window \in Nat /\ 1 <= window /\ window < SeqMod
  BY Zenon, WindowType
<1>2. /\ Apart(d, a) /\ Apart(d, c) /\ Apart(c, b) /\ Apart(b, a)
      /\ Apart(x, a) /\ Apart(d, x) /\ Apart(b, x)
      /\ a \in Nat /\ a < SeqMod /\ b \in Nat /\ b < SeqMod
      /\ c \in Nat /\ c < SeqMod /\ d \in Nat /\ d < SeqMod /\ x \in Nat /\ x < SeqMod
  BY Zenon, ApartCases
<1>3. Minus(b, a) + Minus(c, b) + Minus(d, c) = Minus(d, a) /\ Minus(d, a) <= window
  BY Zenon DEF InOrder
<1>4. /\ Minus(x, a) <= Minus(d, a)
      /\ Minus(d, x) = Minus(d, a) - Minus(x, a) /\ Minus(b, x) = Minus(b, a) - Minus(x, a)
  BY <1>1, <1>2, <1>3 DEF Apart
<1>5. Minus(b, x) + Minus(c, b) + Minus(d, c) = Minus(d, x) /\ Minus(d, x) <= window
  BY <1>1, <1>2, <1>3, <1>4 DEF Apart
<1>6. ASSUME NEW y \in Seq8, Minus(x, a) < Minus(y, a)
      PROVE  Minus(y, x) = Minus(y, a) - Minus(x, a)
  <2>1. Apart(y, a) /\ Apart(y, x) /\ y \in Nat /\ y < SeqMod
    BY Zenon, ApartCases
  <2> QED
    BY <1>1, <1>2, <1>6, <2>1 DEF Apart
<1> QED
  BY Zenon, <1>4, <1>5, <1>6 DEF InOrder


\* The types of the fields of a Session, by name
SendTimer == 0 .. SendAckTimeout \cup {None}
AckTimer == 0 .. AckTimeout \cup {None}
Closings == {None, "Gone", "Sequence", "Malformed", "Timeout"}
Outgoing == Message \cup {None}
Incoming == Message \cup {Garbled, None}

\* The fields of a Session, the type of each, and what makes a record one
LEMMA SessionShape ==
    Session = [tx : Seq8, txAcked : Seq8, rx : Seq8, rxAcked : Seq8, owes : BOOLEAN,
               sendAckIn : SendTimer, ackIn : AckTimer, closed : Closings,
               out : Outgoing, sent : Nat, in : Incoming, got : Nat]
BY Zenon DEF Session, SendTimer, AckTimer, Closings, Outgoing, Incoming

\* What the timers of a Session are set to
LEMMA TimerValues ==
    /\ None \in SendTimer /\ SendAckTimeout \in SendTimer
    /\ None \in AckTimer /\ AckTimeout \in AckTimer
    /\ SendAckTimeout # None /\ AckTimeout # None /\ AckTimeout # 0 /\ 0 # None
<1>1. /\ SendAckTimeout \in Nat /\ AckTimeout \in Nat /\ AckTimeout # 0
      /\ None \notin Nat
  BY BtpAssumption
<1>2. SendAckTimeout \in 0 .. SendAckTimeout /\ AckTimeout \in 0 .. AckTimeout /\ 0 \in Nat
  BY <1>1
<1> QED
  BY Zenon, <1>1, <1>2 DEF SendTimer, AckTimer

\* write_header leaves a Session, with these fields
LEMMA HeaderFields ==
    ASSUME NEW s \in Session
    PROVE  LET h == Header(s)
           IN  /\ h \in Session
               /\ h.tx = Up(s.tx) /\ h.txAcked = s.txAcked /\ h.rx = s.rx
               /\ h.rxAcked = IF s.owes THEN s.rx ELSE s.rxAcked
               /\ h.owes = FALSE /\ h.sendAckIn = IF s.owes THEN None ELSE s.sendAckIn
               /\ h.ackIn = IF s.ackIn = None THEN AckTimeout ELSE s.ackIn
               /\ h.closed = s.closed /\ h.out = s.out /\ h.sent = s.sent
               /\ h.in = s.in /\ h.got = s.got
<1> DEFINE h == Header(s)
<1>1. Up(s.tx) \in Seq8
  BY Zenon, Distances, SessionShape
<1>2. h \in Session
  BY Zenon, <1>1, TimerValues, SessionShape DEF Header
<1>3. /\ h.tx = Up(s.tx) /\ h.txAcked = s.txAcked /\ h.rx = s.rx
      /\ h.rxAcked = IF s.owes THEN s.rx ELSE s.rxAcked
      /\ h.owes = FALSE /\ h.sendAckIn = IF s.owes THEN None ELSE s.sendAckIn
  BY Zenon, SessionShape DEF Header
<1>4. /\ h.ackIn = IF s.ackIn = None THEN AckTimeout ELSE s.ackIn
      /\ h.closed = s.closed /\ h.out = s.out /\ h.sent = s.sent
      /\ h.in = s.in /\ h.got = s.got
  BY Zenon, SessionShape DEF Header
<1> QED
  BY Zenon, <1>2, <1>3, <1>4

\* A message is handed to the Session, or a segment of it has gone out
SetOut(s, o, n) == [s EXCEPT !.out = o, !.sent = n]

\* The fields of a Session whose outgoing message moves on
LEMMA OutFields ==
    ASSUME NEW s \in Session, NEW o \in Outgoing, NEW n \in Nat
    PROVE  LET h == SetOut(s, o, n)
           IN  /\ h \in Session
               /\ h.tx = s.tx /\ h.txAcked = s.txAcked /\ h.rx = s.rx /\ h.rxAcked = s.rxAcked
               /\ h.owes = s.owes /\ h.sendAckIn = s.sendAckIn /\ h.ackIn = s.ackIn
               /\ h.closed = s.closed /\ h.out = o /\ h.sent = n /\ h.in = s.in /\ h.got = s.got
<1> DEFINE h == SetOut(s, o, n)
<1>1. h \in Session
  BY Zenon, SessionShape DEF SetOut
<1>2. /\ h.tx = s.tx /\ h.txAcked = s.txAcked /\ h.rx = s.rx /\ h.rxAcked = s.rxAcked
      /\ h.owes = s.owes /\ h.sendAckIn = s.sendAckIn /\ h.ackIn = s.ackIn
  BY Zenon, SessionShape DEF SetOut
<1>3. h.closed = s.closed /\ h.out = o /\ h.sent = n /\ h.in = s.in /\ h.got = s.got
  BY Zenon, SessionShape DEF SetOut
<1> QED
  BY Zenon, <1>1, <1>2, <1>3

\* Time passes at a Session
Later(s) == [s EXCEPT !.sendAckIn = Less(@), !.ackIn = Less(@)]

\* The fields of a Session when time passes: only the two timers move
LEMMA TickFields ==
    ASSUME NEW s \in Session
    PROVE  LET h == Later(s)
           IN  /\ h \in Session
               /\ h.tx = s.tx /\ h.txAcked = s.txAcked /\ h.rx = s.rx /\ h.rxAcked = s.rxAcked
               /\ h.owes = s.owes /\ h.sendAckIn = Less(s.sendAckIn) /\ h.ackIn = Less(s.ackIn)
               /\ h.closed = s.closed /\ h.out = s.out /\ h.sent = s.sent
               /\ h.in = s.in /\ h.got = s.got
<1> DEFINE h == Later(s)
<1>1. s.sendAckIn \in SendTimer /\ s.ackIn \in AckTimer
  BY Zenon, SessionShape
<1>2. SendAckTimeout \in Nat /\ AckTimeout \in Nat
  BY BtpAssumption
<1>3. Less(s.sendAckIn) \in SendTimer
  BY <1>1, <1>2 DEF SendTimer, Less
<1>4. Less(s.ackIn) \in AckTimer
  BY <1>1, <1>2 DEF AckTimer, Less
<1>5. h \in Session
  BY Zenon, <1>3, <1>4, SessionShape DEF Later
<1>6. /\ h.tx = s.tx /\ h.txAcked = s.txAcked /\ h.rx = s.rx /\ h.rxAcked = s.rxAcked
      /\ h.owes = s.owes /\ h.sendAckIn = Less(s.sendAckIn) /\ h.ackIn = Less(s.ackIn)
  BY Zenon, SessionShape DEF Later
<1>7. /\ h.closed = s.closed /\ h.out = s.out /\ h.sent = s.sent
      /\ h.in = s.in /\ h.got = s.got
  BY Zenon, SessionShape DEF Later
<1> QED
  BY Zenon, <1>5, <1>6, <1>7

\* The fields of a frame
LEMMA FrameFields ==
    ASSUME NEW f \in Frame
    PROVE  /\ f.ack \in Seq8 \cup {None} /\ f.seq \in Seq8 /\ f.begin \in BOOLEAN
           /\ f.ending \in BOOLEAN /\ f.length \in Nat /\ f.message \in Message \cup {None}
           /\ f.at \in Nat
<1> DEFINE A == Seq8 \cup {None}
           B == Message \cup {None}
<1>1. Frame = [ack : A, seq : Seq8, begin : BOOLEAN, ending : BOOLEAN,
               length : Nat, message : B, at : Nat]
  BY Zenon DEF Frame
<1> HIDE DEF A, B
<1>2. /\ f.ack \in A /\ f.seq \in Seq8 /\ f.begin \in BOOLEAN
      /\ f.ending \in BOOLEAN /\ f.length \in Nat /\ f.message \in B /\ f.at \in Nat
  BY Zenon, <1>1
<1> QED
  BY Zenon, <1>2 DEF A, B

\* receive_inner leaves a Session, with these fields, before it reads the payload
LEMMA NotedFields ==
    ASSUME NEW s \in Session, NEW f \in Frame
    PROVE  LET h == Noted(s, f)
           IN  /\ h \in Session
               /\ h.tx = s.tx /\ h.txAcked = IF f.ack = None THEN s.txAcked ELSE f.ack
               /\ h.rx = f.seq /\ h.rxAcked = s.rxAcked /\ h.owes = TRUE
               /\ h.sendAckIn = IF s.sendAckIn = None THEN SendAckTimeout ELSE s.sendAckIn
               /\ h.ackIn = IF f.ack = None THEN s.ackIn
                            ELSE IF Minus(f.ack, s.txAcked) = InFlight(s) THEN None ELSE AckTimeout
               /\ h.closed = s.closed /\ h.out = s.out /\ h.sent = s.sent
               /\ h.in = s.in /\ h.got = s.got
<1> DEFINE h == Noted(s, f)
<1> DEFINE g == [s EXCEPT !.rx = f.seq, !.owes = TRUE,
                          !.sendAckIn = IF @ = None THEN SendAckTimeout ELSE @]
<1>1. f.seq \in Seq8 /\ (f.ack # None => f.ack \in Seq8)
  BY Zenon, FrameFields
<1>2. g \in Session
  BY Zenon, <1>1, TimerValues, SessionShape
<1>3. /\ g.tx = s.tx /\ g.txAcked = s.txAcked
      /\ g.rx = f.seq /\ g.rxAcked = s.rxAcked /\ g.owes = TRUE
      /\ g.sendAckIn = IF s.sendAckIn = None THEN SendAckTimeout ELSE s.sendAckIn
  BY Zenon, SessionShape
<1>4. /\ g.ackIn = s.ackIn /\ g.closed = s.closed /\ g.out = s.out /\ g.sent = s.sent
      /\ g.in = s.in /\ g.got = s.got
  BY Zenon, SessionShape
<1>5. h = IF f.ack = None THEN g ELSE Acknowledged(g, f.ack)
  BY Zenon DEF Noted
<1> HIDE DEF g
<1>6. CASE f.ack = None
  BY Zenon, <1>2, <1>3, <1>4, <1>5, <1>6
<1>7. CASE f.ack # None
  <2> DEFINE t == IF Minus(f.ack, s.txAcked) = InFlight(s) THEN None ELSE AckTimeout
  <2>1. t = IF Minus(f.ack, g.txAcked) = InFlight(g) THEN None ELSE AckTimeout
    BY Zenon, <1>3 DEF InFlight
  <2>2. t \in AckTimer
    BY Zenon, TimerValues
  <2> HIDE DEF t
  <2>3. h = [g EXCEPT !.txAcked = f.ack, !.ackIn = t]
    BY Zenon, <1>5, <1>7, <2>1 DEF Acknowledged
  <2>4. h \in Session
    BY Zenon, <1>1, <1>2, <1>7, <2>2, <2>3, SessionShape
  <2>5. /\ h.tx = g.tx /\ h.txAcked = f.ack /\ h.rx = g.rx /\ h.rxAcked = g.rxAcked
        /\ h.owes = g.owes /\ h.sendAckIn = g.sendAckIn /\ h.ackIn = t
    BY Zenon, <1>2, <2>3, SessionShape
  <2>6. /\ h.closed = g.closed /\ h.out = g.out /\ h.sent = g.sent
        /\ h.in = g.in /\ h.got = g.got
    BY Zenon, <1>2, <2>3, SessionShape
  <2> QED
    BY Zenon, <1>3, <1>4, <1>7, <2>4, <2>5, <2>6 DEF t
<1> QED
  BY Zenon, <1>6, <1>7

\* A segment is put to the ones before it
SetIn(s, o, n) == [s EXCEPT !.in = o, !.got = n]

\* The fields of a Session whose incoming message moves on
LEMMA InFields ==
    ASSUME NEW s \in Session, NEW o \in Incoming, NEW n \in Nat
    PROVE  LET h == SetIn(s, o, n)
           IN  /\ h \in Session
               /\ h.tx = s.tx /\ h.txAcked = s.txAcked /\ h.rx = s.rx /\ h.rxAcked = s.rxAcked
               /\ h.owes = s.owes /\ h.sendAckIn = s.sendAckIn /\ h.ackIn = s.ackIn
               /\ h.closed = s.closed /\ h.out = s.out /\ h.sent = s.sent /\ h.in = o /\ h.got = n
<1> DEFINE h == SetIn(s, o, n)
<1>1. h \in Session
  BY Zenon, SessionShape DEF SetIn
<1>2. /\ h.tx = s.tx /\ h.txAcked = s.txAcked /\ h.rx = s.rx /\ h.rxAcked = s.rxAcked
      /\ h.owes = s.owes /\ h.sendAckIn = s.sendAckIn /\ h.ackIn = s.ackIn
  BY Zenon, SessionShape DEF SetIn
<1>3. h.closed = s.closed /\ h.out = s.out /\ h.sent = s.sent /\ h.in = o /\ h.got = n
  BY Zenon, SessionShape DEF SetIn
<1> QED
  BY Zenon, <1>1, <1>2, <1>3

\* The last frame an end has sent
Sent(s) == Minus(s.tx, 1)

\* Of the frames from s to r: the last one acknowledged, the last one whose acknowledgement
\* was sent, the last one received and the last one sent
Order(w, s, r) == InOrder(w, s.txAcked, r.rxAcked, r.rx, Sent(s))

\* Messages are numbered as they are accepted, and handed over in that order
Numbered(taken, given) ==
    /\ \A i \in 1 .. Len(taken) : taken[i].n = i
    /\ Len(given) <= Len(taken)
    /\ \A i \in 1 .. Len(given) : given[i] = taken[i]

\* The timers of an end run while it owes or awaits an acknowledgement
Timed(s) ==
    /\ s.owes <=> s.rx # s.rxAcked
    /\ s.sendAckIn = None <=> ~s.owes
    /\ s.ackIn = None <=> InFlight(s) = 0

\* The message an end is sending is the last one it accepted
Sending(s, taken) ==
    IF s.out = None THEN s.sent = 0
    ELSE taken # <<>> /\ s.out = taken[Len(taken)] /\ s.sent < s.out.length

\* From s to r, an end that is still there: the frames on the link follow each other
InSequence(s, r, frames) ==
    r.closed = None =>
        /\ Len(frames) = Minus(Sent(s), r.rx)
        /\ \A i \in 1 .. Len(frames) : Minus(frames[i].seq, r.rx) = i

\* From s to r: the acknowledgements on the link are of frames in flight, each of a later
\* one than the one before it, and the last of them is the last s has sent
AcksInOrder(s, r, frames) ==
    r.closed = None =>
        /\ \A i \in 1 .. Len(frames) : frames[i].ack # None =>
             /\ 1 <= Minus(frames[i].ack, r.txAcked)
             /\ Minus(frames[i].ack, r.txAcked) <= Minus(s.rxAcked, r.txAcked)
        /\ \A i, j \in 1 .. Len(frames) : i < j /\ frames[i].ack # None /\ frames[j].ack # None =>
             Minus(frames[i].ack, r.txAcked) < Minus(frames[j].ack, r.txAcked)
        /\ s.rxAcked # r.txAcked => \E i \in 1 .. Len(frames) : frames[i].ack = s.rxAcked

\* A frame takes the reassembly from one place in the messages accepted to the next
Fits(f, from, to, taken) ==
    IF f.length = 0 THEN to = from
    ELSE /\ from.n < Len(taken) /\ f.message = taken[from.n + 1] /\ f.at = from.at
         /\ f.begin <=> from.at = 0
         /\ f.ending <=> from.at + f.length = f.message.length
         /\ to = IF f.ending THEN [n |-> from.n + 1, at |-> 0]
                 ELSE [n |-> from.n, at |-> from.at + f.length]

\* The segments on the link lead from what r has put together to what s has sent
Places == [n : Nat, at : Nat]
Reached(r, given) == [n |-> Len(given), at |-> r.got]
Left(s, taken) == [n |-> IF s.out = None THEN Len(taken) ELSE Len(taken) - 1, at |-> s.sent]
Leads(place, from, to, frames, taken) ==
    /\ place \in [0 .. Len(frames) -> Places]
    /\ place[0] = from /\ place[Len(frames)] = to
    /\ \A i \in 1 .. Len(frames) : Fits(frames[i], place[i - 1], place[i], taken)
Joined(from, to, frames, taken) == \E place : Leads(place, from, to, frames, taken)
Segmented(s, r, frames, taken, given) ==
    r.closed = None =>
        /\ IF r.got = 0 THEN r.in = None
           ELSE Len(given) < Len(taken) /\ r.in = taken[Len(given) + 1]
        /\ Joined(Reached(r, given), Left(s, taken), frames, taken)

\* While both ends are there, s is not about to give up on an acknowledgement that r has
\* still to send
Remaining(r) == IF r.sendAckIn = None THEN SendAckTimeout ELSE r.sendAckIn
InTime(s, r) ==
    s.closed = None /\ r.closed = None =>
        /\ s.ackIn # 0
        /\ s.ackIn # None /\ r.rxAcked = s.txAcked =>
             s.ackIn >= Remaining(r) + (AckTimeout - SendAckTimeout)

\* The windows of the two directions are never both used up for good
Spare(w, s, r) == Minus(Sent(s), r.rxAcked) < w \/ Minus(Sent(r), s.rxAcked) < w

\* write_header moved s to t
HeaderMoved(s, t) ==
    /\ t.tx = Up(s.tx) /\ t.txAcked = s.txAcked /\ t.rx = s.rx
    /\ t.rxAcked = IF s.owes THEN s.rx ELSE s.rxAcked
    /\ t.owes = FALSE /\ t.sendAckIn = IF s.owes THEN None ELSE s.sendAckIn
    /\ t.ackIn = IF s.ackIn = None THEN AckTimeout ELSE s.ackIn
    /\ t.closed = s.closed /\ t.in = s.in /\ t.got = s.got

\* The sequence numbers of a Session
LEMMA Numbers ==
    ASSUME NEW s \in Session
    PROVE  /\ s.tx \in Seq8 /\ s.txAcked \in Seq8 /\ s.rx \in Seq8 /\ s.rxAcked \in Seq8
           /\ Sent(s) \in Seq8 /\ InFlight(s) = Minus(Sent(s), s.txAcked)
           /\ s.owes \in BOOLEAN /\ s.sendAckIn \in SendTimer /\ s.ackIn \in AckTimer
<1>1. /\ s.tx \in Seq8 /\ s.txAcked \in Seq8 /\ s.rx \in Seq8 /\ s.rxAcked \in Seq8
      /\ s.owes \in BOOLEAN /\ s.sendAckIn \in SendTimer /\ s.ackIn \in AckTimer
  BY Zenon, SessionShape
<1> QED
  BY Zenon, <1>1, Distances DEF Sent, InFlight

\* The frame sent is the next one, and there is room for it in both windows
LEMMA SendOrder ==
    ASSUME NEW s \in Session, NEW r \in Session, NEW t \in Session, window \in Windows,
           Order(window, s, r), Order(window, r, s), CanSend(s), Timed(s), HeaderMoved(s, t)
    PROVE  /\ Order(window, t, r) /\ Order(window, r, t)
           /\ Sent(t) = s.tx /\ Minus(s.tx, r.rx) = Minus(Sent(s), r.rx) + 1
           /\ Minus(s.tx, r.rxAcked) = Minus(Sent(s), r.rxAcked) + 1
           /\ InFlight(t) = InFlight(s) + 1
<1>1. /\ s.tx \in Seq8 /\ s.txAcked \in Seq8 /\ s.rx \in Seq8 /\ s.rxAcked \in Seq8
      /\ Sent(s) \in Seq8 /\ InFlight(s) = Minus(Sent(s), s.txAcked)
      /\ InFlight(t) = Minus(Sent(t), t.txAcked)
      /\ r.txAcked \in Seq8 /\ r.rx \in Seq8 /\ r.rxAcked \in Seq8 /\ Sent(r) \in Seq8
  BY Zenon, Numbers
<1>2. Sent(t) = s.tx /\ Up(Sent(s)) = s.tx
  <2>1. Sent(t) = s.tx
    BY Zenon, <1>1, Distances DEF Sent, HeaderMoved
  <2>2. Up(Minus(s.tx, 1)) = s.tx
    <3>1. s.tx \in Seq8 /\ Minus(s.tx, 1) \in Seq8
      BY Zenon, <1>1, Distances
    <3>2. Minus(s.tx, 1) = IF s.tx >= 1 THEN s.tx - 1 ELSE SeqMod - 1
      BY <3>1, WrapCases
    <3>3. Up(Minus(s.tx, 1)) = IF Minus(s.tx, 1) = SeqMod - 1 THEN 0 ELSE Minus(s.tx, 1) + 1
      BY <3>1, WrapCases
    <3>4. SeqMod \in Nat /\ SeqMod > 1
      BY WrapCases
    <3> QED
      BY <3>1, <3>2, <3>3, <3>4 DEF Seq8
  <2> QED
    BY Zenon, <2>1, <2>2 DEF Sent
<1>3. Minus(Sent(s), s.txAcked) < window
  <2>1. window \in Nat /\ InFlight(s) \in Nat
    <3>1. Minus(Sent(s), s.txAcked) \in Seq8
      BY Zenon, <1>1, Distances
    <3>2. Minus(Sent(s), s.txAcked) \in Nat
      BY Zenon, <3>1, ApartCases
    <3> QED
      BY Zenon, <1>1, <3>2, WindowType
  <2>2. RemoteWindow(s) # 0
    <3> SUFFICES ASSUME RemoteWindow(s) = 0 PROVE FALSE
      OBVIOUS
    <3> QED
      BY DEF CanSend
  <2>3. InFlight(s) < window
    BY <2>1, <2>2 DEF RemoteWindow
  <2> QED
    BY Zenon, <1>1, <2>3
<1>4. InOrder(window, s.txAcked, r.rxAcked, r.rx, Sent(s))
  BY Zenon DEF Order
<1>5. /\ InOrder(window, s.txAcked, r.rxAcked, r.rx, s.tx)
      /\ Minus(s.tx, s.txAcked) = Minus(Sent(s), s.txAcked) + 1
      /\ Minus(s.tx, r.rxAcked) = Minus(Sent(s), r.rxAcked) + 1
      /\ Minus(s.tx, r.rx) = Minus(Sent(s), r.rx) + 1
  <2> DEFINE a == s.txAcked
             b == r.rxAcked
             c == r.rx
             d == Sent(s)
  <2>1. a \in Seq8 /\ b \in Seq8 /\ c \in Seq8 /\ d \in Seq8
    BY Zenon, <1>1
  <2>2. InOrder(window, a, b, c, d) /\ Minus(d, a) < window
    BY Zenon, <1>3, <1>4
  <2> HIDE DEF a, b, c, d
  <2>3. /\ InOrder(window, a, b, c, Up(d))
        /\ Minus(Up(d), a) = Minus(d, a) + 1
        /\ Minus(Up(d), b) = Minus(d, b) + 1
        /\ Minus(Up(d), c) = Minus(d, c) + 1
    BY ONLY <2>1, <2>2, window \in Windows, OrderSend
  <2> QED
    BY ONLY <1>2, <2>3 DEF a, b, c, d
<1>6. Order(window, t, r) /\ InFlight(t) = InFlight(s) + 1
  BY Zenon, <1>1, <1>2, <1>5 DEF Order, HeaderMoved
<1>7. Order(window, r, t)
  <2>1. InOrder(window, r.txAcked, s.rxAcked, s.rx, Sent(r))
    BY Zenon DEF Order
  <2>2. InOrder(window, r.txAcked, s.rx, s.rx, Sent(r))
    BY Zenon, <1>1, <2>1, OrderOwnAck
  <2> QED
    BY Zenon, <2>1, <2>2 DEF Order, HeaderMoved
<1> QED
  BY Zenon, <1>2, <1>5, <1>6, <1>7

\* A sequence with one more element, and without its first
LEMMA Appended ==
    ASSUME NEW S, NEW q \in Seq(S), NEW x
    PROVE  /\ Len(q) \in Nat /\ Len(Append(q, x)) = Len(q) + 1
           /\ Append(q, x)[Len(q) + 1] = x
           /\ \A i \in 1 .. Len(q) : Append(q, x)[i] = q[i]
           /\ 1 .. Len(Append(q, x)) = 1 .. Len(q) \cup {Len(q) + 1}
<1>1. Len(q) \in Nat /\ Len(Append(q, x)) = Len(q) + 1
  OBVIOUS
<1>2. Append(q, x)[Len(q) + 1] = x /\ \A i \in 1 .. Len(q) : Append(q, x)[i] = q[i]
  OBVIOUS
<1>3. 1 .. Len(q) + 1 = 1 .. Len(q) \cup {Len(q) + 1}
  BY <1>1
<1> QED
  BY Zenon, <1>1, <1>2, <1>3

\* A sequence without its first element
LEMMA Rest ==
    ASSUME NEW S, NEW q \in Seq(S), q # <<>>
    PROVE  /\ Len(q) \in Nat /\ Len(q) >= 1 /\ Tail(q) \in Seq(S)
           /\ Len(Tail(q)) = Len(q) - 1 /\ Head(q) = q[1] /\ Head(q) \in S
           /\ \A i \in 1 .. Len(Tail(q)) : i + 1 \in 1 .. Len(q) /\ Tail(q)[i] = q[i + 1]
<1>1. Len(q) \in Nat /\ Len(q) >= 1
  OBVIOUS
<1>2. Tail(q) \in Seq(S) /\ Len(Tail(q)) = Len(q) - 1 /\ Head(q) = q[1] /\ Head(q) \in S
  OBVIOUS
<1>3. \A i \in 1 .. Len(Tail(q)) : Tail(q)[i] = q[i + 1]
  OBVIOUS
<1>4. \A i \in 1 .. Len(Tail(q)) : i + 1 \in 1 .. Len(q)
  BY <1>1, <1>2
<1> QED
  BY Zenon, <1>1, <1>2, <1>3, <1>4

\* The frame sent follows the ones on the link
LEMMA SendSequence ==
    ASSUME NEW s, NEW r, NEW t, NEW frames \in Seq(Frame), NEW f,
           InSequence(s, r, frames), f.seq = s.tx, Sent(t) = s.tx,
           Minus(s.tx, r.rx) = Minus(Sent(s), r.rx) + 1
    PROVE  InSequence(t, r, Append(frames, f))
<1> DEFINE q == Append(frames, f)
<1>1. /\ Len(q) = Len(frames) + 1 /\ q[Len(frames) + 1] = f
      /\ \A i \in 1 .. Len(frames) : q[i] = frames[i]
      /\ 1 .. Len(q) = 1 .. Len(frames) \cup {Len(frames) + 1}
  BY SMT, Appended
<1> HIDE DEF q
<1> SUFFICES ASSUME r.closed = None
             PROVE  /\ Len(q) = Minus(Sent(t), r.rx)
                    /\ \A i \in 1 .. Len(q) : Minus(q[i].seq, r.rx) = i
  BY Zenon DEF InSequence, q
<1>2. /\ Len(frames) = Minus(Sent(s), r.rx)
      /\ \A i \in 1 .. Len(frames) : Minus(frames[i].seq, r.rx) = i
  BY Zenon DEF InSequence
<1>3. Len(q) = Minus(Sent(t), r.rx) /\ Minus(s.tx, r.rx) = Len(frames) + 1
  BY Zenon, <1>1, <1>2
<1>4. ASSUME NEW i \in 1 .. Len(q) PROVE Minus(q[i].seq, r.rx) = i
  <2>1. CASE i \in 1 .. Len(frames)
    BY Zenon, <1>1, <1>2, <2>1
  <2>2. CASE i = Len(frames) + 1
    BY Zenon, <1>1, <1>3, <2>2
  <2> QED
    BY Zenon, <1>1, <2>1, <2>2
<1> QED
  BY Zenon, <1>3, <1>4

\* None is no sequence number
LEMMA NoneNoNumber == None \notin Seq8
BY BtpAssumption DEF Seq8

\* The acknowledgement sent is of a later frame than those on the link
LEMMA SendAcks ==
    ASSUME NEW s \in Session, NEW r \in Session, NEW t \in Session, window \in Windows,
           NEW frames \in Seq(Frame), NEW f, Order(window, r, s), Timed(s), HeaderMoved(s, t),
           AcksInOrder(s, r, frames), f.ack = IF s.owes THEN s.rx ELSE None
    PROVE  AcksInOrder(t, r, Append(frames, f))
<1> DEFINE q == Append(frames, f)
           D(x) == Minus(x, r.txAcked)
           n == Len(frames)
<1>1. /\ n \in Nat /\ Len(q) = n + 1 /\ q[n + 1] = f
      /\ \A i \in 1 .. n : q[i] = frames[i]
      /\ 1 .. Len(q) = 1 .. n \cup {n + 1}
  BY SMT, Appended
<1> HIDE DEF q, n
<1> SUFFICES ASSUME r.closed = None
             PROVE  /\ \A i \in 1 .. Len(q) : q[i].ack # None =>
                         1 <= D(q[i].ack) /\ D(q[i].ack) <= D(t.rxAcked)
                    /\ \A i, j \in 1 .. Len(q) : i < j /\ q[i].ack # None /\ q[j].ack # None =>
                         D(q[i].ack) < D(q[j].ack)
                    /\ t.rxAcked # r.txAcked => \E i \in 1 .. Len(q) : q[i].ack = t.rxAcked
  BY Zenon DEF AcksInOrder, q
<1>2. /\ \A i \in 1 .. n : frames[i].ack # None =>
            1 <= D(frames[i].ack) /\ D(frames[i].ack) <= D(s.rxAcked)
      /\ \A i, j \in 1 .. n : i < j /\ frames[i].ack # None /\ frames[j].ack # None =>
            D(frames[i].ack) < D(frames[j].ack)
      /\ s.rxAcked # r.txAcked => \E i \in 1 .. n : frames[i].ack = s.rxAcked
  BY Zenon DEF AcksInOrder, n
<1>3. /\ s.rx \in Seq8 /\ s.rxAcked \in Seq8 /\ r.txAcked \in Seq8 /\ Sent(r) \in Seq8
      /\ s.owes \in BOOLEAN
  BY Zenon, Numbers
<1>4. /\ D(s.rx) \in Nat /\ D(s.rxAcked) \in Nat
      /\ \A x \in Seq8 : D(x) \in Nat
  <2>1. \A x \in Seq8 : Minus(x, r.txAcked) \in Seq8
    BY Zenon, <1>3, Distances
  <2> QED
    BY Zenon, <1>3, <2>1, ApartCases
<1>5. \A i \in 1 .. n : frames[i].ack \in Seq8 \cup {None}
  <2>1. ASSUME NEW i \in 1 .. n PROVE frames[i] \in Frame
    BY <2>1 DEF n
  <2> QED
    BY Zenon, <2>1, FrameFields
<1>6. ASSUME s.rx # s.rxAcked PROVE D(s.rxAcked) < D(s.rx)
  <2>1. InOrder(window, r.txAcked, s.rxAcked, s.rx, Sent(r))
    BY Zenon DEF Order
  <2> QED
    BY Zenon, <1>3, <1>6, <2>1, OrderOwnAck
<1> HIDE DEF D
<1>7. CASE ~s.owes
  <2>1. t.rxAcked = s.rxAcked /\ f.ack = None
    BY Zenon, <1>7 DEF HeaderMoved
  <2>2. \A i \in 1 .. Len(q) : q[i].ack # None => i \in 1 .. n /\ q[i] = frames[i]
    BY Zenon, <1>1, <2>1
  <2>3. 1 .. n \subseteq 1 .. Len(q)
    BY Zenon, <1>1
  <2>4. ASSUME t.rxAcked # r.txAcked PROVE \E i \in 1 .. Len(q) : q[i].ack = t.rxAcked
    <3>1. PICK i \in 1 .. n : frames[i].ack = s.rxAcked
      BY Zenon, <1>2, <2>1, <2>4
    <3> QED
      BY Zenon, <1>1, <2>1, <2>3, <3>1
  <2>5. \A i \in 1 .. Len(q) : q[i].ack # None =>
            1 <= D(q[i].ack) /\ D(q[i].ack) <= D(t.rxAcked)
    BY Zenon, <1>2, <2>1, <2>2
  <2>6. \A i, j \in 1 .. Len(q) : i < j /\ q[i].ack # None /\ q[j].ack # None =>
            D(q[i].ack) < D(q[j].ack)
    BY Zenon, <1>2, <2>2
  <2> QED
    BY Zenon, <2>4, <2>5, <2>6
<1>8. CASE s.owes
  <2>1. t.rxAcked = s.rx /\ f.ack = s.rx /\ s.rx # s.rxAcked
    BY Zenon, <1>8 DEF HeaderMoved, Timed
  <2>2. D(s.rxAcked) < D(s.rx) /\ 1 <= D(s.rx) /\ D(s.rx) <= D(s.rx)
    BY <1>4, <1>6, <2>1
  <2>3. ASSUME NEW i \in 1 .. n, frames[i].ack # None
        PROVE  1 <= D(frames[i].ack) /\ D(frames[i].ack) < D(s.rx)
    <3>1. frames[i].ack \in Seq8
      BY Zenon, <1>5, <2>3
    <3>2. D(frames[i].ack) \in Nat
      BY Zenon, <1>4, <3>1
    <3>3. 1 <= D(frames[i].ack) /\ D(frames[i].ack) <= D(s.rxAcked)
      BY Zenon, <1>2, <2>3
    <3> QED
      BY <1>4, <2>2, <3>2, <3>3
  <2>4. ASSUME NEW i \in 1 .. Len(q), q[i].ack # None
        PROVE  1 <= D(q[i].ack) /\ D(q[i].ack) <= D(t.rxAcked)
    <3>1. CASE i = n + 1
      BY Zenon, <1>1, <2>1, <2>2, <3>1
    <3>2. CASE i \in 1 .. n
      <4>1. q[i] = frames[i]
        BY Zenon, <1>1, <3>2
      <4>2. 1 <= D(q[i].ack) /\ D(q[i].ack) < D(s.rx) /\ D(q[i].ack) \in Nat
        BY Zenon, <1>4, <1>5, <2>3, <2>4, <3>2, <4>1
      <4> QED
        BY <1>4, <2>1, <4>2
    <3> QED
      BY Zenon, <1>1, <3>1, <3>2
  <2>5. ASSUME NEW i \in 1 .. Len(q), NEW j \in 1 .. Len(q), i < j, q[i].ack # None,
               q[j].ack # None
        PROVE  D(q[i].ack) < D(q[j].ack)
    <3>1. i \in 1 .. n
      BY <1>1, <2>5
    <3>2. CASE j \in 1 .. n
      BY Zenon, <1>1, <1>2, <2>5, <3>1, <3>2
    <3>3. CASE j = n + 1
      BY Zenon, <1>1, <2>1, <2>3, <2>5, <3>1, <3>3
    <3> QED
      BY Zenon, <1>1, <3>2, <3>3
  <2>6. n + 1 \in 1 .. Len(q) /\ q[n + 1].ack = t.rxAcked
    BY Zenon, <1>1, <2>1
  <2> QED
    BY Zenon, <2>4, <2>5, <2>6
<1> QED
  BY Zenon, <1>3, <1>7, <1>8

\* A frame more on the link takes the way a place further
LEMMA JoinedAppend ==
    ASSUME NEW frames \in Seq(Frame), NEW f, NEW from, NEW to, NEW next \in Places, NEW taken,
           Joined(from, to, frames, taken), Fits(f, to, next, taken)
    PROVE  Joined(from, next, Append(frames, f), taken)
<1> DEFINE q == Append(frames, f)
           n == Len(frames)
<1>1. /\ n \in Nat /\ Len(q) = n + 1 /\ q[n + 1] = f
      /\ \A i \in 1 .. n : q[i] = frames[i]
      /\ 1 .. Len(q) = 1 .. n \cup {n + 1}
  BY SMT, Appended
<1>2. PICK place : Leads(place, from, to, frames, taken)
  BY Zenon DEF Joined
<1>3. /\ place \in [0 .. n -> Places] /\ place[0] = from /\ place[n] = to
      /\ \A i \in 1 .. n : Fits(frames[i], place[i - 1], place[i], taken)
  BY Zenon, <1>2 DEF Leads
<1> HIDE DEF q, n
<1> DEFINE p == [i \in 0 .. n + 1 |-> IF i = n + 1 THEN next ELSE place[i]]
<1>4. /\ p \in [0 .. n + 1 -> Places] /\ p[0] = from /\ p[n + 1] = next /\ p[n] = to
      /\ \A i \in 1 .. n : p[i] = place[i] /\ p[i - 1] = place[i - 1]
  <2>1. \A i \in 0 .. n + 1 : i # n + 1 => i \in 0 .. n
    BY <1>1
  <2>2. p \in [0 .. n + 1 -> Places]
    BY Zenon, <1>3, <2>1
  <2>3. 0 \in 0 .. n + 1 /\ 0 # n + 1 /\ n + 1 \in 0 .. n + 1 /\ n \in 0 .. n + 1 /\ n # n + 1
    BY <1>1
  <2>4. p[0] = from /\ p[n + 1] = next /\ p[n] = to
    BY Zenon, <1>3, <2>3
  <2>5. \A i \in 1 .. n : /\ i \in 0 .. n + 1 /\ i # n + 1
                          /\ i - 1 \in 0 .. n + 1 /\ i - 1 # n + 1
    BY <1>1
  <2>6. \A i \in 0 .. n + 1 : i # n + 1 => p[i] = place[i]
    BY Zenon
  <2> HIDE DEF p
  <2>7. \A i \in 1 .. n : p[i] = place[i] /\ p[i - 1] = place[i - 1]
    BY <2>5, <2>6
  <2> QED
    BY Zenon, <2>2, <2>4, <2>7
<1> HIDE DEF p
<1>5. ASSUME NEW i \in 1 .. Len(q) PROVE Fits(q[i], p[i - 1], p[i], taken)
  <2>1. CASE i \in 1 .. n
    BY Zenon, <1>1, <1>3, <1>4, <2>1
  <2>2. CASE i = n + 1
    <3>1. i - 1 = n
      BY <1>1, <2>2
    <3> QED
      BY Zenon, <1>1, <1>4, <2>2, <3>1
  <2> QED
    BY Zenon, <1>1, <2>1, <2>2
<1>6. Leads(p, from, next, q, taken)
  BY Zenon, <1>1, <1>4, <1>5 DEF Leads
<1> QED
  BY Zenon, <1>6 DEF Joined, q

\* The first frame on the link takes the way on from where the reassembly is
LEMMA JoinedTail ==
    ASSUME NEW frames \in Seq(Frame), frames # <<>>, NEW from, NEW to, NEW taken,
           Joined(from, to, frames, taken)
    PROVE  \E next \in Places : /\ Fits(Head(frames), from, next, taken)
                                /\ Joined(next, to, Tail(frames), taken)
<1> DEFINE q == Tail(frames)
           n == Len(frames)
<1>1. /\ n \in Nat /\ n >= 1 /\ Len(q) = n - 1 /\ Head(frames) = frames[1]
      /\ \A i \in 1 .. Len(q) : i + 1 \in 1 .. n /\ q[i] = frames[i + 1]
  BY SMT, Rest
<1>2. PICK place : Leads(place, from, to, frames, taken)
  BY Zenon DEF Joined
<1>3. /\ place \in [0 .. n -> Places] /\ place[0] = from /\ place[n] = to
      /\ \A i \in 1 .. n : Fits(frames[i], place[i - 1], place[i], taken)
  BY Zenon, <1>2 DEF Leads
<1> HIDE DEF q, n
<1> DEFINE p == [i \in 0 .. n - 1 |-> place[i + 1]]
<1>4. /\ p \in [0 .. n - 1 -> Places] /\ p[0] = place[1] /\ p[n - 1] = to
      /\ \A i \in 1 .. n - 1 : p[i] = place[i + 1] /\ p[i - 1] = place[i]
  <2>1. \A i \in 0 .. n - 1 : i + 1 \in 0 .. n
    BY <1>1
  <2>2. p \in [0 .. n - 1 -> Places]
    BY <1>3, <2>1
  <2>3. \A i \in 0 .. n - 1 : p[i] = place[i + 1]
    OBVIOUS
  <2> HIDE DEF p
  <2>4. p[0] = place[1] /\ p[n - 1] = to
    BY <1>1, <1>3, <2>3
  <2>5. \A i \in 1 .. n - 1 : p[i] = place[i + 1] /\ p[i - 1] = place[i]
    BY <1>1, <2>3
  <2> QED
    BY Zenon, <2>2, <2>4, <2>5
<1> HIDE DEF p
<1>5. ASSUME NEW i \in 1 .. Len(q) PROVE Fits(q[i], p[i - 1], p[i], taken)
  <2> DEFINE j == i + 1
  <2>1. j \in 1 .. n /\ j - 1 = i /\ i \in 1 .. n - 1 /\ q[i] = frames[j]
    BY <1>1
  <2>2. p[i] = place[j] /\ p[i - 1] = place[i]
    BY <1>4, <2>1
  <2> HIDE DEF j
  <2>3. Fits(frames[j], place[j - 1], place[j], taken)
    BY Zenon, <1>3, <2>1
  <2> QED
    BY Zenon, <2>1, <2>2, <2>3
<1>6. Leads(p, place[1], to, q, taken)
  BY Zenon, <1>1, <1>4, <1>5 DEF Leads
<1>7. 1 \in 1 .. n /\ 1 \in 0 .. n /\ 1 - 1 = 0
  BY <1>1
<1>8. Fits(frames[1], place[0], place[1], taken)
  BY Zenon, <1>3, <1>7
<1> QED
  BY Zenon, <1>1, <1>3, <1>6, <1>7, <1>8 DEF Joined, q

\* A message more does not change where the frames on the link lead
LEMMA JoinedGrows ==
    ASSUME NEW frames \in Seq(Frame), NEW from, NEW to, NEW taken \in Seq(Message),
           NEW m, Joined(from, to, frames, taken)
    PROVE  Joined(from, to, frames, Append(taken, m))
<1> DEFINE q == Append(taken, m)
<1>1. /\ Len(taken) \in Nat /\ Len(q) = Len(taken) + 1
      /\ \A i \in 1 .. Len(taken) : q[i] = taken[i]
  BY SMT, Appended
<1> HIDE DEF q
<1>2. PICK place : Leads(place, from, to, frames, taken)
  BY Zenon DEF Joined
<1>3. /\ place \in [0 .. Len(frames) -> Places]
      /\ \A i \in 1 .. Len(frames) : Fits(frames[i], place[i - 1], place[i], taken)
  BY Zenon, <1>2 DEF Leads
<1>4. ASSUME NEW f, NEW x \in Places, NEW y, Fits(f, x, y, taken) PROVE Fits(f, x, y, q)
  <2>1. x.n \in Nat
    BY Zenon DEF Places
  <2>2. CASE f.length = 0
    BY Zenon, <1>4, <2>2 DEF Fits
  <2>3. CASE f.length # 0
    <3>1. x.n < Len(taken) /\ f.message = taken[x.n + 1]
      BY Zenon, <1>4, <2>3 DEF Fits
    <3>2. x.n < Len(q) /\ f.message = q[x.n + 1]
      BY <1>1, <2>1, <3>1
    <3> QED
      BY Zenon, <1>4, <2>3, <3>2 DEF Fits
  <2> QED
    BY Zenon, <2>2, <2>3
<1>5. ASSUME NEW i \in 1 .. Len(frames) PROVE Fits(frames[i], place[i - 1], place[i], q)
  <2>1. Len(frames) \in Nat
    OBVIOUS
  <2>2. i - 1 \in 0 .. Len(frames)
    BY <2>1
  <2>3. place[i - 1] \in Places
    BY Zenon, <1>3, <2>2
  <2> QED
    BY Zenon, <1>3, <1>4, <2>3
<1>6. Leads(place, from, to, frames, q)
  BY Zenon, <1>2, <1>5 DEF Leads
<1> QED
  BY Zenon, <1>6 DEF Joined, q

\* How far apart two sequence numbers are is a number
LEMMA Far == \A n, k \in Seq8 : Minus(n, k) \in Nat
<1>1. \A n, k \in Seq8 : Minus(n, k) \in Seq8
  BY Zenon, Distances
<1> QED
  BY Zenon, <1>1, ApartCases

\* What an end has still to wait before it sends an acknowledgement is at most the timeout
LEMMA RemainingType ==
    ASSUME NEW r \in Session
    PROVE  /\ Remaining(r) \in Nat /\ Remaining(r) <= SendAckTimeout
           /\ SendAckTimeout \in Nat /\ AckTimeout \in Nat /\ SendAckTimeout < AckTimeout
<1>1. SendAckTimeout \in Nat /\ AckTimeout \in Nat /\ SendAckTimeout < AckTimeout
  BY BtpAssumption
<1>2. r.sendAckIn \in 0 .. SendAckTimeout \cup {None}
  BY Zenon, Numbers DEF SendTimer
<1>3. CASE r.sendAckIn = None
  BY <1>1, <1>3 DEF Remaining
<1>4. CASE r.sendAckIn # None
  BY <1>1, <1>2, <1>4 DEF Remaining
<1> QED
  BY Zenon, <1>1, <1>3, <1>4

\* A frame sent carries the acknowledgement owed and starts the acknowledgement timer
LEMMA SendTimed ==
    ASSUME NEW s \in Session, NEW t \in Session, Timed(s), HeaderMoved(s, t),
           InFlight(t) = InFlight(s) + 1
    PROVE  Timed(t)
<1>1. s.owes \in BOOLEAN /\ t.owes = FALSE
  BY Zenon, Numbers DEF HeaderMoved
<1>2. t.rx = t.rxAcked
  BY Zenon, <1>1 DEF HeaderMoved, Timed
<1>3. t.sendAckIn = None
  BY Zenon, <1>1 DEF HeaderMoved, Timed
<1>4. t.ackIn # None
  BY Zenon, TimerValues DEF HeaderMoved
<1>5. InFlight(t) # 0
  <2>1. InFlight(s) \in Nat
    BY Zenon, Numbers, Far
  <2> QED
    BY <2>1
<1> QED
  BY Zenon, <1>1, <1>2, <1>3, <1>4, <1>5 DEF Timed

\* Neither end gives up sooner for a frame sent
LEMMA SendInTime ==
    ASSUME NEW s \in Session, NEW r \in Session, NEW t \in Session, window \in Windows,
           Timed(s), HeaderMoved(s, t), Order(window, r, s), InTime(s, r), InTime(r, s)
    PROVE  InTime(t, r) /\ InTime(r, t)
<1>1. InTime(t, r)
  <2> SUFFICES ASSUME t.closed = None, r.closed = None
               PROVE  /\ t.ackIn # 0
                      /\ t.ackIn # None /\ r.rxAcked = t.txAcked =>
                            t.ackIn >= Remaining(r) + (AckTimeout - SendAckTimeout)
    BY Zenon DEF InTime
  <2>1. s.closed = None /\ t.txAcked = s.txAcked
    BY Zenon DEF HeaderMoved
  <2>2. CASE s.ackIn = None
    <3>1. t.ackIn = AckTimeout
      BY Zenon, <2>2 DEF HeaderMoved
    <3>2. AckTimeout >= Remaining(r) + (AckTimeout - SendAckTimeout)
      <4>1. /\ Remaining(r) \in Nat /\ Remaining(r) <= SendAckTimeout
            /\ SendAckTimeout \in Nat /\ AckTimeout \in Nat
        BY Zenon, RemainingType
      <4> QED
        BY <4>1
    <3> QED
      BY Zenon, <3>1, <3>2, TimerValues
  <2>3. CASE s.ackIn # None
    <3>1. t.ackIn = s.ackIn
      BY Zenon, <2>3 DEF HeaderMoved
    <3> QED
      BY Zenon, <2>1, <3>1 DEF InTime
  <2> QED
    BY Zenon, <2>2, <2>3
<1>2. InTime(r, t)
  <2> SUFFICES ASSUME t.closed = None, r.closed = None
               PROVE  /\ r.ackIn # 0
                      /\ r.ackIn # None /\ t.rxAcked = r.txAcked =>
                            r.ackIn >= Remaining(t) + (AckTimeout - SendAckTimeout)
    BY Zenon DEF InTime
  <2>1. s.closed = None
    BY Zenon DEF HeaderMoved
  <2>2. /\ s.owes \in BOOLEAN /\ s.rx \in Seq8 /\ s.rxAcked \in Seq8 /\ r.txAcked \in Seq8
        /\ Sent(r) \in Seq8
    BY Zenon, Numbers
  <2>3. CASE s.owes
    <3>1. t.rxAcked = s.rx /\ s.rx # s.rxAcked
      BY Zenon, <2>3 DEF HeaderMoved, Timed
    <3>2. InOrder(window, r.txAcked, s.rxAcked, s.rx, Sent(r))
      BY Zenon DEF Order
    <3>3. Minus(s.rxAcked, r.txAcked) < Minus(s.rx, r.txAcked)
      BY Zenon, <2>2, <3>1, <3>2, OrderOwnAck
    <3>4. Minus(s.rxAcked, r.txAcked) \in Nat /\ Minus(s.rx, r.txAcked) \in Nat
      BY Zenon, <2>2, Far
    <3>5. Minus(s.rx, r.txAcked) # 0
      BY <3>3, <3>4
    <3>6. s.rx # r.txAcked
      BY Zenon, <2>2, <3>5, Distances
    <3> QED
      BY Zenon, <2>1, <3>1, <3>6 DEF InTime
  <2>4. CASE ~s.owes
    <3>1. t.rxAcked = s.rxAcked /\ t.sendAckIn = s.sendAckIn
      BY Zenon, <2>4 DEF HeaderMoved
    <3> QED
      BY Zenon, <2>1, <3>1 DEF InTime, Remaining
  <2> QED
    BY Zenon, <2>2, <2>3, <2>4
<1> QED
  BY Zenon, <1>1, <1>2

\* The last room of a window is only used for a frame that makes room in the other
LEMMA SendSpare ==
    ASSUME NEW s \in Session, NEW r \in Session, NEW t \in Session, window \in Windows,
           Order(window, s, r), Order(window, r, s), CanSend(s), Timed(s), HeaderMoved(s, t),
           Sent(t) = s.tx, Minus(s.tx, r.rxAcked) = Minus(Sent(s), r.rxAcked) + 1
    PROVE  Spare(window, t, r)
<1>1. /\ s.txAcked \in Seq8 /\ s.rx \in Seq8 /\ s.rxAcked \in Seq8 /\ s.owes \in BOOLEAN
      /\ Sent(s) \in Seq8 /\ InFlight(s) = Minus(Sent(s), s.txAcked)
      /\ r.txAcked \in Seq8 /\ r.rx \in Seq8 /\ r.rxAcked \in Seq8 /\ Sent(r) \in Seq8
  BY Zenon, Numbers
<1>2. Minus(Sent(s), r.rxAcked) <= InFlight(s)
  BY ZenonT(40), <1>1, OrderOwnAck DEF Order
<1>3. window \in Nat /\ InFlight(s) \in Nat /\ Minus(Sent(s), r.rxAcked) \in Nat
  BY Zenon, <1>1, Far, WindowType
<1>4. CASE RemoteWindow(s) > 1
  <2>1. InFlight(s) + 1 < window
    BY <1>3, <1>4 DEF RemoteWindow
  <2>2. Minus(s.tx, r.rxAcked) < window
    BY <1>2, <1>3, <2>1
  <2> QED
    BY Zenon, <2>2 DEF Spare
<1>5. CASE RemoteWindow(s) = 1 /\ s.owes
  <2>1. t.rxAcked = s.rx /\ s.rx # s.rxAcked
    BY Zenon, <1>5 DEF HeaderMoved, Timed
  <2>2. InOrder(window, r.txAcked, s.rxAcked, s.rx, Sent(r))
    BY Zenon DEF Order
  <2>3. /\ Minus(Sent(r), s.rx) < Minus(Sent(r), s.rxAcked)
        /\ Minus(Sent(r), s.rxAcked) <= Minus(Sent(r), r.txAcked)
    BY Zenon, <1>1, <2>1, <2>2, OrderOwnAck
  <2>4. Minus(Sent(r), r.txAcked) <= window
    BY Zenon, <2>2 DEF InOrder
  <2>5. /\ Minus(Sent(r), s.rx) \in Nat /\ Minus(Sent(r), s.rxAcked) \in Nat
        /\ Minus(Sent(r), r.txAcked) \in Nat
    BY Zenon, <1>1, Far
  <2>6. Minus(Sent(r), s.rx) < window
    BY <1>3, <2>3, <2>4, <2>5
  <2> QED
    BY Zenon, <2>1, <2>6 DEF Spare
<1> QED
  BY Zenon, <1>4, <1>5 DEF CanSend

\* From s to r, with the frames on the link, the messages taken from the application at the
\* one end and those given to the application at the other
Way(w, s, r, frames, taken, given) ==
    /\ Order(w, s, r) /\ InSequence(s, r, frames) /\ AcksInOrder(s, r, frames)
    /\ Segmented(s, r, frames, taken, given) /\ InTime(s, r)

\* Both directions
Joint(w, s, r, fs, fr, ts, tr, gs, gr) ==
    /\ Timed(s) /\ Timed(r) /\ Sending(s, ts) /\ Sending(r, tr)
    /\ Numbered(ts, gs) /\ Numbered(tr, gr)
    /\ Way(w, s, r, fs, ts, gs) /\ Way(w, r, s, fr, tr, gr) /\ Spare(w, s, r)

\* Sending a frame keeps both directions in order
LEMMA FrameSent ==
    ASSUME NEW s \in Session, NEW r \in Session, NEW t \in Session, window \in Windows,
           NEW fs \in Seq(Frame), NEW fr, NEW ts, NEW tr, NEW gs, NEW gr, NEW f,
           Joint(window, s, r, fs, fr, ts, tr, gs, gr), CanSend(s), HeaderMoved(s, t),
           f.seq = s.tx, f.ack = IF s.owes THEN s.rx ELSE None,
           Sending(t, ts), Left(t, ts) \in Places, Fits(f, Left(s, ts), Left(t, ts), ts)
    PROVE  Joint(window, t, r, Append(fs, f), fr, ts, tr, gs, gr)
<1>1. /\ Timed(s) /\ Timed(r) /\ Sending(r, tr) /\ Numbered(ts, gs) /\ Numbered(tr, gr)
      /\ Way(window, s, r, fs, ts, gs) /\ Way(window, r, s, fr, tr, gr)
  BY Zenon DEF Joint
<1>2. /\ Order(window, s, r) /\ InSequence(s, r, fs) /\ AcksInOrder(s, r, fs)
      /\ Segmented(s, r, fs, ts, gs) /\ InTime(s, r)
      /\ Order(window, r, s) /\ InSequence(r, s, fr) /\ AcksInOrder(r, s, fr)
      /\ Segmented(r, s, fr, tr, gr) /\ InTime(r, s)
  BY Zenon, <1>1 DEF Way
<1>3. /\ Order(window, t, r) /\ Order(window, r, t)
      /\ Sent(t) = s.tx /\ Minus(s.tx, r.rx) = Minus(Sent(s), r.rx) + 1
      /\ Minus(s.tx, r.rxAcked) = Minus(Sent(s), r.rxAcked) + 1
      /\ InFlight(t) = InFlight(s) + 1
  BY Zenon, <1>1, <1>2, SendOrder
<1>4. Timed(t)
  BY Zenon, <1>1, <1>3, SendTimed
<1>5. InSequence(t, r, Append(fs, f))
  BY Zenon, <1>2, <1>3, SendSequence
<1>6. AcksInOrder(t, r, Append(fs, f))
  BY Zenon, <1>1, <1>2, SendAcks
<1>7. Segmented(t, r, Append(fs, f), ts, gs)
  BY Zenon, <1>2, JoinedAppend DEF Segmented
<1>8. InTime(t, r) /\ InTime(r, t)
  BY Zenon, <1>1, <1>2, SendInTime
<1>9. Spare(window, t, r)
  BY Zenon, <1>1, <1>2, <1>3, SendSpare
<1>10. /\ t.rx = s.rx /\ t.txAcked = s.txAcked /\ t.closed = s.closed
       /\ t.in = s.in /\ t.got = s.got
  BY Zenon DEF HeaderMoved
<1>11. InSequence(r, t, fr)
  BY Zenon, <1>2, <1>10 DEF InSequence
<1>12. AcksInOrder(r, t, fr)
  BY Zenon, <1>2, <1>10 DEF AcksInOrder
<1>13. Segmented(r, t, fr, tr, gr)
  BY Zenon, <1>2, <1>10 DEF Segmented, Reached
<1>14. Way(window, t, r, Append(fs, f), ts, gs)
  BY Zenon, <1>3, <1>5, <1>6, <1>7, <1>8 DEF Way
<1>15. Way(window, r, t, fr, tr, gr)
  BY Zenon, <1>3, <1>8, <1>11, <1>12, <1>13 DEF Way
<1> QED
  BY Zenon, <1>1, <1>4, <1>9, <1>14, <1>15 DEF Joint

\* A message's length, and what a frame has room for
LEMMA MessageFields ==
    ASSUME NEW m \in Message
    PROVE  m.length \in Nat /\ m.length # 0 /\ m.n \in Nat /\ m.length \in Lengths
<1>1. m.n \in 1 .. MaxMessages /\ m.length \in Lengths
  BY Zenon DEF Message
<1>2. 1 .. MaxMessages \subseteq Nat
  OBVIOUS
<1>3. Lengths \subseteq Nat \ {0}
  BY Zenon, BtpAssumption
<1> QED
  BY Zenon, <1>1, <1>2, <1>3

\* Frame::header_len leaves room for at least one octet of the message
LEMMA RoomFor == ASSUME NEW s PROVE Room(s) \in Nat /\ Room(s) >= 1
BY BtpAssumption DEF Room

\* The place of an end that sends is a place
LEMMA LeftPlace ==
    ASSUME NEW s \in Session, NEW taken \in Seq(Message), Sending(s, taken)
    PROVE  Left(s, taken) \in Places
<1>1. Len(taken) \in Nat /\ (taken # <<>> => Len(taken) - 1 \in Nat)
  OBVIOUS
<1>2. s.sent \in Nat
  BY Zenon, SessionShape
<1>3. (IF s.out = None THEN Len(taken) ELSE Len(taken) - 1) \in Nat
  BY Zenon, <1>1 DEF Sending
<1> QED
  BY Zenon, <1>2, <1>3 DEF Left, Places

\* The next segment of the message under way, and the Session when it is sent
Segment(s) ==
    LET remaining == s.out.length - s.sent
        take == IF remaining < Room(s) THEN remaining ELSE Room(s)
    IN  [ack |-> IF s.owes THEN s.rx ELSE None, seq |-> s.tx,
         begin |-> s.sent = 0, ending |-> take = remaining, length |-> take,
         message |-> s.out, at |-> s.sent]
AfterSegment(s) ==
    LET remaining == s.out.length - s.sent
        take == IF remaining < Room(s) THEN remaining ELSE Room(s)
        ending == take = remaining
    IN  [Header(s) EXCEPT !.out = IF ending THEN None ELSE @,
                          !.sent = IF ending THEN 0 ELSE @ + take]

\* A segment of the message under way
LEMMA SegmentSent ==
    ASSUME NEW s \in Session, NEW r \in Session, window \in Windows,
           NEW fs \in Seq(Frame), NEW fr, NEW ts \in Seq(Message), NEW tr, NEW gs, NEW gr,
           Joint(window, s, r, fs, fr, ts, tr, gs, gr), CanSend(s), s.out # None
    PROVE  /\ AfterSegment(s) \in Session /\ Segment(s) \in Frame
           /\ AfterSegment(s).closed = s.closed
           /\ Joint(window, AfterSegment(s), r, Append(fs, Segment(s)), fr, ts, tr, gs, gr)
<1> DEFINE remaining == s.out.length - s.sent
           take == IF remaining < Room(s) THEN remaining ELSE Room(s)
           ending == take = remaining
           f == Segment(s)
           t == AfterSegment(s)
<1>a. /\ remaining = s.out.length - s.sent
      /\ take = IF remaining < Room(s) THEN remaining ELSE Room(s)
      /\ ending = (take = remaining)
  BY Zenon
<1>b. f = [ack |-> IF s.owes THEN s.rx ELSE None, seq |-> s.tx,
           begin |-> s.sent = 0, ending |-> ending, length |-> take,
           message |-> s.out, at |-> s.sent]
  BY Zenon DEF Segment
<1>c. t = [Header(s) EXCEPT !.out = IF ending THEN None ELSE @,
                            !.sent = IF ending THEN 0 ELSE @ + take]
  BY Zenon DEF AfterSegment
<1> HIDE DEF remaining, take, ending, f, t
<1> USE <1>a, <1>b, <1>c
<1> DEFINE h == Header(s)
           o == IF ending THEN None ELSE s.out
           n == IF ending THEN 0 ELSE s.sent + take
<1>1. /\ h \in Session
      /\ h.tx = Up(s.tx) /\ h.txAcked = s.txAcked /\ h.rx = s.rx
      /\ h.rxAcked = IF s.owes THEN s.rx ELSE s.rxAcked
      /\ h.owes = FALSE /\ h.sendAckIn = IF s.owes THEN None ELSE s.sendAckIn
      /\ h.ackIn = IF s.ackIn = None THEN AckTimeout ELSE s.ackIn
      /\ h.closed = s.closed /\ h.out = s.out /\ h.sent = s.sent
      /\ h.in = s.in /\ h.got = s.got
  BY Zenon, HeaderFields
<1> HIDE DEF h
<1>2. Sending(s, ts)
  BY Zenon DEF Joint
<1>3. ts # <<>> /\ s.out = ts[Len(ts)] /\ s.sent < s.out.length
  BY Zenon, <1>2 DEF Sending
<1>4. s.out \in Message /\ s.sent \in Nat
  BY Zenon, SessionShape DEF Outgoing
<1>5. s.out.length \in Nat
  BY Zenon, <1>4, MessageFields
<1>6. /\ take \in Nat /\ take # 0 /\ take <= s.out.length - s.sent
      /\ ending <=> s.sent + take = s.out.length
      /\ ~ending => s.sent + take < s.out.length
  <2>1. Room(s) \in Nat /\ Room(s) >= 1
    BY Zenon, RoomFor
  <2>2. remaining \in Nat /\ remaining >= 1
    BY <1>3, <1>4, <1>5
  <2>3. take \in Nat /\ take # 0 /\ take <= remaining
    BY <2>1, <2>2
  <2>4. ending <=> take = remaining
    BY Zenon
  <2> HIDE DEF o, n
  <2>5. /\ take <= s.out.length - s.sent
        /\ take = remaining <=> s.sent + take = s.out.length
        /\ take # remaining => s.sent + take < s.out.length
    BY ONLY <1>4, <1>5, <2>2, <2>3, remaining = s.out.length - s.sent
  <2> QED
    BY Zenon, <2>3, <2>4, <2>5
<1>7. o \in Outgoing /\ n \in Nat /\ ending \in BOOLEAN
  BY <1>4, <1>6 DEF Outgoing
<1>8. t = SetOut(h, o, n)
  <2>1. [h EXCEPT !.out = IF ending THEN None ELSE @, !.sent = IF ending THEN 0 ELSE @ + take]
         = [h EXCEPT !.out = IF ending THEN None ELSE h.out,
                     !.sent = IF ending THEN 0 ELSE h.sent + take]
    BY Zenon, <1>1, SessionShape
  <2> QED
    BY Zenon, <1>1, <2>1 DEF h, SetOut
<1> HIDE DEF o, n
<1>9. /\ t \in Session
      /\ t.tx = h.tx /\ t.txAcked = h.txAcked /\ t.rx = h.rx /\ t.rxAcked = h.rxAcked
      /\ t.owes = h.owes /\ t.sendAckIn = h.sendAckIn /\ t.ackIn = h.ackIn
      /\ t.closed = h.closed /\ t.out = o /\ t.sent = n /\ t.in = h.in /\ t.got = h.got
  <2>1. h \in Session /\ o \in Outgoing /\ n \in Nat
    BY Zenon, <1>1, <1>7
  <2> DEFINE x == SetOut(h, o, n)
  <2>2. /\ x \in Session
        /\ x.tx = h.tx /\ x.txAcked = h.txAcked /\ x.rx = h.rx /\ x.rxAcked = h.rxAcked
        /\ x.owes = h.owes /\ x.sendAckIn = h.sendAckIn /\ x.ackIn = h.ackIn
        /\ x.closed = h.closed /\ x.out = o /\ x.sent = n /\ x.in = h.in /\ x.got = h.got
    BY Zenon, <2>1, OutFields
  <2> QED
    BY Zenon, <2>1, <2>2, <1>8
<1>10. HeaderMoved(s, t)
  BY Zenon, <1>1, <1>9 DEF HeaderMoved
<1>11. /\ f.seq = s.tx /\ f.ack = IF s.owes THEN s.rx ELSE None
       /\ f.begin = (s.sent = 0) /\ f.ending = ending /\ f.length = take
       /\ f.message = s.out /\ f.at = s.sent
  BY Zenon
<1>12. f \in Frame
  <2> DEFINE A == Seq8 \cup {None}
             B == Message \cup {None}
             a == IF s.owes THEN s.rx ELSE None
             b == s.sent = 0
  <2>1. a \in A /\ s.out \in B /\ s.tx \in Seq8 /\ b \in BOOLEAN
    BY Zenon, <1>4, Numbers
  <2>2. f = [ack |-> a, seq |-> s.tx, begin |-> b, ending |-> ending,
             length |-> take, message |-> s.out, at |-> s.sent]
    BY Zenon
  <2> HIDE DEF A, B, a, b
  <2>3. f \in [ack : A, seq : Seq8, begin : BOOLEAN, ending : BOOLEAN,
               length : Nat, message : B, at : Nat]
    BY ONLY SMT, <1>4, <1>6, <1>7, <2>1, <2>2
  <2> QED
    BY Zenon, <2>3 DEF Frame, A, B
<1>13. Len(ts) \in Nat /\ Len(ts) # 0
  BY <1>3
<1>14. Sending(t, ts)
  <2>1. CASE ending
    BY Zenon, <1>9, <2>1 DEF Sending, o, n
  <2>2. CASE ~ending
    BY Zenon, <1>3, <1>6, <1>9, <2>2 DEF Sending, o, n
  <2> QED
    BY Zenon, <2>1, <2>2
<1>15. Left(t, ts) \in Places
  BY Zenon, <1>9, <1>14, LeftPlace
<1>16. Fits(f, Left(s, ts), Left(t, ts), ts)
  <2> DEFINE from == Left(s, ts)
             to == Left(t, ts)
  <2>1. from = [n |-> Len(ts) - 1, at |-> s.sent]
    BY Zenon DEF Left
  <2> HIDE DEF from, to
  <2>2. from.n = Len(ts) - 1 /\ from.at = s.sent
    BY Zenon, <2>1
  <2>3. from.n < Len(ts) /\ from.n + 1 = Len(ts)
    BY <1>13, <2>2
  <2>4. to = IF ending THEN [n |-> from.n + 1, at |-> 0]
             ELSE [n |-> from.n, at |-> from.at + take]
    <3>1. CASE ending
      <4>1. t.out = None /\ t.sent = 0
        BY Zenon, <1>9, <3>1 DEF o, n
      <4> QED
        BY Zenon, <2>3, <3>1, <4>1 DEF Left, to
    <3>2. CASE ~ending
      <4>1. t.out = s.out /\ t.sent = s.sent + take
        BY Zenon, <1>9, <3>2 DEF o, n
      <4> QED
        BY Zenon, <2>2, <3>2, <4>1 DEF Left, to
    <3> QED
      BY Zenon, <3>1, <3>2
  <2>5. /\ f.message = ts[from.n + 1] /\ f.at = from.at /\ (f.begin <=> from.at = 0)
        /\ f.ending <=> from.at + f.length = f.message.length
    BY Zenon, <1>3, <1>6, <1>11, <2>2, <2>3
  <2>6. Fits(f, from, to, ts)
    BY Zenon, <1>6, <1>11, <2>3, <2>4, <2>5 DEF Fits
  <2> QED
    BY Zenon, <2>6 DEF from, to
<1>17. Joint(window, t, r, Append(fs, f), fr, ts, tr, gs, gr)
  BY ONLY Zenon, <1>9, <1>10, <1>11, <1>14, <1>15, <1>16, FrameSent, s \in Session, r \in Session,
     window \in Windows, fs \in Seq(Frame), CanSend(s),
     Joint(window, s, r, fs, fr, ts, tr, gs, gr)
<1> QED
  BY Zenon, <1>1, <1>9, <1>12, <1>17 DEF f, t

\* An acknowledgement on its own
AckFrame(s) == [ack |-> s.rx, seq |-> s.tx, begin |-> FALSE, ending |-> FALSE,
                length |-> 0, message |-> None, at |-> 0]

\* An acknowledgement is sent on its own
LEMMA AckSent ==
    ASSUME NEW s \in Session, NEW r \in Session, window \in Windows,
           NEW fs \in Seq(Frame), NEW fr, NEW ts \in Seq(Message), NEW tr, NEW gs, NEW gr,
           Joint(window, s, r, fs, fr, ts, tr, gs, gr), CanSend(s), s.owes
    PROVE  /\ Header(s) \in Session /\ AckFrame(s) \in Frame /\ Header(s).closed = s.closed
           /\ Joint(window, Header(s), r, Append(fs, AckFrame(s)), fr, ts, tr, gs, gr)
<1> DEFINE h == Header(s)
           f == AckFrame(s)
<1>a. f = [ack |-> s.rx, seq |-> s.tx, begin |-> FALSE, ending |-> FALSE,
           length |-> 0, message |-> None, at |-> 0]
  BY Zenon DEF AckFrame
<1>1. /\ h \in Session
      /\ h.tx = Up(s.tx) /\ h.txAcked = s.txAcked /\ h.rx = s.rx
      /\ h.rxAcked = IF s.owes THEN s.rx ELSE s.rxAcked
      /\ h.owes = FALSE /\ h.sendAckIn = IF s.owes THEN None ELSE s.sendAckIn
      /\ h.ackIn = IF s.ackIn = None THEN AckTimeout ELSE s.ackIn
      /\ h.closed = s.closed /\ h.out = s.out /\ h.sent = s.sent
      /\ h.in = s.in /\ h.got = s.got
  BY Zenon, HeaderFields
<1> HIDE DEF h, f
<1>2. HeaderMoved(s, h)
  BY Zenon, <1>1 DEF HeaderMoved
<1>3. /\ f.seq = s.tx /\ f.ack = s.rx /\ f.length = 0
  BY Zenon, <1>a
<1>4. f.ack = IF s.owes THEN s.rx ELSE None
  BY Zenon, <1>3
<1>5. f \in Frame
  <2> DEFINE A == Seq8 \cup {None}
             B == Message \cup {None}
  <2>1. s.rx \in A /\ None \in B /\ s.tx \in Seq8 /\ FALSE \in BOOLEAN /\ 0 \in Nat
    BY Numbers
  <2> HIDE DEF A, B
  <2>2. f \in [ack : A, seq : Seq8, begin : BOOLEAN, ending : BOOLEAN,
               length : Nat, message : B, at : Nat]
    BY ONLY SMT, <1>a, <2>1
  <2> QED
    BY Zenon, <2>2 DEF Frame, A, B
<1>6. Sending(s, ts)
  BY Zenon DEF Joint
<1>7. Sending(h, ts) /\ Left(h, ts) = Left(s, ts)
  BY Zenon, <1>1, <1>6 DEF Sending, Left
<1>8. Left(h, ts) \in Places
  BY Zenon, <1>1, <1>7, LeftPlace
<1>9. Fits(f, Left(s, ts), Left(h, ts), ts)
  BY Zenon, <1>3, <1>7 DEF Fits
<1>10. Joint(window, h, r, Append(fs, f), fr, ts, tr, gs, gr)
  BY ONLY Zenon, <1>1, <1>2, <1>3, <1>4, <1>7, <1>8, <1>9, FrameSent, s \in Session,
     r \in Session, window \in Windows, fs \in Seq(Frame), CanSend(s),
     Joint(window, s, r, fs, fr, ts, tr, gs, gr)
<1> QED
  BY Zenon, <1>1, <1>5, <1>10 DEF h, f

\* What the other direction sees of an end
SameLink(s, t) ==
    /\ t.tx = s.tx /\ t.txAcked = s.txAcked /\ t.rx = s.rx /\ t.rxAcked = s.rxAcked
    /\ t.owes = s.owes /\ t.sendAckIn = s.sendAckIn /\ t.ackIn = s.ackIn
    /\ t.in = s.in /\ t.got = s.got

\* A message is taken from the application
LEMMA MessageTaken ==
    ASSUME NEW s \in Session, NEW r \in Session, window \in Windows,
           NEW fs \in Seq(Frame), NEW fr, NEW ts \in Seq(Message), NEW tr,
           NEW gs \in Seq(Message \cup {Garbled}), NEW gr,
           Joint(window, s, r, fs, fr, ts, tr, gs, gr), s.out = None,
           NEW m \in Message, m.n = Len(ts) + 1,
           NEW t, t = [s EXCEPT !.out = m]
    PROVE  /\ t \in Session /\ t.closed = s.closed
           /\ Joint(window, t, r, fs, fr, Append(ts, m), tr, gs, gr)
<1>1. t \in Session
  <2>1. m \in Outgoing
    BY Zenon DEF Outgoing
  <2> QED
    BY Zenon, <2>1, SessionShape
<1>2. SameLink(s, t) /\ t.closed = s.closed /\ t.sent = s.sent /\ t.out = m
  <2>1. /\ t.tx = s.tx /\ t.txAcked = s.txAcked /\ t.rx = s.rx /\ t.rxAcked = s.rxAcked
        /\ t.owes = s.owes /\ t.sendAckIn = s.sendAckIn /\ t.ackIn = s.ackIn
    BY Zenon, SessionShape
  <2>2. /\ t.in = s.in /\ t.got = s.got /\ t.closed = s.closed /\ t.sent = s.sent /\ t.out = m
    BY Zenon, SessionShape
  <2> QED
    BY Zenon, <2>1, <2>2 DEF SameLink
<1> DEFINE q == Append(ts, m)
<1>3. /\ Len(ts) \in Nat /\ Len(q) = Len(ts) + 1 /\ q[Len(ts) + 1] = m
      /\ \A i \in 1 .. Len(ts) : q[i] = ts[i]
      /\ 1 .. Len(q) = 1 .. Len(ts) \cup {Len(ts) + 1}
  BY SMT, Appended
<1>4. Joined(Reached(r, gs), Left(s, ts), fs, ts) =>
        Joined(Reached(r, gs), Left(s, ts), fs, q)
  BY Zenon, JoinedGrows
<1> HIDE DEF q
<1>5. q # <<>>
  <2>1. Len(q) # 0
    BY <1>3
  <2> QED
    BY <2>1
<1>6. /\ Timed(s) /\ Timed(r) /\ Sending(s, ts) /\ Sending(r, tr)
      /\ Numbered(ts, gs) /\ Numbered(tr, gr)
      /\ Way(window, s, r, fs, ts, gs) /\ Way(window, r, s, fr, tr, gr) /\ Spare(window, s, r)
  BY Zenon DEF Joint
<1>7. Timed(t) /\ Sent(t) = Sent(s)
  BY Zenon, <1>2, <1>6 DEF Timed, SameLink, InFlight, Sent
<1>8. s.sent = 0 /\ t.sent = 0
  BY Zenon, <1>2, <1>6 DEF Sending
<1>9. Sending(t, q)
  <2>1. m.length \in Nat /\ m.length # 0
    BY Zenon, MessageFields
  <2>2. 0 < m.length
    BY <2>1
  <2>3. q[Len(q)] = m
    BY Zenon, <1>3
  <2>4. m # None
    BY Zenon, NoneAssumption
  <2> QED
    BY Zenon, <1>2, <1>5, <1>8, <2>2, <2>3, <2>4 DEF Sending
<1>10. Len(gs) \in Nat /\ Len(gs) <= Len(ts)
  BY Zenon, <1>6, Appended DEF Numbered
<1>11. Numbered(q, gs)
  <2>1. \A i \in 1 .. Len(q) : q[i].n = i
    <3>1. \A i \in 1 .. Len(ts) : ts[i].n = i
      BY Zenon, <1>6 DEF Numbered
    <3>2. q[Len(ts) + 1].n = Len(ts) + 1
      BY Zenon, <1>3
    <3> QED
      BY Zenon, <1>3, <3>1, <3>2
  <2>2. Len(gs) <= Len(q)
    BY <1>3, <1>10
  <2>3. ASSUME NEW i \in 1 .. Len(gs) PROVE gs[i] = q[i]
    <3>1. i \in 1 .. Len(ts)
      BY <1>3, <1>10
    <3>2. gs[i] = ts[i]
      BY Zenon, <1>6 DEF Numbered
    <3> QED
      BY Zenon, <1>3, <3>1, <3>2
  <2> QED
    BY Zenon, <2>1, <2>2, <2>3 DEF Numbered
<1>12. Left(t, q) = Left(s, ts)
  <2>1. Len(q) - 1 = Len(ts)
    BY <1>3
  <2>2. t.out # None
    BY Zenon, <1>2, NoneAssumption
  <2> QED
    BY Zenon, <1>8, <2>1, <2>2 DEF Left
<1>13. Segmented(t, r, fs, q, gs)
  <2> SUFFICES ASSUME r.closed = None
               PROVE  /\ IF r.got = 0 THEN r.in = None
                         ELSE Len(gs) < Len(q) /\ r.in = q[Len(gs) + 1]
                      /\ Joined(Reached(r, gs), Left(t, q), fs, q)
    BY Zenon DEF Segmented
  <2>1. /\ IF r.got = 0 THEN r.in = None
           ELSE Len(gs) < Len(ts) /\ r.in = ts[Len(gs) + 1]
        /\ Joined(Reached(r, gs), Left(s, ts), fs, ts)
    BY Zenon, <1>6 DEF Way, Segmented
  <2>2. Joined(Reached(r, gs), Left(t, q), fs, q)
    BY Zenon, <1>4, <1>12, <2>1
  <2>3. Len(gs) < Len(ts) => /\ Len(gs) < Len(q) /\ Len(gs) + 1 \in 1 .. Len(ts)
    BY <1>3, <1>10
  <2>4. Len(gs) < Len(ts) => Len(gs) < Len(q) /\ q[Len(gs) + 1] = ts[Len(gs) + 1]
    BY Zenon, <1>3, <2>3
  <2> QED
    BY Zenon, <2>1, <2>2, <2>4
<1>14. Way(window, t, r, fs, q, gs)
  <2>1. Order(window, t, r) /\ InSequence(t, r, fs) /\ AcksInOrder(t, r, fs)
    BY Zenon, <1>2, <1>6, <1>7 DEF Way, SameLink, Order, InSequence, AcksInOrder
  <2>2. InTime(t, r)
    BY Zenon, <1>2, <1>6 DEF Way, SameLink, InTime
  <2> QED
    BY Zenon, <1>13, <2>1, <2>2 DEF Way
<1>15. Way(window, r, t, fr, tr, gr)
  <2>1. Order(window, r, t) /\ InSequence(r, t, fr) /\ AcksInOrder(r, t, fr)
    BY Zenon, <1>2, <1>6 DEF Way, SameLink, Order, InSequence, AcksInOrder
  <2>2. InTime(r, t) /\ Segmented(r, t, fr, tr, gr)
    BY Zenon, <1>2, <1>6 DEF Way, SameLink, InTime, Remaining, Segmented, Reached
  <2> QED
    BY Zenon, <2>1, <2>2 DEF Way
<1>16. Spare(window, t, r)
  BY Zenon, <1>2, <1>6, <1>7 DEF Spare, SameLink
<1>17. Joint(window, t, r, fs, fr, q, tr, gs, gr)
  BY Zenon, <1>6, <1>7, <1>9, <1>11, <1>14, <1>15, <1>16 DEF Joint
<1> QED
  BY Zenon, <1>1, <1>2, <1>17 DEF q

\* A Session is closed
SetClosed(s, c) == [s EXCEPT !.closed = c]

\* An end gives up or is gone: nothing more is promised to it
LEMMA EndClosed ==
    ASSUME NEW s \in Session, NEW r \in Session, NEW c \in Closings, c # None,
           NEW w, NEW fs, NEW fr, NEW fx, NEW ts, NEW tr, NEW gs, NEW gr,
           Joint(w, s, r, fs, fr, ts, tr, gs, gr)
    PROVE  /\ SetClosed(s, c) \in Session /\ SetClosed(s, c).closed = c
           /\ Joint(w, SetClosed(s, c), r, fs, fx, ts, tr, gs, gr)
<1> DEFINE t == SetClosed(s, c)
<1>1. t \in Session /\ SameLink(s, t) /\ t.out = s.out /\ t.sent = s.sent /\ t.closed = c
  <2>1. t \in Session
    BY Zenon, SessionShape DEF SetClosed
  <2>2. /\ t.tx = s.tx /\ t.txAcked = s.txAcked /\ t.rx = s.rx /\ t.rxAcked = s.rxAcked
        /\ t.owes = s.owes /\ t.sendAckIn = s.sendAckIn /\ t.ackIn = s.ackIn
    BY Zenon, SessionShape DEF SetClosed
  <2>3. t.in = s.in /\ t.got = s.got /\ t.out = s.out /\ t.sent = s.sent /\ t.closed = c
    BY Zenon, SessionShape DEF SetClosed
  <2> QED
    BY Zenon, <2>1, <2>2, <2>3 DEF SameLink
<1> HIDE DEF t
<1>2. /\ Timed(s) /\ Timed(r) /\ Sending(s, ts) /\ Sending(r, tr)
      /\ Numbered(ts, gs) /\ Numbered(tr, gr)
      /\ Way(w, s, r, fs, ts, gs) /\ Way(w, r, s, fr, tr, gr) /\ Spare(w, s, r)
  BY Zenon DEF Joint
<1>3. Timed(t) /\ Sent(t) = Sent(s)
  BY Zenon, <1>1, <1>2 DEF Timed, SameLink, InFlight, Sent
<1>4. Sending(t, ts) /\ Left(t, ts) = Left(s, ts)
  BY Zenon, <1>1, <1>2 DEF Sending, Left
<1>5. Way(w, t, r, fs, ts, gs)
  <2>1. Order(w, t, r) /\ InSequence(t, r, fs) /\ AcksInOrder(t, r, fs)
    BY Zenon, <1>1, <1>2, <1>3 DEF Way, SameLink, Order, InSequence, AcksInOrder
  <2>2. Segmented(t, r, fs, ts, gs) /\ InTime(t, r)
    BY Zenon, <1>1, <1>2, <1>4 DEF Way, Segmented, InTime
  <2> QED
    BY Zenon, <2>1, <2>2 DEF Way
<1>6. Way(w, r, t, fx, tr, gr)
  BY Zenon, <1>1, <1>2
     DEF Way, SameLink, Order, InSequence, AcksInOrder, Segmented, InTime
<1>7. Spare(w, t, r)
  BY Zenon, <1>1, <1>2, <1>3 DEF Spare, SameLink
<1>8. Joint(w, t, r, fs, fx, ts, tr, gs, gr)
  BY Zenon, <1>2, <1>3, <1>4, <1>5, <1>6, <1>7 DEF Joint
<1> QED
  BY Zenon, <1>1, <1>8 DEF t

\* What lies one further is one nearer to the next number
LEMMA StepBack ==
    /\ \A n, k \in Seq8 : Minus(n, k) >= 1 => Minus(n, Up(k)) = Minus(n, k) - 1
    /\ \A n, k \in Seq8 : Minus(n, k) = 1 => n = Up(k)
<1> SUFFICES ASSUME NEW n \in Seq8, NEW k \in Seq8
             PROVE  /\ Minus(n, k) >= 1 => Minus(n, Up(k)) = Minus(n, k) - 1
                    /\ Minus(n, k) = 1 => n = Up(k)
  BY Zenon
<1> DEFINE u == Up(k)
<1>1. SeqMod \in Nat /\ SeqMod > 1
  BY WrapCases
<1>2. u \in Seq8 /\ Follows(u, k)
  BY Zenon, ApartCases
<1> HIDE DEF u
<1>3. /\ Apart(n, k) /\ Apart(n, u) /\ n \in Nat /\ n < SeqMod /\ k \in Nat /\ k < SeqMod
      /\ u \in Nat /\ u < SeqMod
  BY Zenon, <1>2, ApartCases
<1>4. Minus(n, k) >= 1 => Minus(n, u) = Minus(n, k) - 1
  BY <1>1, <1>2, <1>3 DEF Apart, Follows
<1>5. Minus(n, k) = 1 => n = u
  BY <1>1, <1>2, <1>3 DEF Apart, Follows
<1> QED
  BY Zenon, <1>4, <1>5 DEF u

\* receive_inner moved s to t for a frame f
ReceiveMoved(s, t, f) ==
    /\ t.tx = s.tx /\ t.txAcked = IF f.ack = None THEN s.txAcked ELSE f.ack
    /\ t.rx = f.seq /\ t.rxAcked = s.rxAcked /\ t.owes = TRUE
    /\ t.sendAckIn = IF s.sendAckIn = None THEN SendAckTimeout ELSE s.sendAckIn
    /\ t.ackIn = IF f.ack = None THEN s.ackIn
                 ELSE IF Minus(f.ack, s.txAcked) = InFlight(s) THEN None ELSE AckTimeout
    /\ t.closed = s.closed /\ t.out = s.out /\ t.sent = s.sent

\* The first frame on the link is in sequence, within the window, and acknowledges
\* something in flight
LEMMA FrameIsNext ==
    ASSUME NEW s \in Session, NEW r \in Session, window \in Windows,
           NEW frames \in Seq(Frame), frames # <<>>, s.closed = None,
           Order(window, r, s), InSequence(r, s, frames), Order(window, s, r),
           AcksInOrder(r, s, frames),
           NEW f, f = Head(frames)
    PROVE  /\ f \in Frame /\ f.seq = Up(s.rx) /\ s.rx # Sent(r)
           /\ Minus(f.seq, s.rxAcked) <= window
           /\ f.ack # None =>
                /\ f.ack \in Seq8 /\ AckInRange(s, f.ack) /\ 1 <= Minus(f.ack, s.txAcked)
                /\ Minus(f.ack, s.txAcked) <= Minus(r.rxAcked, s.txAcked)
<1>1. f \in Frame /\ f = frames[1] /\ Len(frames) \in Nat /\ Len(frames) >= 1
  BY SMT, Rest
<1>2. 1 \in 1 .. Len(frames)
  BY <1>1
<1>3. f.seq \in Seq8 /\ f.ack \in Seq8 \cup {None}
  BY Zenon, <1>1, FrameFields
<1>4. /\ s.rx \in Seq8 /\ s.rxAcked \in Seq8 /\ s.txAcked \in Seq8
      /\ r.rx \in Seq8 /\ r.rxAcked \in Seq8 /\ r.txAcked \in Seq8
      /\ Sent(r) \in Seq8 /\ Sent(s) \in Seq8 /\ InFlight(s) = Minus(Sent(s), s.txAcked)
  BY Zenon, Numbers
<1>5. Len(frames) = Minus(Sent(r), s.rx) /\ Minus(f.seq, s.rx) = 1
  BY Zenon, <1>1, <1>2 DEF InSequence
<1>6. f.seq = Up(s.rx)
  BY Zenon, <1>3, <1>4, <1>5, StepBack
<1>7. s.rx # Sent(r)
  <2>1. Minus(Sent(r), s.rx) # 0
    BY <1>1, <1>5
  <2> QED
    BY Zenon, <1>4, <2>1, Distances
<1>8. Minus(f.seq, s.rxAcked) <= window
  <2>1. InOrder(window, r.txAcked, s.rxAcked, s.rx, Sent(r))
    BY Zenon DEF Order
  <2> QED
    BY Zenon, <1>4, <1>6, <1>7, <2>1, OrderReceive
<1>9. ASSUME f.ack # None
      PROVE  /\ f.ack \in Seq8 /\ AckInRange(s, f.ack) /\ 1 <= Minus(f.ack, s.txAcked)
             /\ Minus(f.ack, s.txAcked) <= Minus(r.rxAcked, s.txAcked)
  <2>1. f.ack \in Seq8
    BY Zenon, <1>3, <1>9
  <2>2. /\ 1 <= Minus(f.ack, s.txAcked)
        /\ Minus(f.ack, s.txAcked) <= Minus(r.rxAcked, s.txAcked)
    <3>1. \A i \in 1 .. Len(frames) : frames[i].ack # None =>
             /\ 1 <= Minus(frames[i].ack, s.txAcked)
             /\ Minus(frames[i].ack, s.txAcked) <= Minus(r.rxAcked, s.txAcked)
      BY Zenon DEF AcksInOrder
    <3>2. frames[1].ack # None /\ frames[1].ack = f.ack
      BY Zenon, <1>1, <1>9
    <3>3. /\ 1 <= Minus(frames[1].ack, s.txAcked)
          /\ Minus(frames[1].ack, s.txAcked) <= Minus(r.rxAcked, s.txAcked)
      BY Zenon, <1>2, <3>1, <3>2
    <3> QED
      BY Zenon, <3>2, <3>3
  <2>3. InOrder(window, s.txAcked, r.rxAcked, r.rx, Sent(s))
    BY Zenon DEF Order
  <2>4. Minus(f.ack, s.txAcked) <= InFlight(s)
    <3> DEFINE a == s.txAcked
               b == r.rxAcked
               c == r.rx
               d == Sent(s)
               x == f.ack
    <3>1. /\ a \in Seq8 /\ b \in Seq8 /\ c \in Seq8 /\ d \in Seq8 /\ x \in Seq8
          /\ InOrder(window, a, b, c, d) /\ 1 <= Minus(x, a) /\ Minus(x, a) <= Minus(b, a)
      BY Zenon, <1>4, <2>1, <2>2, <2>3
    <3> HIDE DEF a, b, c, d, x
    <3>2. Minus(x, a) <= Minus(d, a)
      BY ONLY <3>1, window \in Windows, OrderAcked
    <3> QED
      BY Zenon, <1>4, <3>2 DEF a, d, x
  <2>5. Minus(f.ack, s.txAcked) \in Nat /\ InFlight(s) \in Nat
    BY Zenon, <1>4, <2>1, Far
  <2>6. Minus(f.ack, s.txAcked) \in 1 .. InFlight(s)
    BY <2>2, <2>4, <2>5
  <2> QED
    BY Zenon, <2>1, <2>2, <2>6 DEF AckInRange
<1> QED
  BY Zenon, <1>1, <1>6, <1>7, <1>8, <1>9

\* A frame is received, and perhaps an acknowledgement with it
LEMMA ReceiveOrder ==
    ASSUME NEW s \in Session, NEW r \in Session, NEW t \in Session, window \in Windows,
           Order(window, r, s), Order(window, s, r), Timed(s), NEW f,
           ReceiveMoved(s, t, f), f.seq = Up(s.rx), s.rx # Sent(r),
           f.ack # None =>
                /\ f.ack \in Seq8 /\ 1 <= Minus(f.ack, s.txAcked)
                /\ Minus(f.ack, s.txAcked) <= Minus(r.rxAcked, s.txAcked)
    PROVE  /\ Order(window, r, t) /\ Order(window, t, r) /\ Sent(t) = Sent(s) /\ Timed(t)
           /\ Minus(Sent(r), s.rx) = Minus(Sent(r), t.rx) + 1
<1>1. /\ s.rx \in Seq8 /\ s.rxAcked \in Seq8 /\ s.txAcked \in Seq8
      /\ r.rx \in Seq8 /\ r.rxAcked \in Seq8 /\ r.txAcked \in Seq8
      /\ Sent(r) \in Seq8 /\ Sent(s) \in Seq8 /\ InFlight(s) = Minus(Sent(s), s.txAcked)
      /\ InFlight(t) = Minus(Sent(t), t.txAcked) /\ Sent(t) \in Seq8 /\ t.txAcked \in Seq8
  BY Zenon, Numbers
<1>2. /\ t.rx = Up(s.rx) /\ t.rxAcked = s.rxAcked /\ Sent(t) = Sent(s) /\ t.owes = TRUE
      /\ t.txAcked = IF f.ack = None THEN s.txAcked ELSE f.ack
  BY Zenon DEF ReceiveMoved, Sent
<1>3. InOrder(window, r.txAcked, s.rxAcked, s.rx, Sent(r))
  BY Zenon DEF Order
<1>4. /\ InOrder(window, r.txAcked, s.rxAcked, Up(s.rx), Sent(r)) /\ Up(s.rx) # s.rxAcked
      /\ Minus(Sent(r), s.rx) = Minus(Sent(r), Up(s.rx)) + 1
  <2> DEFINE a == r.txAcked
             b == s.rxAcked
             c == s.rx
             d == Sent(r)
  <2>1. a \in Seq8 /\ b \in Seq8 /\ c \in Seq8 /\ d \in Seq8 /\ c # d
    BY Zenon, <1>1
  <2>2. InOrder(window, a, b, c, d)
    BY Zenon, <1>3
  <2> HIDE DEF a, b, c, d
  <2>3. /\ InOrder(window, a, b, Up(c), d) /\ Up(c) # b
        /\ Minus(d, c) = Minus(d, Up(c)) + 1
    BY ONLY <2>1, <2>2, window \in Windows, OrderReceive
  <2> QED
    BY Zenon, <2>3 DEF a, b, c, d
<1>5. Order(window, r, t) /\ Minus(Sent(r), s.rx) = Minus(Sent(r), t.rx) + 1
  BY Zenon, <1>2, <1>4 DEF Order
<1>6. InOrder(window, s.txAcked, r.rxAcked, r.rx, Sent(s))
  BY Zenon DEF Order
<1>7. t.sendAckIn # None
  BY Zenon, TimerValues DEF ReceiveMoved
<1>8. CASE f.ack = None
  <2>1. t.txAcked = s.txAcked /\ t.ackIn = s.ackIn
    BY Zenon, <1>8 DEF ReceiveMoved
  <2>2. Order(window, t, r)
    BY Zenon, <1>2, <1>6, <2>1 DEF Order
  <2>3. Timed(t)
    BY Zenon, <1>1, <1>2, <1>4, <1>7, <2>1 DEF Timed
  <2> QED
    BY Zenon, <1>2, <1>5, <2>2, <2>3
<1>9. CASE f.ack # None
  <2>1. t.txAcked = f.ack
    BY Zenon, <1>2, <1>9
  <2>2. /\ InOrder(window, f.ack, r.rxAcked, r.rx, Sent(s))
        /\ Minus(Sent(s), f.ack) = Minus(Sent(s), s.txAcked) - Minus(f.ack, s.txAcked)
    <3> DEFINE a == s.txAcked
               b == r.rxAcked
               c == r.rx
               d == Sent(s)
               x == f.ack
    <3>1. /\ a \in Seq8 /\ b \in Seq8 /\ c \in Seq8 /\ d \in Seq8 /\ x \in Seq8
          /\ InOrder(window, a, b, c, d) /\ 1 <= Minus(x, a) /\ Minus(x, a) <= Minus(b, a)
      BY Zenon, <1>1, <1>6, <1>9
    <3> HIDE DEF a, b, c, d, x
    <3>2. InOrder(window, x, b, c, d) /\ Minus(d, x) = Minus(d, a) - Minus(x, a)
      BY ONLY <3>1, window \in Windows, OrderAcked
    <3> QED
      BY Zenon, <3>2 DEF a, b, c, d, x
  <2>3. Order(window, t, r)
    BY Zenon, <1>2, <2>1, <2>2 DEF Order
  <2>4. InFlight(t) = InFlight(s) - Minus(f.ack, s.txAcked)
    BY Zenon, <1>1, <1>2, <2>1, <2>2
  <2>5. InFlight(t) = 0 <=> Minus(f.ack, s.txAcked) = InFlight(s)
    <3>1. InFlight(s) \in Nat /\ Minus(f.ack, s.txAcked) \in Nat
      BY Zenon, <1>1, <1>9, Far
    <3> QED
      BY <2>4, <3>1
  <2>6. t.ackIn = None <=> InFlight(t) = 0
    BY Zenon, <1>9, <2>5, TimerValues DEF ReceiveMoved
  <2>7. Timed(t)
    BY Zenon, <1>2, <1>4, <1>7, <2>6 DEF Timed
  <2> QED
    BY Zenon, <1>2, <1>5, <2>3, <2>7
<1> QED
  BY Zenon, <1>8, <1>9

\* The frames left on the link follow the one received
LEMMA ReceiveSequence ==
    ASSUME NEW s \in Session, NEW r \in Session, NEW t \in Session,
           NEW frames \in Seq(Frame), frames # <<>>, s.closed = None, t.closed = s.closed,
           InSequence(r, s, frames), t.rx = Up(s.rx),
           Minus(Sent(r), s.rx) = Minus(Sent(r), t.rx) + 1
    PROVE  InSequence(r, t, Tail(frames))
<1> DEFINE q == Tail(frames)
<1>1. /\ Len(frames) \in Nat /\ Len(q) = Len(frames) - 1 /\ q \in Seq(Frame)
      /\ \A i \in 1 .. Len(q) : i + 1 \in 1 .. Len(frames) /\ q[i] = frames[i + 1]
  BY SMT, Rest
<1> HIDE DEF q
<1>2. /\ Len(frames) = Minus(Sent(r), s.rx)
      /\ \A i \in 1 .. Len(frames) : Minus(frames[i].seq, s.rx) = i
  BY Zenon DEF InSequence
<1>3. s.rx \in Seq8 /\ t.rx \in Seq8 /\ Sent(r) \in Seq8
  BY Zenon, Numbers
<1>4. Len(q) = Minus(Sent(r), t.rx)
  <2>1. Minus(Sent(r), t.rx) \in Nat
    BY Zenon, <1>3, Far
  <2> QED
    BY <1>1, <1>2, <2>1
<1>5. ASSUME NEW i \in 1 .. Len(q) PROVE Minus(q[i].seq, t.rx) = i
  <2> DEFINE n == q[i].seq
  <2>1. n \in Seq8
    <3>1. q[i] \in Frame
      BY <1>1
    <3> QED
      BY Zenon, <3>1, FrameFields
  <2>2. Minus(n, s.rx) = i + 1
    BY <1>1, <1>2
  <2> HIDE DEF n
  <2>3. Minus(n, s.rx) >= 1
    BY <2>2
  <2>4. Minus(n, Up(s.rx)) = Minus(n, s.rx) - 1
    BY Zenon, <1>3, <2>1, <2>3, StepBack
  <2>5. Minus(n, Up(s.rx)) = i
    BY <2>2, <2>4
  <2> QED
    BY Zenon, <2>5 DEF n
<1> QED
  BY Zenon, <1>4, <1>5 DEF InSequence, q

\* The acknowledgements left on the link are of later frames than the one received
LEMMA ReceiveAcks ==
    ASSUME NEW s \in Session, NEW r \in Session, NEW t \in Session, window \in Windows,
           NEW frames \in Seq(Frame), frames # <<>>, s.closed = None, t.closed = s.closed,
           Order(window, s, r), AcksInOrder(r, s, frames),
           NEW f, f = Head(frames), t.txAcked = IF f.ack = None THEN s.txAcked ELSE f.ack,
           f.ack # None =>
                /\ f.ack \in Seq8 /\ 1 <= Minus(f.ack, s.txAcked)
                /\ Minus(f.ack, s.txAcked) <= Minus(r.rxAcked, s.txAcked)
    PROVE  AcksInOrder(r, t, Tail(frames))
<1> DEFINE q == Tail(frames)
           D(x) == Minus(x, s.txAcked)
           E(x) == Minus(x, t.txAcked)
<1>1. /\ Len(frames) \in Nat /\ Len(q) = Len(frames) - 1 /\ q \in Seq(Frame) /\ f = frames[1]
      /\ Len(frames) >= 1
      /\ \A i \in 1 .. Len(q) : i + 1 \in 1 .. Len(frames) /\ q[i] = frames[i + 1]
  BY SMT, Rest
<1> HIDE DEF q
<1>2. /\ \A i \in 1 .. Len(frames) : frames[i].ack # None =>
             1 <= D(frames[i].ack) /\ D(frames[i].ack) <= D(r.rxAcked)
      /\ \A i, j \in 1 .. Len(frames) : i < j /\ frames[i].ack # None /\ frames[j].ack # None =>
             D(frames[i].ack) < D(frames[j].ack)
      /\ r.rxAcked # s.txAcked => \E i \in 1 .. Len(frames) : frames[i].ack = r.rxAcked
  BY Zenon DEF AcksInOrder
<1>3. /\ s.txAcked \in Seq8 /\ r.rxAcked \in Seq8 /\ r.rx \in Seq8 /\ Sent(s) \in Seq8
      /\ t.txAcked \in Seq8
  BY Zenon, Numbers
<1>4. \A x \in Seq8 : D(x) \in Nat /\ E(x) \in Nat
  BY Zenon, <1>3, Far
<1>5. ASSUME NEW i \in 1 .. Len(q)
      PROVE  /\ q[i].ack # None => q[i].ack \in Seq8
             /\ 1 \in 1 .. Len(frames) /\ i + 1 \in 1 .. Len(frames) /\ 1 < i + 1
             /\ q[i] = frames[i + 1]
  <2>1. q[i] \in Frame
    BY <1>1
  <2>2. q[i].ack \in Seq8 \cup {None}
    BY Zenon, <2>1, FrameFields
  <2>3. 1 \in 1 .. Len(frames) /\ i + 1 \in 1 .. Len(frames) /\ 1 < i + 1 /\ q[i] = frames[i + 1]
    BY <1>1
  <2> QED
    BY Zenon, <2>2, <2>3
<1> HIDE DEF D
<1>6. /\ \A i \in 1 .. Len(q) : q[i].ack # None =>
             1 <= D(q[i].ack) /\ D(q[i].ack) <= D(r.rxAcked)
      /\ \A i, j \in 1 .. Len(q) : i < j /\ q[i].ack # None /\ q[j].ack # None =>
             D(q[i].ack) < D(q[j].ack)
  <2>1. ASSUME NEW i \in 1 .. Len(q), q[i].ack # None
        PROVE  1 <= D(q[i].ack) /\ D(q[i].ack) <= D(r.rxAcked)
    <3> DEFINE k == i + 1
    <3>1. k \in 1 .. Len(frames) /\ q[i] = frames[k]
      BY Zenon, <1>5
    <3> HIDE DEF k
    <3> QED
      BY Zenon, <1>2, <2>1, <3>1
  <2>2. ASSUME NEW i \in 1 .. Len(q), NEW j \in 1 .. Len(q), i < j, q[i].ack # None,
               q[j].ack # None
        PROVE  D(q[i].ack) < D(q[j].ack)
    <3> DEFINE k == i + 1
               l == j + 1
    <3>1. k \in 1 .. Len(frames) /\ q[i] = frames[k] /\ l \in 1 .. Len(frames) /\ q[j] = frames[l]
      BY Zenon, <1>5
    <3>2. k < l
      BY <2>2
    <3> HIDE DEF k, l
    <3> QED
      BY Zenon, <1>2, <2>2, <3>1, <3>2
  <2> QED
    BY Zenon, <2>1, <2>2
<1>7. ASSUME r.rxAcked # s.txAcked, f.ack # r.rxAcked
      PROVE  \E i \in 1 .. Len(q) : q[i].ack = r.rxAcked
  <2>1. PICK j \in 1 .. Len(frames) : frames[j].ack = r.rxAcked
    BY Zenon, <1>2, <1>7
  <2>2. j # 1
    BY Zenon, <1>1, <1>7, <2>1
  <2> DEFINE i == j - 1
  <2>3. i \in 1 .. Len(q) /\ i + 1 = j
    BY <1>1, <2>2
  <2>4. q[i] = frames[j]
    BY <1>1, <2>3
  <2> QED
    BY Zenon, <2>1, <2>3, <2>4
<1> SUFFICES /\ \A i \in 1 .. Len(q) : q[i].ack # None =>
                  1 <= E(q[i].ack) /\ E(q[i].ack) <= E(r.rxAcked)
             /\ \A i, j \in 1 .. Len(q) : i < j /\ q[i].ack # None /\ q[j].ack # None =>
                  E(q[i].ack) < E(q[j].ack)
             /\ r.rxAcked # t.txAcked => \E i \in 1 .. Len(q) : q[i].ack = r.rxAcked
  BY Zenon DEF AcksInOrder, q
<1>8. CASE f.ack = None
  <2>1. t.txAcked = s.txAcked
    BY Zenon, <1>8
  <2>2. \A x : E(x) = D(x)
    BY Zenon, <2>1 DEF D
  <2>3. f.ack # r.rxAcked
    BY Zenon, <1>3, <1>8, NoneNoNumber
  <2> QED
    BY Zenon, <1>6, <1>7, <2>1, <2>2, <2>3
<1>9. CASE f.ack # None
  <2> DEFINE x == f.ack
  <2>1. t.txAcked = x /\ x \in Seq8 /\ 1 <= D(x) /\ D(x) <= D(r.rxAcked)
    BY Zenon, <1>9 DEF D
  <2>2. \A y \in Seq8 : D(x) < D(y) => E(y) = D(y) - D(x)
    <3> DEFINE a == s.txAcked
               b == r.rxAcked
               c == r.rx
               d == Sent(s)
    <3>1. /\ a \in Seq8 /\ b \in Seq8 /\ c \in Seq8 /\ d \in Seq8 /\ x \in Seq8
          /\ InOrder(window, a, b, c, d) /\ 1 <= Minus(x, a) /\ Minus(x, a) <= Minus(b, a)
      BY Zenon, <1>3, <2>1 DEF D, Order
    <3> HIDE DEF a, b, c, d, x
    <3>2. \A y \in Seq8 : Minus(x, a) < Minus(y, a) => Minus(y, x) = Minus(y, a) - Minus(x, a)
      BY ONLY <3>1, window \in Windows, OrderAcked
    <3>3. \A y \in Seq8 : Minus(x, s.txAcked) < Minus(y, s.txAcked) =>
                            Minus(y, x) = Minus(y, s.txAcked) - Minus(x, s.txAcked)
      BY Zenon, <3>2 DEF a
    <3> QED
      BY Zenon, <2>1, <3>3 DEF D
  <2> HIDE DEF E
  <2>3. ASSUME NEW i \in 1 .. Len(q), q[i].ack # None
        PROVE  /\ q[i].ack \in Seq8 /\ D(x) < D(q[i].ack)
               /\ E(q[i].ack) = D(q[i].ack) - D(x)
    <3> DEFINE k == i + 1
    <3>1. /\ q[i].ack \in Seq8 /\ 1 \in 1 .. Len(frames) /\ k \in 1 .. Len(frames)
          /\ 1 < k /\ q[i] = frames[k]
      BY Zenon, <1>5, <2>3
    <3> HIDE DEF k
    <3>2. D(frames[1].ack) < D(frames[k].ack)
      BY Zenon, <1>1, <1>2, <1>9, <2>3, <3>1
    <3>3. D(x) < D(q[i].ack)
      BY Zenon, <1>1, <3>1, <3>2
    <3> QED
      BY Zenon, <2>2, <3>1, <3>3
  <2>4. ASSUME NEW i \in 1 .. Len(q), q[i].ack # None
        PROVE  1 <= E(q[i].ack) /\ E(q[i].ack) <= E(r.rxAcked)
    <3> DEFINE y == q[i].ack
               b == r.rxAcked
    <3>1. y \in Seq8 /\ b \in Seq8 /\ D(x) < D(y) /\ E(y) = D(y) - D(x) /\ D(y) <= D(b)
      BY Zenon, <1>3, <1>6, <2>3, <2>4
    <3>2. D(x) \in Nat /\ D(y) \in Nat /\ D(b) \in Nat
      BY Zenon, <1>4, <2>1, <3>1
    <3> HIDE DEF y, b, x
    <3>3. D(x) < D(b)
      BY <3>1, <3>2
    <3>4. E(b) = D(b) - D(x)
      BY Zenon, <2>2, <3>1, <3>3
    <3>5. 1 <= E(y) /\ E(y) <= E(b)
      BY <3>1, <3>2, <3>4
    <3> QED
      BY Zenon, <3>5 DEF y, b
  <2>5. ASSUME NEW i \in 1 .. Len(q), NEW j \in 1 .. Len(q), i < j, q[i].ack # None,
               q[j].ack # None
        PROVE  E(q[i].ack) < E(q[j].ack)
    <3> DEFINE y == q[i].ack
               z == q[j].ack
    <3>1. /\ y \in Seq8 /\ E(y) = D(y) - D(x) /\ z \in Seq8 /\ E(z) = D(z) - D(x)
          /\ D(y) < D(z)
      BY Zenon, <1>6, <2>3, <2>5
    <3>2. D(x) \in Nat /\ D(y) \in Nat /\ D(z) \in Nat
      BY Zenon, <1>4, <2>1, <3>1
    <3> HIDE DEF y, z, x
    <3>3. E(y) < E(z)
      BY <3>1, <3>2
    <3> QED
      BY Zenon, <3>3 DEF y, z
  <2>6. ASSUME r.rxAcked # t.txAcked PROVE \E i \in 1 .. Len(q) : q[i].ack = r.rxAcked
    <3>1. D(r.rxAcked) # 0
      <4>1. D(r.rxAcked) \in Nat /\ D(x) \in Nat
        BY Zenon, <1>3, <1>4, <2>1
      <4> HIDE DEF x
      <4> QED
        BY <2>1, <4>1
    <3>2. r.rxAcked # s.txAcked
      BY Zenon, <1>3, <3>1, Distances DEF D
    <3> QED
      BY Zenon, <1>7, <2>1, <2>6, <3>2
  <2> QED
    BY Zenon, <2>4, <2>5, <2>6
<1> QED
  BY Zenon, <1>8, <1>9

\* What a segment of f does to the reassembly at s and to the messages given
Reassembled(s, t, f, given, next) ==
    IF f.length = 0 THEN t.in = s.in /\ t.got = s.got /\ next = given
    ELSE /\ t.in = (IF f.ending THEN None ELSE Assembled(s, f))
         /\ t.got = (IF f.ending THEN 0 ELSE s.got + f.length)
         /\ next = IF f.ending THEN Append(given, Assembled(s, f)) ELSE given

\* What the reassembly at s holds
Holding(s, taken, given) ==
    IF s.got = 0 THEN s.in = None
    ELSE Len(given) < Len(taken) /\ s.in = taken[Len(given) + 1]

\* f is the next segment of the message the reassembly at s is at, and takes it to next
NextSegment(s, f, taken, given, next) ==
    /\ InPlace(s, f) /\ Assembled(s, f) = f.message
    /\ Len(given) < Len(taken) /\ f.message = taken[Len(given) + 1] /\ f.message \in Message
    /\ next = IF f.ending THEN [n |-> Len(given) + 1, at |-> 0]
              ELSE [n |-> Len(given), at |-> s.got + f.length]

\* The first segment on the link is the next one of the message the reassembly is at
LEMMA SegmentIsNext ==
    ASSUME NEW s \in Session, NEW f \in Frame, f.length # 0,
           NEW taken \in Seq(Message), NEW given \in Seq(Message \cup {Garbled}), NEW next,
           Holding(s, taken, given), Fits(f, Reached(s, given), next, taken)
    PROVE  NextSegment(s, f, taken, given, next)
<1> DEFINE from == Reached(s, given)
           m == f.message
<1>1. from.n = Len(given) /\ from.at = s.got
  BY Zenon DEF Reached
<1> HIDE DEF from
<1>2. /\ from.n < Len(taken) /\ m = taken[from.n + 1] /\ f.at = from.at
      /\ f.begin <=> from.at = 0
      /\ f.ending <=> from.at + f.length = m.length
      /\ next = IF f.ending THEN [n |-> from.n + 1, at |-> 0]
                ELSE [n |-> from.n, at |-> from.at + f.length]
  BY Zenon DEF Fits, from
<1>3. /\ Len(given) < Len(taken) /\ m = taken[Len(given) + 1] /\ f.at = s.got
      /\ f.begin <=> s.got = 0
      /\ f.ending <=> s.got + f.length = m.length
      /\ next = IF f.ending THEN [n |-> Len(given) + 1, at |-> 0]
                ELSE [n |-> Len(given), at |-> s.got + f.length]
  BY Zenon, <1>1, <1>2
<1>4. m \in Message
  <2>1. Len(given) \in Nat /\ Len(taken) \in Nat
    OBVIOUS
  <2>2. Len(given) + 1 \in 1 .. Len(taken)
    BY <1>3, <2>1
  <2>3. taken[Len(given) + 1] \in Message
    BY <2>2
  <2> QED
    BY Zenon, <1>3, <2>3
<1> HIDE DEF m
<1>5. m # None
  BY Zenon, <1>4, NoneAssumption
<1>6. f.begin <=> s.in = None
  BY Zenon, <1>3, <1>5 DEF Holding
<1>7. ~f.begin => s.in = m
  BY Zenon, <1>3 DEF Holding
<1>8. InPlace(s, f)
  <2>1. (IF f.begin THEN f.message ELSE s.in) = m
    BY Zenon, <1>7 DEF m
  <2> QED
    BY Zenon, <1>3, <1>6, <2>1 DEF InPlace
<1>9. Assembled(s, f) = f.message
  BY Zenon, <1>3, <1>7 DEF Assembled, m
<1> QED
  BY Zenon, <1>3, <1>4, <1>8, <1>9 DEF m, NextSegment

\* s takes f for the message the reassembly is at
Accepted(s, f, taken, given) ==
    f.length # 0 =>
        /\ InPlace(s, f) /\ Assembled(s, f) = f.message /\ f.message \in Message
        /\ f.ending => Len(given) < Len(taken) /\ f.message = taken[Len(given) + 1]

\* The reassembly goes on
LEMMA ReceivePlaces ==
    ASSUME NEW s \in Session, NEW r, NEW t \in Session,
           NEW frames \in Seq(Frame), frames # <<>>, s.closed = None, t.closed = s.closed,
           NEW taken \in Seq(Message), NEW given \in Seq(Message \cup {Garbled}), NEW next,
           NEW f \in Frame, f = Head(frames), Reassembled(s, t, f, given, next),
           Segmented(r, s, frames, taken, given), Numbered(taken, given)
    PROVE  /\ Segmented(r, t, Tail(frames), taken, next) /\ Numbered(taken, next)
           /\ Accepted(s, f, taken, given)
<1>1. /\ IF s.got = 0 THEN s.in = None
         ELSE Len(given) < Len(taken) /\ s.in = taken[Len(given) + 1]
      /\ Joined(Reached(s, given), Left(r, taken), frames, taken)
  BY Zenon DEF Segmented
<1>2. PICK place \in Places : /\ Fits(f, Reached(s, given), place, taken)
                              /\ Joined(place, Left(r, taken), Tail(frames), taken)
  BY Zenon, <1>1, JoinedTail
<1>3. CASE f.length = 0
  <2>1. t.in = s.in /\ t.got = s.got /\ next = given /\ place = Reached(s, given)
    BY Zenon, <1>2, <1>3 DEF Reassembled, Fits
  <2>2. Reached(t, next) = place
    BY Zenon, <2>1 DEF Reached
  <2>3. Segmented(r, t, Tail(frames), taken, next)
    BY Zenon, <1>1, <1>2, <2>1, <2>2 DEF Segmented
  <2> QED
    BY Zenon, <1>3, <2>1, <2>3 DEF Accepted
<1>4. CASE f.length # 0
  <2>1. /\ InPlace(s, f) /\ Assembled(s, f) = f.message
        /\ Len(given) < Len(taken) /\ f.message = taken[Len(given) + 1]
        /\ f.message \in Message
        /\ place = IF f.ending THEN [n |-> Len(given) + 1, at |-> 0]
                   ELSE [n |-> Len(given), at |-> s.got + f.length]
    <3>1. Holding(s, taken, given)
      BY Zenon, <1>1 DEF Holding
    <3>2. NextSegment(s, f, taken, given, place)
      BY Zenon, <1>2, <1>4, <3>1, SegmentIsNext
    <3> QED
      BY Zenon, <3>2 DEF NextSegment
  <2>2. /\ t.in = (IF f.ending THEN None ELSE f.message)
        /\ t.got = (IF f.ending THEN 0 ELSE s.got + f.length)
        /\ next = IF f.ending THEN Append(given, f.message) ELSE given
    BY Zenon, <1>4, <2>1 DEF Reassembled
  <2>3. f.ending \in BOOLEAN /\ f.length \in Nat /\ s.got \in Nat
    BY Zenon, FrameFields, SessionShape
  <2>4. CASE f.ending
    <3>1. t.in = None /\ t.got = 0 /\ next = Append(given, f.message)
      BY Zenon, <2>2, <2>4
    <3>2. /\ Len(given) \in Nat /\ Len(next) = Len(given) + 1
          /\ next[Len(given) + 1] = f.message
          /\ \A i \in 1 .. Len(given) : next[i] = given[i]
          /\ 1 .. Len(next) = 1 .. Len(given) \cup {Len(given) + 1}
      BY <3>1, Appended
    <3>3. Reached(t, next) = place
      BY Zenon, <2>1, <2>4, <3>1, <3>2 DEF Reached
    <3>4. Segmented(r, t, Tail(frames), taken, next)
      BY Zenon, <1>2, <3>1, <3>3 DEF Segmented
    <3>5. Numbered(taken, next)
      <4>1. Len(taken) \in Nat
        OBVIOUS
      <4>2. Len(next) <= Len(taken)
        BY <2>1, <3>2, <4>1
      <4>3. /\ \A i \in 1 .. Len(taken) : taken[i].n = i
            /\ \A i \in 1 .. Len(given) : given[i] = taken[i]
        BY Zenon DEF Numbered
      <4>4. next[Len(given) + 1] = taken[Len(given) + 1]
        BY Zenon, <2>1, <3>2
      <4>5. \A i \in 1 .. Len(next) : next[i] = taken[i]
        BY Zenon, <3>2, <4>3, <4>4
      <4> QED
        BY Zenon, <4>2, <4>3, <4>5 DEF Numbered
    <3> QED
      BY Zenon, <2>1, <3>4, <3>5 DEF Accepted
  <2>5. CASE ~f.ending
    <3>1. t.in = f.message /\ t.got = s.got + f.length /\ next = given
      BY Zenon, <2>2, <2>5
    <3>2. t.got # 0
      BY <1>4, <2>3, <3>1
    <3>3. Reached(t, next) = place
      BY Zenon, <2>1, <2>5, <3>1 DEF Reached
    <3>4. Segmented(r, t, Tail(frames), taken, next)
      BY Zenon, <1>2, <2>1, <3>1, <3>2, <3>3 DEF Segmented
    <3> QED
      BY Zenon, <2>1, <2>5, <3>1, <3>4 DEF Accepted
  <2> QED
    BY Zenon, <2>3, <2>4, <2>5
<1> QED
  BY Zenon, <1>3, <1>4

\* Neither end gives up sooner for a frame received
LEMMA ReceiveInTime ==
    ASSUME NEW s \in Session, NEW r \in Session, NEW t \in Session, NEW f,
           ReceiveMoved(s, t, f), InTime(s, r), InTime(r, s)
    PROVE  InTime(t, r) /\ InTime(r, t)
<1>1. InTime(r, t)
  <2>1. Remaining(t) = Remaining(s)
    BY Zenon, TimerValues DEF ReceiveMoved, Remaining
  <2>2. t.rxAcked = s.rxAcked /\ t.closed = s.closed
    BY Zenon DEF ReceiveMoved
  <2> QED
    BY Zenon, <2>1, <2>2 DEF InTime
<1>2. InTime(t, r)
  <2> SUFFICES ASSUME t.closed = None, r.closed = None
               PROVE  /\ t.ackIn # 0
                      /\ t.ackIn # None /\ r.rxAcked = t.txAcked =>
                            t.ackIn >= Remaining(r) + (AckTimeout - SendAckTimeout)
    BY Zenon DEF InTime
  <2>1. s.closed = None
    BY Zenon DEF ReceiveMoved
  <2>2. CASE f.ack = None
    <3>1. t.ackIn = s.ackIn /\ t.txAcked = s.txAcked
      BY Zenon, <2>2 DEF ReceiveMoved
    <3> QED
      BY Zenon, <2>1, <3>1 DEF InTime
  <2>3. CASE f.ack # None
    <3>1. t.ackIn = None \/ t.ackIn = AckTimeout
      BY Zenon, <2>3 DEF ReceiveMoved
    <3>2. AckTimeout >= Remaining(r) + (AckTimeout - SendAckTimeout)
      <4>1. /\ Remaining(r) \in Nat /\ Remaining(r) <= SendAckTimeout
            /\ SendAckTimeout \in Nat /\ AckTimeout \in Nat
        BY Zenon, RemainingType
      <4> QED
        BY <4>1
    <3> QED
      BY Zenon, <3>1, <3>2, TimerValues
  <2> QED
    BY Zenon, <2>2, <2>3
<1> QED
  BY Zenon, <1>1, <1>2

\* The first of the frames fr is taken: it passes every check, and both directions stay in order
Received(w, s, t, r, fs, fr, ts, tr, gs, gr, next) ==
    LET f == Head(fr)
    IN  /\ Joint(w, t, r, fs, Tail(fr), ts, tr, gs, next)
        /\ f.seq = Up(s.rx) /\ Minus(f.seq, s.rxAcked) <= w
        /\ f.ack # None => AckInRange(s, f.ack)
        /\ Accepted(s, f, tr, gr)

\* Receiving a frame keeps both directions in order
LEMMA FrameReceived ==
    ASSUME NEW s \in Session, NEW r \in Session, NEW t \in Session, window \in Windows,
           NEW fs, NEW fr \in Seq(Frame), fr # <<>>, NEW ts, NEW tr \in Seq(Message),
           NEW gs, NEW gr \in Seq(Message \cup {Garbled}), NEW next,
           Joint(window, s, r, fs, fr, ts, tr, gs, gr), s.closed = None,
           NEW f, f = Head(fr), ReceiveMoved(s, t, f), Reassembled(s, t, f, gr, next)
    PROVE  Received(window, s, t, r, fs, fr, ts, tr, gs, gr, next)
<1>1. /\ Timed(s) /\ Timed(r) /\ Sending(s, ts) /\ Sending(r, tr)
      /\ Numbered(ts, gs) /\ Numbered(tr, gr)
      /\ Way(window, s, r, fs, ts, gs) /\ Way(window, r, s, fr, tr, gr) /\ Spare(window, s, r)
  BY Zenon DEF Joint
<1>2. /\ Order(window, s, r) /\ InSequence(s, r, fs) /\ AcksInOrder(s, r, fs)
      /\ Segmented(s, r, fs, ts, gs) /\ InTime(s, r)
      /\ Order(window, r, s) /\ InSequence(r, s, fr) /\ AcksInOrder(r, s, fr)
      /\ Segmented(r, s, fr, tr, gr) /\ InTime(r, s)
  BY Zenon, <1>1 DEF Way
<1>3. /\ f \in Frame /\ f.seq = Up(s.rx) /\ s.rx # Sent(r)
      /\ Minus(f.seq, s.rxAcked) <= window
      /\ f.ack # None =>
           /\ f.ack \in Seq8 /\ AckInRange(s, f.ack) /\ 1 <= Minus(f.ack, s.txAcked)
           /\ Minus(f.ack, s.txAcked) <= Minus(r.rxAcked, s.txAcked)
  BY Zenon, <1>2, FrameIsNext
<1>4. /\ t.tx = s.tx /\ t.txAcked = IF f.ack = None THEN s.txAcked ELSE f.ack
      /\ t.rx = f.seq /\ t.rxAcked = s.rxAcked
      /\ t.closed = s.closed /\ t.out = s.out /\ t.sent = s.sent
  BY Zenon DEF ReceiveMoved
<1>5. /\ Order(window, r, t) /\ Order(window, t, r) /\ Sent(t) = Sent(s) /\ Timed(t)
      /\ Minus(Sent(r), s.rx) = Minus(Sent(r), t.rx) + 1
  BY ZenonT(40), <1>1, <1>2, <1>3, ReceiveOrder
<1>6. InSequence(r, t, Tail(fr))
  <2>1. t.rx = Up(s.rx)
    BY Zenon, <1>3, <1>4
  <2> QED
    BY Zenon, <1>2, <1>4, <1>5, <2>1, ReceiveSequence
<1>7. AcksInOrder(r, t, Tail(fr))
  BY Zenon, <1>2, <1>3, <1>4, ReceiveAcks
<1>8. /\ Segmented(r, t, Tail(fr), tr, next) /\ Numbered(tr, next)
      /\ Accepted(s, f, tr, gr)
  BY Zenon, <1>1, <1>2, <1>3, <1>4, ReceivePlaces
<1>9. InTime(t, r) /\ InTime(r, t)
  BY Zenon, <1>2, ReceiveInTime
<1>10. InSequence(t, r, fs)
  BY Zenon, <1>2, <1>5 DEF InSequence
<1>11. AcksInOrder(t, r, fs)
  BY Zenon, <1>2, <1>4 DEF AcksInOrder
<1>12. Sending(t, ts) /\ Left(t, ts) = Left(s, ts)
  BY Zenon, <1>1, <1>4 DEF Sending, Left
<1>13. Segmented(t, r, fs, ts, gs)
  BY Zenon, <1>2, <1>12 DEF Segmented
<1>14. Spare(window, t, r)
  BY Zenon, <1>1, <1>4, <1>5 DEF Spare
<1>15. Way(window, t, r, fs, ts, gs)
  BY Zenon, <1>5, <1>9, <1>10, <1>11, <1>13 DEF Way
<1>16. Way(window, r, t, Tail(fr), tr, next)
  BY Zenon, <1>5, <1>6, <1>7, <1>8, <1>9 DEF Way
<1>17. Joint(window, t, r, fs, Tail(fr), ts, tr, gs, next)
  BY Zenon, <1>1, <1>5, <1>8, <1>12, <1>14, <1>15, <1>16 DEF Joint
<1> QED
  BY Zenon, <1>3, <1>8, <1>17 DEF Received

\* poll_send of s would yield a frame
Yields(s) == s.closed = None /\ CanSend(s) /\ (s.out # None \/ (s.owes /\ AckDue(s)))

\* A timer that runs goes down by one
LEMMA LessCases ==
    ASSUME NEW n \in SendTimer \cup AckTimer
    PROVE  /\ n # None => n \in Nat
           /\ Less(n) = None <=> n = None
           /\ n # None /\ n # 0 => Less(n) = n - 1
<1>1. SendAckTimeout \in Nat /\ AckTimeout \in Nat /\ None \notin Nat
  BY BtpAssumption
<1>2. n # None => n \in Nat
  BY <1>1 DEF SendTimer, AckTimer
<1>3. CASE n = None
  BY Zenon, <1>3 DEF Less
<1>4. CASE n # None
  <2>1. n \in Nat
    BY Zenon, <1>2, <1>4
  <2>2. n # 0 => n - 1 \in Nat
    BY <2>1
  <2>3. 0 \in Nat
    OBVIOUS
  <2> QED
    BY Zenon, <1>1, <1>4, <2>1, <2>2, <2>3 DEF Less
<1> QED
  BY Zenon, <1>2, <1>3, <1>4

\* Numbers that lie apart differ
LEMMA Distinct == \A n, k \in Seq8 : Minus(n, k) # 0 => n # k
BY Zenon, Distances

\* When neither end has a frame to send, an end that awaits an acknowledgement is owed one
\* for which the other's timer runs
LEMMA AckOnItsWay ==
    ASSUME NEW s \in Session, NEW r \in Session, window \in Windows,
           Order(window, s, r), Order(window, r, s), Timed(s), Timed(r), Spare(window, s, r),
           InSequence(s, r, <<>>), InSequence(r, s, <<>>),
           AcksInOrder(s, r, <<>>), AcksInOrder(r, s, <<>>),
           s.closed = None, r.closed = None, ~Yields(s), ~Yields(r), s.ackIn # None
    PROVE  r.rxAcked = s.txAcked /\ r.sendAckIn # None /\ r.sendAckIn # 0
<1>1. /\ s.rx \in Seq8 /\ s.rxAcked \in Seq8 /\ s.txAcked \in Seq8
      /\ r.rx \in Seq8 /\ r.rxAcked \in Seq8 /\ r.txAcked \in Seq8
      /\ Sent(r) \in Seq8 /\ Sent(s) \in Seq8 /\ InFlight(s) = Minus(Sent(s), s.txAcked)
      /\ InFlight(r) = Minus(Sent(r), r.txAcked)
      /\ s.owes \in BOOLEAN /\ r.owes \in BOOLEAN
  BY Zenon, Numbers
<1>2. Len(<<>>) = 0 /\ 1 .. Len(<<>>) = {}
  OBVIOUS
<1>3. r.rxAcked = s.txAcked /\ s.rxAcked = r.txAcked
  BY Zenon, <1>2 DEF AcksInOrder
<1>4. r.rx = Sent(s) /\ s.rx = Sent(r)
  <2>1. Minus(Sent(s), r.rx) = 0 /\ Minus(Sent(r), s.rx) = 0
    BY Zenon, <1>2 DEF InSequence
  <2> QED
    BY Zenon, <1>1, <2>1, Distances
<1>5. InFlight(s) # 0 /\ InFlight(s) \in Nat /\ InFlight(r) \in Nat /\ window \in Nat /\ 1 <= window
  BY Zenon, <1>1, Far, WindowType DEF Timed
<1>6. r.owes /\ r.sendAckIn # None
  <2>1. Sent(s) # s.txAcked
    BY Zenon, <1>1, <1>5, Distinct
  <2> QED
    BY Zenon, <1>3, <1>4, <2>1 DEF Timed
<1>7. ASSUME r.sendAckIn = 0 PROVE FALSE
  <2>1. ~CanSend(r)
    BY Zenon, <1>6, <1>7 DEF Yields, AckDue
  <2>2. InFlight(r) >= window
    <3>1. ~(RemoteWindow(r) > 1) /\ RemoteWindow(r) # 1
      BY Zenon, <1>6, <2>1 DEF CanSend
    <3> QED
      BY <1>5, <3>1 DEF RemoteWindow
  <2>3. Minus(Sent(r), s.rxAcked) >= window /\ Minus(Sent(r), s.rxAcked) \in Nat
    BY Zenon, <1>1, <1>3, <1>5, <2>2
  <2>4. Minus(Sent(s), r.rxAcked) < window
    <3>1. ~(Minus(Sent(r), s.rxAcked) < window)
      BY <1>5, <2>3
    <3> QED
      BY Zenon, <3>1 DEF Spare
  <2>5. InFlight(s) < window
    BY Zenon, <1>1, <1>3, <2>4
  <2>6. s.owes
    <3>1. Minus(Sent(r), r.txAcked) # 0
      BY <1>1, <1>5, <2>2
    <3>2. Sent(r) # r.txAcked
      BY Zenon, <1>1, <3>1, Distinct
    <3> QED
      BY Zenon, <1>3, <1>4, <3>2 DEF Timed
  <2>7. AckDue(s)
    <3>1. Minus(s.rx, s.rxAcked) >= window
      BY Zenon, <1>4, <2>3
    <3>2. OwnWindowFree(s) = 0
      BY Zenon, <3>1 DEF OwnWindowFree
    <3>3. OwnWindowFree(s) <= 2
      BY <3>2
    <3> QED
      BY Zenon, <3>3 DEF AckDue
  <2>8. CanSend(s)
    <3>1. RemoteWindow(s) > 1 \/ RemoteWindow(s) = 1
      BY <1>5, <2>5 DEF RemoteWindow
    <3> QED
      BY Zenon, <2>6, <3>1 DEF CanSend
  <2> QED
    BY Zenon, <2>6, <2>7, <2>8 DEF Yields
<1> QED
  BY Zenon, <1>3, <1>6, <1>7

\* The acknowledgement that an end awaits comes before its timer runs out
LEMMA TickInTime ==
    ASSUME NEW s \in Session, NEW r \in Session, NEW fs, NEW fr, window \in Windows,
           Order(window, s, r), Order(window, r, s), Timed(s), Timed(r), Spare(window, s, r),
           InSequence(s, r, fs), InSequence(r, s, fr),
           AcksInOrder(s, r, fs), AcksInOrder(r, s, fr), InTime(s, r),
           s.closed = None => fr = <<>> /\ ~Yields(s) /\ s.ackIn # 0,
           r.closed = None => fs = <<>> /\ ~Yields(r) /\ r.ackIn # 0
    PROVE  InTime(Later(s), Later(r))
<1> DEFINE t == Later(s)
           u == Later(r)
<1>1. /\ t.txAcked = s.txAcked /\ t.ackIn = Less(s.ackIn) /\ t.closed = s.closed
      /\ u.rxAcked = r.rxAcked /\ u.sendAckIn = Less(r.sendAckIn) /\ u.closed = r.closed
  BY Zenon, TickFields
<1> HIDE DEF t, u
<1> SUFFICES ASSUME t.closed = None, u.closed = None
             PROVE  /\ t.ackIn # 0
                    /\ t.ackIn # None /\ u.rxAcked = t.txAcked =>
                          t.ackIn >= Remaining(u) + (AckTimeout - SendAckTimeout)
  BY Zenon DEF InTime, t, u
<1>2. /\ s.closed = None /\ r.closed = None /\ fs = <<>> /\ fr = <<>>
      /\ ~Yields(s) /\ ~Yields(r) /\ s.ackIn # 0
  BY Zenon, <1>1
<1>3. s.ackIn \in SendTimer \cup AckTimer /\ r.sendAckIn \in SendTimer \cup AckTimer
  BY Zenon, Numbers
<1>4. CASE s.ackIn = None
  BY Zenon, <1>1, <1>3, <1>4, LessCases, TimerValues
<1>5. CASE s.ackIn # None
  <2>1. r.rxAcked = s.txAcked /\ r.sendAckIn # None /\ r.sendAckIn # 0
    BY Zenon, <1>2, <1>5, AckOnItsWay
  <2>2. s.ackIn \in Nat /\ t.ackIn = s.ackIn - 1
    BY Zenon, <1>1, <1>2, <1>3, <1>5, LessCases
  <2>3. r.sendAckIn \in Nat /\ u.sendAckIn = r.sendAckIn - 1 /\ u.sendAckIn # None
    BY Zenon, <1>1, <1>3, <2>1, LessCases
  <2>4. s.ackIn >= r.sendAckIn + (AckTimeout - SendAckTimeout)
    BY Zenon, <1>2, <1>5, <2>1 DEF InTime, Remaining
  <2>5. Remaining(u) = r.sendAckIn - 1
    BY Zenon, <2>3 DEF Remaining
  <2>6. SendAckTimeout \in Nat /\ AckTimeout \in Nat /\ SendAckTimeout < AckTimeout
    BY SMTT(30), BtpAssumption
  <2>7. t.ackIn # 0
    BY SMTT(30), <2>1, <2>2, <2>3, <2>4, <2>6
  <2>8. t.ackIn >= Remaining(u) + (AckTimeout - SendAckTimeout)
    BY SMTT(30), <2>2, <2>3, <2>4, <2>5, <2>6
  <2> QED
    BY Zenon, <2>7, <2>8
<1> QED
  BY Zenon, <1>4, <1>5

\* What time passing leaves of an end
LEMMA TickTimed ==
    ASSUME NEW s \in Session, Timed(s)
    PROVE  /\ Timed(Later(s)) /\ Later(s) \in Session
           /\ Sent(Later(s)) = Sent(s) /\ \A taken : Left(Later(s), taken) = Left(s, taken)
           /\ \A taken : Sending(s, taken) => Sending(Later(s), taken)
<1> DEFINE h == Later(s)
<1>1. /\ h \in Session
      /\ h.tx = s.tx /\ h.txAcked = s.txAcked /\ h.rx = s.rx /\ h.rxAcked = s.rxAcked
      /\ h.owes = s.owes /\ h.sendAckIn = Less(s.sendAckIn) /\ h.ackIn = Less(s.ackIn)
      /\ h.closed = s.closed /\ h.out = s.out /\ h.sent = s.sent
      /\ h.in = s.in /\ h.got = s.got
  BY Zenon, TickFields
<1> HIDE DEF h
<1>2. s.ackIn \in SendTimer \cup AckTimer /\ s.sendAckIn \in SendTimer \cup AckTimer
  BY Zenon, Numbers
<1>3. h.sendAckIn = None <=> s.sendAckIn = None
  BY Zenon, <1>1, <1>2, LessCases
<1>4. h.ackIn = None <=> s.ackIn = None
  BY Zenon, <1>1, <1>2, LessCases
<1>5. Timed(h)
  BY Zenon, <1>1, <1>3, <1>4 DEF Timed, InFlight
<1>6. Sent(h) = Sent(s) /\ \A taken : Left(h, taken) = Left(s, taken)
  BY Zenon, <1>1 DEF Sent, Left
<1>7. \A taken : Sending(s, taken) => Sending(h, taken)
  BY Zenon, <1>1 DEF Sending
<1> QED
  BY Zenon, <1>1, <1>5, <1>6, <1>7 DEF h

\* One direction while time passes
LEMMA TickWay ==
    ASSUME NEW s \in Session, NEW r \in Session, Timed(s), Timed(r), NEW w,
           NEW frames, NEW taken, NEW given, Way(w, s, r, frames, taken, given),
           InTime(Later(s), Later(r))
    PROVE  Way(w, Later(s), Later(r), frames, taken, given)
<1> DEFINE t == Later(s)
           u == Later(r)
<1>1. /\ t.txAcked = s.txAcked /\ t.rxAcked = s.rxAcked
      /\ u.txAcked = r.txAcked /\ u.rxAcked = r.rxAcked /\ u.rx = r.rx /\ u.closed = r.closed
      /\ u.in = r.in /\ u.got = r.got
  BY Zenon, TickFields
<1>2. Sent(t) = Sent(s) /\ Left(t, taken) = Left(s, taken)
  BY Zenon, TickTimed
<1> HIDE DEF t, u
<1>3. /\ Order(w, s, r) /\ InSequence(s, r, frames) /\ AcksInOrder(s, r, frames)
      /\ Segmented(s, r, frames, taken, given)
  BY Zenon DEF Way
<1>4. Order(w, t, u)
  BY Zenon, <1>1, <1>2, <1>3 DEF Order
<1>5. InSequence(t, u, frames)
  BY Zenon, <1>1, <1>2, <1>3 DEF InSequence
<1>6. AcksInOrder(t, u, frames)
  BY Zenon, <1>1, <1>3 DEF AcksInOrder
<1>7. Segmented(t, u, frames, taken, given)
  BY Zenon, <1>1, <1>2, <1>3 DEF Segmented, Reached
<1> QED
  BY Zenon, <1>4, <1>5, <1>6, <1>7 DEF Way, t, u

\* Time passing keeps both directions in order
LEMMA TimePasses ==
    ASSUME NEW s \in Session, NEW r \in Session, window \in Windows,
           NEW fs, NEW fr, NEW ts, NEW tr, NEW gs, NEW gr,
           Joint(window, s, r, fs, fr, ts, tr, gs, gr),
           s.closed = None => fr = <<>> /\ ~Yields(s) /\ s.ackIn # 0,
           r.closed = None => fs = <<>> /\ ~Yields(r) /\ r.ackIn # 0
    PROVE  Joint(window, Later(s), Later(r), fs, fr, ts, tr, gs, gr)
<1>1. /\ Timed(s) /\ Timed(r) /\ Sending(s, ts) /\ Sending(r, tr)
      /\ Numbered(ts, gs) /\ Numbered(tr, gr)
      /\ Way(window, s, r, fs, ts, gs) /\ Way(window, r, s, fr, tr, gr) /\ Spare(window, s, r)
  BY Zenon DEF Joint
<1>2. /\ Order(window, s, r) /\ InSequence(s, r, fs) /\ AcksInOrder(s, r, fs) /\ InTime(s, r)
      /\ Order(window, r, s) /\ InSequence(r, s, fr) /\ AcksInOrder(r, s, fr) /\ InTime(r, s)
  BY Zenon, <1>1 DEF Way
<1>3. InTime(Later(s), Later(r))
  BY Zenon, <1>1, <1>2, TickInTime
<1>4. InTime(Later(r), Later(s))
  <2>1. Spare(window, r, s)
    BY Zenon, <1>1 DEF Spare
  <2> QED
    BY Zenon, <1>1, <1>2, <2>1, TickInTime
<1>5. /\ Timed(Later(s)) /\ Timed(Later(r)) /\ Sending(Later(s), ts) /\ Sending(Later(r), tr)
  BY Zenon, <1>1, TickTimed
<1>6. Way(window, Later(s), Later(r), fs, ts, gs) /\ Way(window, Later(r), Later(s), fr, tr, gr)
  BY Zenon, <1>1, <1>3, <1>4, TickWay
<1>7. Spare(window, Later(s), Later(r))
  <2>1. Later(s).rxAcked = s.rxAcked /\ Later(r).rxAcked = r.rxAcked
    BY Zenon, TickFields
  <2>2. Sent(Later(s)) = Sent(s) /\ Sent(Later(r)) = Sent(r)
    BY Zenon, <1>1, TickTimed
  <2> QED
    BY Zenon, <1>1, <2>1, <2>2 DEF Spare
<1> QED
  BY Zenon, <1>1, <1>5, <1>6, <1>7 DEF Joint

-----------------------------------------------------------------------------
\* The two directions, seen from one end
JointAt(e) ==
    Joint(window, session[e], session[Peer(e)], link[e], link[Peer(e)],
          accepted[e], accepted[Peer(e)], handed[e], handed[Peer(e)])

\* The bound on what is sent
Bounded == Len(accepted["client"]) + Len(accepted["server"]) <= MaxMessages

\* The inductive invariant
IInv == TypeOK /\ OnlyLossCloses /\ Bounded /\ \A e \in Ends : JointAt(e)

\* The two ends
LEMMA TwoEnds ==
    \A e \in Ends : /\ Peer(e) \in Ends /\ Peer(e) # e /\ Peer(Peer(e)) = e
                    /\ \A x \in Ends : x = e \/ x = Peer(e)
BY DEF Ends, Peer

\* It does not matter from which end one looks
LEMMA JointTurns ==
    ASSUME NEW w, NEW s, NEW r, NEW fs, NEW fr, NEW ts, NEW tr, NEW gs, NEW gr,
           Joint(w, s, r, fs, fr, ts, tr, gs, gr)
    PROVE  Joint(w, r, s, fr, fs, tr, ts, gr, gs)
<1>1. Spare(w, r, s)
  BY Zenon DEF Joint, Spare
<1> QED
  BY Zenon, <1>1 DEF Joint

\* What is known of each end
LEMMA EndTypes ==
    ASSUME TypeOK, NEW e \in Ends
    PROVE  /\ window \in Windows
           /\ session[e] \in Session /\ link[e] \in Seq(Frame)
           /\ accepted[e] \in Seq(Message) /\ handed[e] \in Seq(Message \cup {Garbled})
           /\ session[Peer(e)] \in Session /\ link[Peer(e)] \in Seq(Frame)
           /\ accepted[Peer(e)] \in Seq(Message)
           /\ handed[Peer(e)] \in Seq(Message \cup {Garbled})
<1>1. Peer(e) \in Ends
  BY Zenon, TwoEnds
<1>2. /\ session \in [Ends -> Session] /\ link \in [Ends -> Seq(Frame)]
      /\ accepted \in [Ends -> Seq(Message)]
      /\ handed \in [Ends -> Seq(Message \cup {Garbled})] /\ window \in Windows
  BY Zenon DEF TypeOK
<1> QED
  BY Zenon, <1>1, <1>2

\* A step that moves one end
LEMMA EndSteps ==
    ASSUME IInv, NEW e \in Ends, NEW t \in Session, OnlyLossCloses',
           session' = [session EXCEPT ![e] = t], window' = window,
           link' \in [Ends -> Seq(Frame)], accepted' \in [Ends -> Seq(Message)],
           handed' \in [Ends -> Seq(Message \cup {Garbled})], Bounded',
           Joint(window, t, session[Peer(e)], link'[e], link'[Peer(e)],
                 accepted'[e], accepted'[Peer(e)], handed'[e], handed'[Peer(e)])
    PROVE  IInv'
<1> DEFINE p == Peer(e)
<1>1. p \in Ends /\ p # e /\ Peer(p) = e /\ \A x \in Ends : x = e \/ x = p
  BY Zenon, TwoEnds
<1>2. session \in [Ends -> Session] /\ window \in Windows
  BY Zenon DEF IInv, TypeOK
<1>3. session' \in [Ends -> Session] /\ session'[e] = t /\ session'[p] = session[p]
  BY Zenon, <1>1, <1>2
<1>4. TypeOK'
  BY Zenon, <1>2, <1>3 DEF TypeOK
<1>5. Joint(window', session'[e], session'[p], link'[e], link'[p],
            accepted'[e], accepted'[p], handed'[e], handed'[p])
  BY Zenon, <1>3
<1>6. Joint(window', session'[p], session'[e], link'[p], link'[e],
            accepted'[p], accepted'[e], handed'[p], handed'[e])
  BY Zenon, <1>5, JointTurns
<1>7. JointAt(e)' /\ JointAt(p)'
  BY Zenon, <1>1, <1>5, <1>6 DEF JointAt
<1>8. \A x \in Ends : JointAt(x)'
  BY Zenon, <1>1, <1>7
<1> QED
  BY Zenon, <1>4, <1>8 DEF IInv

\* A step that moves one end, and closes nothing
LEMMA EndMoves ==
    ASSUME IInv, NEW e \in Ends, NEW t \in Session, t.closed = session[e].closed,
           session' = [session EXCEPT ![e] = t], window' = window,
           link' \in [Ends -> Seq(Frame)], accepted' \in [Ends -> Seq(Message)],
           handed' \in [Ends -> Seq(Message \cup {Garbled})], Bounded',
           Joint(window, t, session[Peer(e)], link'[e], link'[Peer(e)],
                 accepted'[e], accepted'[Peer(e)], handed'[e], handed'[Peer(e)])
    PROVE  IInv'
<1> DEFINE p == Peer(e)
<1>1. p \in Ends /\ p # e /\ Peer(p) = e /\ \A x \in Ends : x = e \/ x = p
  BY Zenon, TwoEnds
<1>2. session \in [Ends -> Session] /\ window \in Windows
  BY Zenon DEF IInv, TypeOK
<1>3. session' \in [Ends -> Session] /\ session'[e] = t /\ session'[p] = session[p]
  BY Zenon, <1>1, <1>2
<1>4. \A x \in Ends : session'[x].closed = session[x].closed
  BY Zenon, <1>1, <1>3
<1>5. OnlyLossCloses'
  <2>1. OnlyLossCloses
    BY Zenon DEF IInv
  <2>2. \A x \in Ends : Peer(x) \in Ends
    BY Zenon, TwoEnds
  <2> QED
    BY Zenon, <1>4, <2>1, <2>2 DEF OnlyLossCloses
<1> QED
  BY Zenon, <1>5, EndSteps

\* A step that only moves frames and Sessions keeps the bound
LEMMA BoundKept == ASSUME Bounded, accepted' = accepted PROVE Bounded'
BY Zenon DEF Bounded

\* Session::poll_send with a message under way
LEMMA SendSegmentKeeps ==
    ASSUME IInv, NEW e \in Ends, SendSegment(e)
    PROVE  IInv'
<1> DEFINE p == Peer(e)
           s == session[e]
           r == session[p]
           f == Segment(s)
           t == AfterSegment(s)
<1>1. /\ CanSend(s) /\ s.out # None
      /\ link' = [link EXCEPT ![e] = Append(@, f)]
      /\ session' = [session EXCEPT ![e] = t]
      /\ window' = window /\ accepted' = accepted /\ handed' = handed
  BY Zenon DEF SendSegment, Segment, AfterSegment
<1>2. /\ window \in Windows /\ s \in Session /\ r \in Session /\ link[e] \in Seq(Frame)
      /\ accepted[e] \in Seq(Message) /\ link[p] \in Seq(Frame)
  BY Zenon, EndTypes DEF IInv
<1>3. Joint(window, s, r, link[e], link[p], accepted[e], accepted[p], handed[e], handed[p])
  BY Zenon DEF IInv, JointAt
<1>4. /\ t \in Session /\ f \in Frame /\ t.closed = s.closed
      /\ Joint(window, t, r, Append(link[e], f), link[p], accepted[e], accepted[p],
               handed[e], handed[p])
  BY Zenon, <1>1, <1>2, <1>3, SegmentSent
<1> HIDE DEF t, f
<1>5. link' = [link EXCEPT ![e] = Append(link[e], f)] /\ link \in [Ends -> Seq(Frame)]
  BY Zenon, <1>1 DEF IInv, TypeOK
<1>6. Append(link[e], f) \in Seq(Frame)
  BY <1>2, <1>4
<1>7. link' \in [Ends -> Seq(Frame)] /\ link'[e] = Append(link[e], f) /\ link'[p] = link[p]
  BY Zenon, <1>5, <1>6, TwoEnds
<1>8. Bounded' /\ accepted' \in [Ends -> Seq(Message)]
      /\ handed' \in [Ends -> Seq(Message \cup {Garbled})]
  BY Zenon, <1>1, BoundKept DEF IInv, TypeOK
<1>9. Joint(window, t, r, link'[e], link'[p], accepted'[e], accepted'[p],
            handed'[e], handed'[p])
  BY Zenon, <1>1, <1>4, <1>7
<1> QED
  BY Zenon, <1>1, <1>4, <1>7, <1>8, <1>9, EndMoves

\* Session::poll_send with nothing to send but the acknowledgement
LEMMA SendAckKeeps ==
    ASSUME IInv, NEW e \in Ends, SendAck(e)
    PROVE  IInv'
<1> DEFINE p == Peer(e)
           s == session[e]
           r == session[p]
           f == AckFrame(s)
           t == Header(s)
<1>1. /\ CanSend(s) /\ s.owes
      /\ link' = [link EXCEPT ![e] = Append(@, f)]
      /\ session' = [session EXCEPT ![e] = t]
      /\ window' = window /\ accepted' = accepted /\ handed' = handed
  BY Zenon DEF SendAck, AckFrame
<1>2. /\ window \in Windows /\ s \in Session /\ r \in Session /\ link[e] \in Seq(Frame)
      /\ accepted[e] \in Seq(Message) /\ link[p] \in Seq(Frame)
  BY Zenon, EndTypes DEF IInv
<1>3. Joint(window, s, r, link[e], link[p], accepted[e], accepted[p], handed[e], handed[p])
  BY Zenon DEF IInv, JointAt
<1>4. /\ t \in Session /\ f \in Frame /\ t.closed = s.closed
      /\ Joint(window, t, r, Append(link[e], f), link[p], accepted[e], accepted[p],
               handed[e], handed[p])
  BY Zenon, <1>1, <1>2, <1>3, AckSent
<1> HIDE DEF t, f
<1>5. link' = [link EXCEPT ![e] = Append(link[e], f)] /\ link \in [Ends -> Seq(Frame)]
  BY Zenon, <1>1 DEF IInv, TypeOK
<1>6. Append(link[e], f) \in Seq(Frame)
  BY <1>2, <1>4
<1>7. link' \in [Ends -> Seq(Frame)] /\ link'[e] = Append(link[e], f) /\ link'[p] = link[p]
  BY Zenon, <1>5, <1>6, TwoEnds
<1>8. Bounded' /\ accepted' \in [Ends -> Seq(Message)]
      /\ handed' \in [Ends -> Seq(Message \cup {Garbled})]
  BY Zenon, <1>1, BoundKept DEF IInv, TypeOK
<1>9. Joint(window, t, r, link'[e], link'[p], accepted'[e], accepted'[p],
            handed'[e], handed'[p])
  BY Zenon, <1>1, <1>4, <1>7
<1> QED
  BY Zenon, <1>1, <1>4, <1>7, <1>8, <1>9, EndMoves

\* Session::send
LEMMA SendKeeps ==
    ASSUME IInv, NEW e \in Ends, NEW length \in Lengths, Send(e, length)
    PROVE  IInv'
<1> DEFINE p == Peer(e)
           s == session[e]
           r == session[p]
           m == [n |-> Len(accepted[e]) + 1, length |-> length]
           t == [s EXCEPT !.out = m]
           q == Append(accepted[e], m)
           a == Len(accepted[e])
           b == Len(accepted[p])
<1>1. /\ s.out = None
      /\ Len(accepted["client"]) + Len(accepted["server"]) < MaxMessages
      /\ session' = [session EXCEPT ![e].out = m]
      /\ accepted' = [accepted EXCEPT ![e] = Append(@, m)]
      /\ window' = window /\ link' = link /\ handed' = handed
  BY Zenon DEF Send
<1>2. /\ window \in Windows /\ s \in Session /\ r \in Session /\ link[e] \in Seq(Frame)
      /\ accepted[e] \in Seq(Message) /\ handed[e] \in Seq(Message \cup {Garbled})
      /\ accepted[p] \in Seq(Message)
  BY Zenon, EndTypes DEF IInv
<1>3. Joint(window, s, r, link[e], link[p], accepted[e], accepted[p], handed[e], handed[p])
  BY Zenon DEF IInv, JointAt
<1>4. Len(accepted[e]) \in Nat /\ Len(accepted[p]) \in Nat
  BY Zenon, <1>2, Appended
<1>a. Len(accepted'[e]) \in Nat /\ Len(accepted'[p]) \in Nat
  <2>1. accepted'[e] = q /\ accepted'[p] = accepted[p]
    BY Zenon, <1>1, TwoEnds DEF IInv, TypeOK
  <2>2. Len(q) \in Nat
    BY <1>2, Appended
  <2> QED
    BY Zenon, <1>4, <2>1, <2>2
<1>5. /\ Len(accepted[e]) + Len(accepted[p]) < MaxMessages
      /\ Bounded' <=> Len(accepted'[e]) + Len(accepted'[p]) <= MaxMessages
  <2>1. CASE e = "client"
    <3>1. p = "server"
      BY Zenon, <2>1 DEF Peer
    <3> QED
      BY Zenon, <1>1, <2>1, <3>1 DEF Bounded
  <2>2. CASE e = "server"
    <3>1. p = "client"
      BY <2>2 DEF Peer
    <3>2. Len(accepted[e]) + Len(accepted[p]) = Len(accepted[p]) + Len(accepted[e])
      <4>1. \A x, y \in Nat : x + y = y + x
        OBVIOUS
      <4> QED
        BY Zenon, <1>4, <4>1
    <3>3. /\ Len(accepted["client"]) + Len(accepted["server"]) < MaxMessages
          /\ Bounded' <=> Len(accepted'["client"]) + Len(accepted'["server"]) <= MaxMessages
      BY Zenon, <1>1 DEF Bounded
    <3>4. Len(accepted'[p]) + Len(accepted'[e]) = Len(accepted'[e]) + Len(accepted'[p])
      <4>1. \A x, y \in Nat : x + y = y + x
        OBVIOUS
      <4> QED
        BY Zenon, <1>a, <4>1
    <3> QED
      BY Zenon, <2>2, <3>1, <3>2, <3>3, <3>4
  <2> QED
    BY Zenon, <2>1, <2>2 DEF Ends
<1>b. MaxMessages \in Nat
  BY Zenon, BtpAssumption
<1>6. m \in Message /\ m.n = Len(accepted[e]) + 1
  <2>1. Len(accepted[e]) + 1 \in 1 .. MaxMessages
    <3>1. a \in Nat /\ b \in Nat /\ a + b < MaxMessages
      BY Zenon, <1>4, <1>5
    <3> HIDE DEF a, b
    <3>2. a + 1 \in 1 .. MaxMessages
      BY ONLY <3>1, <1>b
    <3> QED
      BY Zenon, <3>2 DEF a
  <2> QED
    BY <2>1 DEF Message
<1> HIDE DEF m
<1>7. /\ t \in Session /\ t.closed = s.closed
      /\ Joint(window, t, r, link[e], link[p], q, accepted[p], handed[e], handed[p])
  BY Zenon, <1>1, <1>2, <1>3, <1>6, MessageTaken
<1>8. Len(q) = Len(accepted[e]) + 1 /\ q \in Seq(Message)
  BY <1>2, <1>6, Appended
<1>9. /\ accepted' = [accepted EXCEPT ![e] = q] /\ accepted \in [Ends -> Seq(Message)]
      /\ session' = [session EXCEPT ![e] = t]
  BY Zenon, <1>1 DEF IInv, TypeOK
<1> HIDE DEF q, t
<1>10. accepted' \in [Ends -> Seq(Message)] /\ accepted'[e] = q /\ accepted'[p] = accepted[p]
  BY Zenon, <1>8, <1>9, TwoEnds
<1>11. Bounded'
  <2>1. Len(q) + Len(accepted[p]) <= MaxMessages
    <3>1. a \in Nat /\ b \in Nat /\ a + b < MaxMessages /\ Len(q) = a + 1
      BY Zenon, <1>4, <1>5, <1>8
    <3> HIDE DEF a, b
    <3>2. a + 1 + b <= MaxMessages
      BY ONLY <3>1, <1>b
    <3> QED
      BY Zenon, <3>1, <3>2 DEF b
  <2> QED
    BY Zenon, <1>5, <1>10, <2>1
<1>12. /\ link' \in [Ends -> Seq(Frame)] /\ handed' \in [Ends -> Seq(Message \cup {Garbled})]
  BY Zenon, <1>1 DEF IInv, TypeOK
<1>13. Joint(window, t, r, link'[e], link'[p], accepted'[e], accepted'[p],
             handed'[e], handed'[p])
  BY Zenon, <1>1, <1>7, <1>10
<1> QED
  BY Zenon, <1>1, <1>7, <1>9, <1>10, <1>11, <1>12, <1>13, EndMoves

\* None is none of the ways a Session closes
LEMMA NoneIsOpen == "Gone" # None /\ "Timeout" # None /\ "Sequence" # None /\ "Malformed" # None
BY Zenon, BtpAssumption

\* Session::poll_timeout
LEMMA TimeoutKeeps ==
    ASSUME IInv, NEW e \in Ends, Timeout(e)
    PROVE  IInv'
<1> DEFINE p == Peer(e)
           s == session[e]
           r == session[p]
           t == SetClosed(s, "Timeout")
<1>1. /\ s.closed = None /\ s.ackIn = 0 /\ session' = [session EXCEPT ![e].closed = "Timeout"]
      /\ window' = window /\ link' = link /\ accepted' = accepted /\ handed' = handed
  BY Zenon DEF Timeout
<1>2. s \in Session /\ r \in Session /\ session \in [Ends -> Session]
  BY Zenon, EndTypes DEF IInv, TypeOK
<1>3. Joint(window, s, r, link[e], link[p], accepted[e], accepted[p], handed[e], handed[p])
  BY Zenon DEF IInv, JointAt
<1>4. "Timeout" \in Closings /\ "Timeout" # None
  BY Zenon, NoneIsOpen DEF Closings
<1>5. /\ t \in Session /\ t.closed = "Timeout"
      /\ Joint(window, t, r, link[e], link[p], accepted[e], accepted[p], handed[e], handed[p])
  BY Zenon, <1>2, <1>3, <1>4, EndClosed
<1>6. r.closed # None
  BY Zenon, <1>1, <1>3 DEF Joint, Way, InTime
<1>7. p \in Ends /\ p # e /\ Peer(p) = e /\ \A x \in Ends : x = e \/ x = p
  BY Zenon, TwoEnds
<1>8. r.closed = "Gone"
  <2>1. r.closed = "Gone" \/ (r.closed = "Timeout" /\ s.closed = "Gone")
    BY Zenon, <1>6, <1>7 DEF IInv, OnlyLossCloses
  <2> QED
    BY Zenon, <1>1, <2>1, NoneIsOpen
<1>9. session' = [session EXCEPT ![e] = t]
  BY Zenon, <1>1 DEF SetClosed
<1> HIDE DEF t
<1>10. session'[e] = t /\ session'[p] = session[p]
  BY Zenon, <1>2, <1>7, <1>9
<1>11. OnlyLossCloses'
  BY Zenon, <1>5, <1>7, <1>8, <1>10 DEF OnlyLossCloses
<1>12. /\ link' \in [Ends -> Seq(Frame)] /\ handed' \in [Ends -> Seq(Message \cup {Garbled})]
       /\ accepted' \in [Ends -> Seq(Message)] /\ Bounded'
  BY Zenon, <1>1, BoundKept DEF IInv, TypeOK
<1>13. Joint(window, t, r, link'[e], link'[p], accepted'[e], accepted'[p],
             handed'[e], handed'[p])
  BY Zenon, <1>1, <1>5
<1> QED
  BY Zenon, <1>1, <1>5, <1>9, <1>11, <1>12, <1>13, EndSteps

\* One end is switched off or out of range
LEMMA VanishKeeps ==
    ASSUME IInv, NEW e \in Ends, Vanish(e)
    PROVE  IInv'
<1> DEFINE p == Peer(e)
           s == session[e]
           r == session[p]
           t == SetClosed(s, "Gone")
<1>1. /\ \A x \in Ends : session[x].closed = None
      /\ session' = [session EXCEPT ![e].closed = "Gone"]
      /\ link' = [link EXCEPT ![Peer(e)] = <<>>]
      /\ window' = window /\ accepted' = accepted /\ handed' = handed
  BY Zenon DEF Vanish
<1>2. /\ s \in Session /\ r \in Session /\ session \in [Ends -> Session]
      /\ link \in [Ends -> Seq(Frame)]
  BY Zenon, EndTypes DEF IInv, TypeOK
<1>3. Joint(window, s, r, link[e], link[p], accepted[e], accepted[p], handed[e], handed[p])
  BY Zenon DEF IInv, JointAt
<1>4. "Gone" \in Closings /\ "Gone" # None
  BY Zenon, NoneIsOpen DEF Closings
<1>5. /\ t \in Session /\ t.closed = "Gone"
      /\ Joint(window, t, r, link[e], <<>>, accepted[e], accepted[p], handed[e], handed[p])
  BY Zenon, <1>2, <1>3, <1>4, EndClosed
<1>6. p \in Ends /\ p # e /\ Peer(p) = e /\ \A x \in Ends : x = e \/ x = p
  BY Zenon, TwoEnds
<1>7. session' = [session EXCEPT ![e] = t]
  BY Zenon, <1>1 DEF SetClosed
<1> HIDE DEF t
<1>8. session'[e] = t /\ session'[p] = session[p]
  BY Zenon, <1>2, <1>6, <1>7
<1>9. OnlyLossCloses'
  BY Zenon, <1>1, <1>5, <1>6, <1>8 DEF OnlyLossCloses
<1>10. <<>> \in Seq(Frame)
  OBVIOUS
<1>11. link' \in [Ends -> Seq(Frame)] /\ link'[p] = <<>> /\ link'[e] = link[e]
  BY Zenon, <1>1, <1>2, <1>6, <1>10
<1>12. /\ handed' \in [Ends -> Seq(Message \cup {Garbled})]
       /\ accepted' \in [Ends -> Seq(Message)] /\ Bounded'
  BY Zenon, <1>1, BoundKept DEF IInv, TypeOK
<1>13. Joint(window, t, r, link'[e], link'[p], accepted'[e], accepted'[p],
             handed'[e], handed'[p])
  BY Zenon, <1>1, <1>5, <1>11
<1> QED
  BY Zenon, <1>1, <1>5, <1>7, <1>9, <1>11, <1>12, <1>13, EndSteps

\* The Session when a frame is taken, and the messages given
Taken(s, f) ==
    IF f.length = 0 THEN Noted(s, f)
    ELSE SetIn(Noted(s, f), IF f.ending THEN None ELSE Assembled(s, f),
                            IF f.ending THEN 0 ELSE s.got + f.length)
Given(s, f, given) ==
    IF f.length # 0 /\ f.ending THEN Append(given, Assembled(s, f)) ELSE given

\* The fields of a Session when a frame is taken
LEMMA TakenFields ==
    ASSUME NEW s \in Session, NEW f \in Frame, NEW given
    PROVE  /\ Taken(s, f) \in Session /\ ReceiveMoved(s, Taken(s, f), f)
           /\ Reassembled(s, Taken(s, f), f, given, Given(s, f, given))
<1> DEFINE g == Noted(s, f)
           t == Taken(s, f)
           o == IF f.ending THEN None ELSE Assembled(s, f)
           n == IF f.ending THEN 0 ELSE s.got + f.length
<1>1. /\ g \in Session
      /\ g.tx = s.tx /\ g.txAcked = IF f.ack = None THEN s.txAcked ELSE f.ack
      /\ g.rx = f.seq /\ g.rxAcked = s.rxAcked /\ g.owes = TRUE
      /\ g.sendAckIn = IF s.sendAckIn = None THEN SendAckTimeout ELSE s.sendAckIn
      /\ g.ackIn = IF f.ack = None THEN s.ackIn
                   ELSE IF Minus(f.ack, s.txAcked) = InFlight(s) THEN None ELSE AckTimeout
      /\ g.closed = s.closed /\ g.out = s.out /\ g.sent = s.sent
      /\ g.in = s.in /\ g.got = s.got
  BY Zenon, NotedFields
<1>2. ReceiveMoved(s, g, f)
  BY Zenon, <1>1 DEF ReceiveMoved
<1>3. t = IF f.length = 0 THEN g ELSE SetIn(g, o, n)
  BY Zenon DEF Taken
<1>4. o \in Incoming /\ n \in Nat
  <2>1. f.message \in Message \cup {None} /\ f.length \in Nat /\ s.got \in Nat
    BY Zenon, FrameFields, SessionShape
  <2>2. Assembled(s, f) \in Incoming /\ None \in Incoming
    BY Zenon, <2>1 DEF Assembled, Incoming
  <2>3. s.got + f.length \in Nat /\ 0 \in Nat
    BY <2>1
  <2> QED
    BY Zenon, <2>2, <2>3
<1> HIDE DEF g, t
<1>5. CASE f.length = 0
  <2>1. t = g /\ Given(s, f, given) = given
    BY Zenon, <1>3, <1>5 DEF Given
  <2> QED
    BY Zenon, <1>1, <1>2, <1>5, <2>1 DEF Reassembled, t
<1>6. CASE f.length # 0
  <2>1. t = SetIn(g, o, n)
    BY Zenon, <1>3, <1>6
  <2>2. Given(s, f, given) = IF f.ending THEN Append(given, Assembled(s, f)) ELSE given
    BY Zenon, <1>6 DEF Given
  <2>3. t.in = o /\ t.got = n
    <3> HIDE DEF o, n
    <3>1. SetIn(g, o, n).in = o /\ SetIn(g, o, n).got = n
      BY ZenonT(40), <1>1, <1>4, InFields
    <3> QED
      BY Zenon, <2>1, <3>1
  <2>4. Reassembled(s, t, f, given, Given(s, f, given))
    BY Zenon, <1>6, <2>2, <2>3 DEF Reassembled
  <2> HIDE DEF o, n
  <2> DEFINE x == SetIn(g, o, n)
  <2>a. g \in Session
    BY Zenon, <1>1
  <2>5. x \in Session /\ x.tx = g.tx /\ x.txAcked = g.txAcked
    BY ZenonT(40), <1>4, <2>a, InFields
  <2>b. x.rx = g.rx /\ x.rxAcked = g.rxAcked /\ x.owes = g.owes
    BY ZenonT(40), <1>4, <2>a, InFields
  <2>c. x.sendAckIn = g.sendAckIn /\ x.ackIn = g.ackIn /\ x.closed = g.closed
    BY ZenonT(40), <1>4, <2>a, InFields
  <2>d. x.out = g.out /\ x.sent = g.sent
    BY Zenon, <2>a, SessionShape DEF SetIn
  <2>6. x = t
    BY Zenon, <2>1
  <2> HIDE DEF x
  <2>7. ReceiveMoved(s, x, f)
    BY Zenon, <1>2, <2>5, <2>b, <2>c, <2>d DEF ReceiveMoved
  <2> QED
    BY Zenon, <2>4, <2>5, <2>6, <2>7 DEF t
<1> QED
  BY Zenon, <1>5, <1>6

\* Session::receive takes every frame: it is in sequence, in the window and in its place
LEMMA ReceiveTakes ==
    ASSUME IInv, NEW e \in Ends, Receive(e),
           NEW f, f = Head(link[Peer(e)])
    PROVE  LET s == session[e]
               p == Peer(e)
               t == Taken(s, f)
               g == Given(s, f, handed[p])
           IN  /\ t \in Session /\ t.closed = s.closed /\ f \in Frame
               /\ Accepted(s, f, accepted[p], handed[p])
               /\ session' = [session EXCEPT ![e] = t]
               /\ link' = [link EXCEPT ![p] = Tail(@)] /\ link[p] # <<>>
               /\ handed' = [handed EXCEPT ![p] = g]
               /\ window' = window /\ accepted' = accepted
               /\ Joint(window, t, session[p], link[e], Tail(link[p]),
                        accepted[e], accepted[p], handed[e], g)
<1> DEFINE s == session[e]
           p == Peer(e)
           t == Taken(s, f)
           g == Given(s, f, handed[p])
           inSequence == f.seq = Up(s.rx)
           inWindow == Minus(f.seq, s.rxAcked) <= window
           ackGood == f.ack # None => AckInRange(s, f.ack)
           data == f.length > 0
           closed == IF ~inSequence \/ ~inWindow \/ ~ackGood THEN "Sequence"
                     ELSE IF data /\ ~InPlace(s, f) THEN "Malformed" ELSE None
<1>1. /\ s.closed = None /\ link[p] # <<>>
      /\ link' = [link EXCEPT ![p] = Tail(@)]
      /\ session' = [session EXCEPT ![e] =
             IF closed # None THEN [s EXCEPT !.closed = closed]
             ELSE IF ~data THEN Noted(s, f)
             ELSE [Noted(s, f) EXCEPT
                      !.in = IF f.ending THEN None ELSE Assembled(s, f),
                      !.got = IF f.ending THEN 0 ELSE s.got + f.length]]
      /\ handed' = IF closed = None /\ data /\ f.ending
                   THEN [handed EXCEPT ![p] = Append(@, Assembled(s, f))] ELSE handed
      /\ window' = window /\ accepted' = accepted
  BY Zenon DEF Receive
<1>2. /\ window \in Windows /\ s \in Session /\ session[p] \in Session /\ link[p] \in Seq(Frame)
      /\ accepted[p] \in Seq(Message) /\ handed[p] \in Seq(Message \cup {Garbled})
  BY Zenon, EndTypes DEF IInv
<1>3. Joint(window, s, session[p], link[e], link[p], accepted[e], accepted[p],
            handed[e], handed[p])
  BY Zenon DEF IInv, JointAt
<1>4. f \in Frame
  BY Zenon, <1>1, <1>2, Rest
<1>5. t \in Session /\ ReceiveMoved(s, t, f) /\ Reassembled(s, t, f, handed[p], g)
  BY Zenon, <1>2, <1>4, TakenFields
<1> HIDE DEF t, g
<1>a. s.closed = None /\ link[p] # <<>> /\ f = Head(link[p])
  BY Zenon, <1>1
<1> DEFINE r == session[p]
           fs == link[e]
           fr == link[p]
           ts == accepted[e]
           tr == accepted[p]
           gs == handed[e]
           gr == handed[p]
<1> HIDE DEF s, r, fs, fr, ts, tr, gs, gr
<1>b. /\ s \in Session /\ r \in Session /\ t \in Session /\ window \in Windows
      /\ fr \in Seq(Frame) /\ fr # <<>> /\ tr \in Seq(Message)
      /\ gr \in Seq(Message \cup {Garbled})
      /\ Joint(window, s, r, fs, fr, ts, tr, gs, gr) /\ s.closed = None /\ f = Head(fr)
      /\ ReceiveMoved(s, t, f) /\ Reassembled(s, t, f, gr, g)
  BY Zenon, <1>a, <1>2, <1>3, <1>5 DEF s, r, fs, fr, ts, tr, gs, gr
<1>c. Received(window, s, t, r, fs, fr, ts, tr, gs, gr, g)
  BY Zenon, <1>b, FrameReceived
<1>6. /\ Joint(window, t, r, fs, Tail(fr), ts, tr, gs, g)
      /\ inSequence /\ inWindow /\ ackGood /\ Accepted(s, f, tr, gr)
  BY Zenon, <1>b, <1>c DEF Received
<1> USE DEF s, r, fs, fr, ts, tr, gs, gr
<1>7. data <=> f.length # 0
  <2>1. f.length \in Nat
    BY Zenon, <1>4, FrameFields
  <2> QED
    BY <2>1
<1>8. closed = None
  BY Zenon, <1>6, <1>7 DEF Accepted
<1>9. t.closed = s.closed
  BY Zenon, <1>5 DEF ReceiveMoved
<1>10. session' = [session EXCEPT ![e] = t]
  <2>1. t = IF ~data THEN Noted(s, f)
            ELSE [Noted(s, f) EXCEPT
                     !.in = IF f.ending THEN None ELSE Assembled(s, f),
                     !.got = IF f.ending THEN 0 ELSE s.got + f.length]
    BY Zenon, <1>7 DEF t, Taken, SetIn
  <2> HIDE DEF closed, data
  <2> QED
    BY Zenon, <1>1, <1>8, <2>1
<1>11. handed' = [handed EXCEPT ![p] = g]
  <2> HIDE DEF closed, data
  <2>1. handed \in [Ends -> Seq(Message \cup {Garbled})] /\ p \in Ends
    BY Zenon, TwoEnds DEF IInv, TypeOK
  <2>2. CASE data /\ f.ending
    BY Zenon, <1>1, <1>7, <1>8, <2>2 DEF g, Given
  <2>3. CASE ~(data /\ f.ending)
    <3>1. handed' = handed /\ g = handed[p]
      BY Zenon, <1>1, <1>7, <2>3 DEF g, Given
    <3> QED
      BY Zenon, <2>1, <3>1
  <2> QED
    BY Zenon, <2>2, <2>3
<1> QED
  BY Zenon, <1>1, <1>4, <1>5, <1>6, <1>9, <1>10, <1>11 DEF t, g

\* Session::receive
LEMMA ReceiveKeeps ==
    ASSUME IInv, NEW e \in Ends, Receive(e)
    PROVE  IInv'
<1> DEFINE p == Peer(e)
           s == session[e]
           f == Head(link[p])
           t == Taken(s, f)
           g == Given(s, f, handed[p])
<1>1. /\ t \in Session /\ t.closed = s.closed /\ f \in Frame
      /\ Accepted(s, f, accepted[p], handed[p])
      /\ session' = [session EXCEPT ![e] = t]
      /\ link' = [link EXCEPT ![p] = Tail(@)] /\ link[p] # <<>>
      /\ handed' = [handed EXCEPT ![p] = g]
      /\ window' = window /\ accepted' = accepted
      /\ Joint(window, t, session[p], link[e], Tail(link[p]),
               accepted[e], accepted[p], handed[e], g)
  BY Zenon, ReceiveTakes
<1>2. /\ link \in [Ends -> Seq(Frame)] /\ handed \in [Ends -> Seq(Message \cup {Garbled})]
      /\ p \in Ends /\ p # e /\ link[p] \in Seq(Frame)
      /\ handed[p] \in Seq(Message \cup {Garbled})
  BY Zenon, TwoEnds DEF IInv, TypeOK
<1>3. g \in Seq(Message \cup {Garbled})
  <2>1. CASE f.length # 0 /\ f.ending
    <3>1. g = Append(handed[p], f.message) /\ f.message \in Message \cup {Garbled}
      BY Zenon, <1>1, <2>1 DEF Given, Accepted
    <3>2. \A S : \A q \in Seq(S), x \in S : Append(q, x) \in Seq(S)
      OBVIOUS
    <3> QED
      BY Zenon, <1>2, <3>1, <3>2
  <2>2. CASE ~(f.length # 0 /\ f.ending)
    BY Zenon, <1>2, <2>2 DEF Given
  <2> QED
    BY Zenon, <2>1, <2>2
<1>4. Tail(link[p]) \in Seq(Frame)
  BY Zenon, <1>1, <1>2, Rest
<1> HIDE DEF t, g
<1>5. /\ link' \in [Ends -> Seq(Frame)] /\ link'[p] = Tail(link[p]) /\ link'[e] = link[e]
  BY Zenon, <1>1, <1>2, <1>4
<1>6. /\ handed' \in [Ends -> Seq(Message \cup {Garbled})]
      /\ handed'[p] = g /\ handed'[e] = handed[e]
  BY Zenon, <1>1, <1>2, <1>3
<1>7. Bounded' /\ accepted' \in [Ends -> Seq(Message)]
  BY Zenon, <1>1, BoundKept DEF IInv, TypeOK
<1>8. Joint(window, t, session[p], link'[e], link'[p], accepted'[e], accepted'[p],
            handed'[e], handed'[p])
  BY Zenon, <1>1, <1>5, <1>6
<1> QED
  BY Zenon, <1>1, <1>5, <1>6, <1>7, <1>8, EndMoves

\* Time passes
LEMMA TickKeeps ==
    ASSUME IInv, Tick
    PROVE  IInv'
<1>1. /\ \A e \in Ends : session[e].closed = None =>
                            link[Peer(e)] = <<>> /\ ~Yields(session[e]) /\ session[e].ackIn # 0
      /\ session' = [e \in Ends |-> Later(session[e])]
      /\ window' = window /\ link' = link /\ accepted' = accepted /\ handed' = handed
  BY Zenon DEF Tick, Sends, Yields, Later
<1>2. \A e \in Ends : Peer(e) \in Ends /\ Peer(Peer(e)) = e
  BY Zenon, TwoEnds
<1>3. \A e \in Ends : session[e] \in Session
  BY Zenon DEF IInv, TypeOK
<1>4. \A e \in Ends : session'[e] = Later(session[e])
  BY Zenon, <1>1
<1>5. \A e \in Ends : Later(session[e]) \in Session /\ session'[e].closed = session[e].closed
  <2>1. \A s \in Session : Later(s) \in Session
    BY Zenon, TickFields
  <2>2. \A s \in Session : Later(s).closed = s.closed
    BY Zenon, TickFields
  <2> QED
    BY Zenon, <1>3, <1>4, <2>1, <2>2
<1>6. session' \in [Ends -> Session]
  BY Zenon, <1>1, <1>5
<1>7. TypeOK' /\ Bounded'
  BY Zenon, <1>1, <1>6, BoundKept DEF IInv, TypeOK
<1>8. OnlyLossCloses'
  <2>1. OnlyLossCloses
    BY Zenon DEF IInv
  <2> QED
    BY Zenon, <1>2, <1>5, <2>1 DEF OnlyLossCloses
<1>9. ASSUME NEW e \in Ends PROVE JointAt(e)'
  <2> DEFINE p == Peer(e)
             s == session[e]
             r == session[p]
  <2>1. window \in Windows /\ s \in Session /\ r \in Session
    BY Zenon, <1>2, <1>3 DEF IInv, TypeOK
  <2>2. Joint(window, s, r, link[e], link[p], accepted[e], accepted[p], handed[e], handed[p])
    BY Zenon DEF IInv, JointAt
  <2>3. /\ s.closed = None => link[p] = <<>> /\ ~Yields(s) /\ s.ackIn # 0
        /\ r.closed = None => link[e] = <<>> /\ ~Yields(r) /\ r.ackIn # 0
    BY Zenon, <1>1, <1>2
  <2>4. Joint(window, Later(s), Later(r), link[e], link[p], accepted[e], accepted[p],
              handed[e], handed[p])
    BY Zenon, <2>1, <2>2, <2>3, TimePasses
  <2> QED
    BY Zenon, <1>1, <1>2, <1>4, <2>4 DEF JointAt
<1> QED
  BY Zenon, <1>7, <1>8, <1>9 DEF IInv

\* The server's Session as it is made; the client's is Idle
Fresh == [Idle EXCEPT !.tx = 1, !.rx = SeqMod - 1, !.owes = FALSE,
                      !.sendAckIn = None, !.ackIn = AckTimeout]

\* The fields of the two Sessions as they are made
LEMMA StartFields ==
    /\ Idle \in Session /\ Idle.tx = 0 /\ Idle.txAcked = SeqMod - 1 /\ Idle.rx = 0
    /\ Idle.rxAcked = SeqMod - 1 /\ Idle.owes = TRUE /\ Idle.sendAckIn = SendAckTimeout
    /\ Idle.ackIn = None /\ Idle.closed = None /\ Idle.out = None /\ Idle.sent = 0
    /\ Idle.in = None /\ Idle.got = 0
    /\ Fresh \in Session /\ Fresh.tx = 1 /\ Fresh.txAcked = SeqMod - 1
    /\ Fresh.rx = SeqMod - 1 /\ Fresh.rxAcked = SeqMod - 1 /\ Fresh.owes = FALSE
    /\ Fresh.sendAckIn = None /\ Fresh.ackIn = AckTimeout /\ Fresh.closed = None
    /\ Fresh.out = None /\ Fresh.sent = 0 /\ Fresh.in = None /\ Fresh.got = 0
<1>1. /\ 0 \in Seq8 /\ 1 \in Seq8 /\ SeqMod - 1 \in Seq8
  BY WrapCases DEF Seq8
<1>2. SendAckTimeout \in 0 .. SendAckTimeout /\ AckTimeout \in 0 .. AckTimeout /\ 0 \in Nat
  BY BtpAssumption
<1> DEFINE M == SeqMod - 1
           A == AckTimeout
           B == SendAckTimeout
<1>3. Idle = [tx |-> 0, txAcked |-> M, rx |-> 0, rxAcked |-> M, owes |-> TRUE,
              sendAckIn |-> B, ackIn |-> None, closed |-> None,
              out |-> None, sent |-> 0, in |-> None, got |-> 0]
  BY Zenon DEF Idle
<1>4. Fresh = [Idle EXCEPT !.tx = 1, !.rx = M, !.owes = FALSE, !.sendAckIn = None, !.ackIn = A]
  BY Zenon DEF Fresh
<1>5. /\ M \in Seq8 /\ B \in 0 .. SendAckTimeout \cup {None} /\ A \in 0 .. AckTimeout \cup {None}
      /\ None \in {None, "Gone", "Sequence", "Malformed", "Timeout"}
      /\ None \in Message \cup {None} /\ None \in Message \cup {Garbled, None}
      /\ None \in 0 .. SendAckTimeout \cup {None} /\ None \in 0 .. AckTimeout \cup {None}
  BY Zenon, <1>1, <1>2
<1> HIDE DEF M, A, B
<1>6. Idle \in Session
  BY ZenonT(40), <1>1, <1>2, <1>3, <1>5 DEF Session
<1>7. /\ Idle.tx = 0 /\ Idle.txAcked = M /\ Idle.rx = 0
      /\ Idle.rxAcked = M /\ Idle.owes = TRUE /\ Idle.sendAckIn = B
      /\ Idle.ackIn = None /\ Idle.closed = None /\ Idle.out = None /\ Idle.sent = 0
      /\ Idle.in = None /\ Idle.got = 0
  BY Zenon, <1>3
<1>8. Fresh \in Session
  BY Zenon, <1>1, <1>4, <1>5, <1>6, SessionShape DEF SendTimer, AckTimer
<1>9. /\ Fresh.tx = 1 /\ Fresh.txAcked = M
      /\ Fresh.rx = M /\ Fresh.rxAcked = M /\ Fresh.owes = FALSE
      /\ Fresh.sendAckIn = None /\ Fresh.ackIn = A /\ Fresh.closed = None
      /\ Fresh.out = None /\ Fresh.sent = 0 /\ Fresh.in = None /\ Fresh.got = 0
  BY Zenon, <1>4, <1>6, <1>7, SessionShape
<1> QED
  BY Zenon, <1>6, <1>7, <1>8, <1>9 DEF M, A, B

\* With nothing on the link, nothing accepted and nothing begun, no segment is missing
LEMMA NothingJoined ==
    ASSUME NEW s, NEW r, s.out = None, s.sent = 0, r.in = None, r.got = 0
    PROVE  Segmented(s, r, <<>>, <<>>, <<>>) /\ Sending(s, <<>>) /\ Numbered(<<>>, <<>>)
<1> DEFINE o == [n |-> 0, at |-> 0]
           place == [i \in 0 .. 0 |-> o]
<1>1. Len(<<>>) = 0 /\ 1 .. 0 = {} /\ 0 \in 0 .. 0 /\ 0 <= 0 /\ 0 \in Nat
  OBVIOUS
<1>2. Reached(r, <<>>) = o /\ Left(s, <<>>) = o
  BY Zenon, <1>1 DEF Reached, Left
<1>3. o \in Places
  BY Zenon, <1>1 DEF Places
<1> HIDE DEF o
<1>4. place \in [0 .. 0 -> Places] /\ place[0] = o
  BY Zenon, <1>1, <1>3
<1> HIDE DEF place
<1>5. Leads(place, o, o, <<>>, <<>>)
  BY Zenon, <1>1, <1>4 DEF Leads
<1>6. Joined(Reached(r, <<>>), Left(s, <<>>), <<>>, <<>>)
  BY Zenon, <1>2, <1>5 DEF Joined
<1>7. Segmented(s, r, <<>>, <<>>, <<>>)
  BY Zenon, <1>6 DEF Segmented
<1>8. Sending(s, <<>>)
  BY Zenon DEF Sending
<1>9. Numbered(<<>>, <<>>)
  BY Zenon, <1>1 DEF Numbered
<1> QED
  BY Zenon, <1>7, <1>8, <1>9

\* The numbers and timers of the two Sessions as they are made: the client owes the
\* acknowledgement of packet 0, the handshake response, and the server awaits it
LEMMA StartWays ==
    ASSUME window \in Windows
    PROVE  /\ Order(window, Idle, Fresh) /\ Order(window, Fresh, Idle)
           /\ Timed(Idle) /\ Timed(Fresh) /\ Spare(window, Idle, Fresh)
           /\ InSequence(Idle, Fresh, <<>>) /\ InSequence(Fresh, Idle, <<>>)
           /\ AcksInOrder(Idle, Fresh, <<>>) /\ AcksInOrder(Fresh, Idle, <<>>)
           /\ InTime(Idle, Fresh) /\ InTime(Fresh, Idle)
<1> DEFINE m == SeqMod - 1
<1>1. /\ 0 \in Seq8 /\ 1 \in Seq8 /\ m \in Seq8 /\ m # 0
      /\ SeqMod \in Nat /\ SeqMod > 1
  BY WrapCases DEF Seq8
<1>2. /\ Minus(0, 1) = m /\ Minus(1, 1) = 0 /\ Minus(m, m) = 0 /\ Minus(0, m) = 1 /\ Minus(0, 0) = 0
  <2>1. Minus(0, 1) = m
    BY SMTT(30), <1>1, WrapCases
  <2>2. Minus(1, 1) = 0 /\ Minus(m, m) = 0 /\ Minus(0, 0) = 0
    BY ZenonT(40), <1>1, Distances
  <2>3. Minus(0, m) = 1
    BY <1>1, WrapCases
  <2> QED
    BY ZenonT(40), <2>1, <2>2, <2>3
<1>3. window \in Nat /\ 1 <= window /\ 0 < window /\ 0 <= window
  BY WindowType
<1>4. /\ SendAckTimeout \in Nat /\ AckTimeout \in Nat /\ AckTimeout # 0
      /\ AckTimeout >= SendAckTimeout + (AckTimeout - SendAckTimeout)
      /\ None # 0 /\ None # AckTimeout /\ None # SendAckTimeout
  BY BtpAssumption
<1>5. /\ Idle.tx = 0 /\ Idle.txAcked = m /\ Idle.rx = 0
      /\ Idle.rxAcked = m /\ Idle.owes = TRUE /\ Idle.sendAckIn = SendAckTimeout
      /\ Idle.ackIn = None /\ Idle \in Session
  BY Zenon, StartFields
<1>6. /\ Fresh.tx = 1 /\ Fresh.txAcked = m /\ Fresh.rx = m /\ Fresh.rxAcked = m
      /\ Fresh.owes = FALSE /\ Fresh.sendAckIn = None /\ Fresh.ackIn = AckTimeout
      /\ Fresh \in Session
  BY Zenon, StartFields
<1> HIDE DEF m
<1>7. Sent(Idle) = m /\ Sent(Fresh) = 0
  BY Zenon, <1>2, <1>5, <1>6 DEF Sent
<1>8. InFlight(Idle) = 0 /\ InFlight(Fresh) = 1
  <2>1. InFlight(Idle) = Minus(Sent(Idle), Idle.txAcked)
    BY Zenon, <1>5, Numbers
  <2>2. InFlight(Fresh) = Minus(Sent(Fresh), Fresh.txAcked)
    BY Zenon, <1>6, Numbers
  <2> QED
    BY ZenonT(40), <1>2, <1>5, <1>6, <1>7, <2>1, <2>2
<1>9. 0 + 0 + 0 = 0 /\ 0 + 1 + 0 = 1 /\ 1 # 0 /\ Len(<<>>) = 0 /\ 1 .. 0 = {}
  OBVIOUS
<1>10. Order(window, Idle, Fresh) /\ Order(window, Fresh, Idle)
  BY ZenonT(40), <1>2, <1>3, <1>5, <1>6, <1>7, <1>9 DEF Order, InOrder
<1>11. Timed(Idle) /\ Timed(Fresh)
  BY Zenon, <1>1, <1>4, <1>5, <1>6, <1>8, <1>9 DEF Timed
<1>12. Spare(window, Idle, Fresh)
  BY Zenon, <1>2, <1>3, <1>6, <1>7 DEF Spare
<1>13. InSequence(Idle, Fresh, <<>>) /\ InSequence(Fresh, Idle, <<>>)
  BY Zenon, <1>2, <1>5, <1>6, <1>7, <1>9 DEF InSequence
<1>14. AcksInOrder(Idle, Fresh, <<>>) /\ AcksInOrder(Fresh, Idle, <<>>)
  BY Zenon, <1>5, <1>6, <1>9 DEF AcksInOrder
<1>15. InTime(Idle, Fresh) /\ InTime(Fresh, Idle)
  BY Zenon, <1>4, <1>5, <1>6 DEF InTime, Remaining
<1> QED
  BY ZenonT(40), <1>10, <1>11, <1>12, <1>13, <1>14, <1>15

\* The connection as the handshake leaves it
LEMMA InitHolds == Init => IInv
<1> SUFFICES ASSUME Init PROVE IInv
  OBVIOUS
<1>1. /\ window \in Windows
      /\ session = [e \in Ends |-> IF e = "client" THEN Idle ELSE Fresh]
      /\ link = [e \in Ends |-> <<>>]
      /\ accepted = [e \in Ends |-> <<>>] /\ handed = [e \in Ends |-> <<>>]
  BY Zenon DEF Init, Fresh
<1>2. "client" \in Ends /\ "server" \in Ends /\ "server" # "client"
  BY DEF Ends
<1>3. session["client"] = Idle /\ session["server"] = Fresh
  BY Zenon, <1>1, <1>2
<1>4. \A e \in Ends : link[e] = <<>> /\ accepted[e] = <<>> /\ handed[e] = <<>>
  BY Zenon, <1>1
<1>5. Idle \in Session /\ Fresh \in Session /\ Idle.closed = None /\ Fresh.closed = None
  BY Zenon, StartFields
<1>6. \A e \in Ends : e = "client" \/ e = "server"
  BY Zenon DEF Ends
<1>7. TypeOK
  <2>1. session \in [Ends -> Session]
    BY Zenon, <1>1, <1>5
  <2>2. <<>> \in Seq(Frame) /\ <<>> \in Seq(Message) /\ <<>> \in Seq(Message \cup {Garbled})
    OBVIOUS
  <2> QED
    BY Zenon, <1>1, <2>1, <2>2 DEF TypeOK
<1>8. OnlyLossCloses
  BY Zenon, <1>3, <1>5, <1>6 DEF OnlyLossCloses
<1>9. Bounded
  <2>1. Len(<<>>) = 0 /\ 0 + 0 = 0
    OBVIOUS
  <2>2. 0 <= MaxMessages
    BY BtpAssumption
  <2> QED
    BY Zenon, <1>2, <1>4, <2>1, <2>2 DEF Bounded
<1>10. Joint(window, Idle, Fresh, <<>>, <<>>, <<>>, <<>>, <<>>, <<>>)
  <2>1. /\ Segmented(Idle, Fresh, <<>>, <<>>, <<>>) /\ Sending(Idle, <<>>)
        /\ Segmented(Fresh, Idle, <<>>, <<>>, <<>>) /\ Sending(Fresh, <<>>)
        /\ Numbered(<<>>, <<>>)
    BY Zenon, StartFields, NothingJoined
  <2>2. /\ Way(window, Idle, Fresh, <<>>, <<>>, <<>>) /\ Way(window, Fresh, Idle, <<>>, <<>>, <<>>)
    BY Zenon, <1>1, <2>1, StartWays DEF Way
  <2> QED
    BY Zenon, <1>1, <2>1, <2>2, StartWays DEF Joint
<1>11. Joint(window, Fresh, Idle, <<>>, <<>>, <<>>, <<>>, <<>>, <<>>)
  BY Zenon, <1>10, JointTurns
<1>12. Peer("client") = "server" /\ Peer("server") = "client"
  BY Zenon, <1>2 DEF Peer
<1>13. JointAt("client") /\ JointAt("server")
  BY ZenonT(40), <1>2, <1>3, <1>4, <1>10, <1>11, <1>12 DEF JointAt
<1> QED
  BY Zenon, <1>6, <1>7, <1>8, <1>9, <1>13 DEF IInv

\* Every step keeps the invariant
LEMMA NextKeeps == IInv /\ [Next]_vars => IInv'
<1> SUFFICES ASSUME IInv, [Next]_vars PROVE IInv'
  OBVIOUS
<1>1. CASE UNCHANGED vars
  <2>1. /\ window' = window /\ session' = session /\ link' = link
        /\ accepted' = accepted /\ handed' = handed
    BY Zenon, <1>1 DEF vars
  <2> QED
    BY Zenon, <2>1 DEF IInv, TypeOK, OnlyLossCloses, Bounded, JointAt
<1>2. CASE \E e \in Ends, length \in Lengths : Send(e, length)
  BY Zenon, <1>2, SendKeeps
<1>3. CASE \E e \in Ends : SendSegment(e)
  BY Zenon, <1>3, SendSegmentKeeps
<1>4. CASE \E e \in Ends : SendAck(e)
  BY ZenonT(40), <1>4, SendAckKeeps
<1>5. CASE \E e \in Ends : Receive(e)
  BY Zenon, <1>5, ReceiveKeeps
<1>6. CASE \E e \in Ends : Timeout(e)
  BY Zenon, <1>6, TimeoutKeeps
<1>7. CASE \E e \in Ends : Vanish(e)
  BY Zenon, <1>7, VanishKeeps
<1>8. CASE Tick
  BY Zenon, <1>8, TickKeeps
<1> QED
  BY ZenonT(40), <1>1, <1>2, <1>3, <1>4, <1>5, <1>6, <1>7, <1>8 DEF Next

\* The inductive invariant of a BTP connection holds throughout: for every window smaller
\* than the sequence numbers, every segment size that leaves room for the message, every
\* message length and every pair of timeouts with SEND_ACK_TIMEOUT < ACK_TIMEOUT, in each
\* direction the four sequence numbers, the frames and the acknowledgements on the link,
\* the segments and both timers agree.
THEOREM BtpInvariant == Spec => []IInv
BY InitHolds, NextKeeps, PTL DEF Spec

\* Every variable of the connection keeps its type.
THEOREM BtpTypeOK == Spec => []TypeOK
<1>1. IInv => TypeOK
  BY Zenon DEF IInv
<1> QED
  BY <1>1, BtpInvariant, PTL

\* Two ends that follow transport/btp.rs never end the connection of themselves: a Session
\* closes only because the other end is gone.
THEOREM OnlyLossClosesSessions == Spec => []OnlyLossCloses
<1>1. IInv => OnlyLossCloses
  BY Zenon DEF IInv
<1> QED
  BY <1>1, BtpInvariant, PTL

-----------------------------------------------------------------------------
\* What follows the first k elements of q
After(q, k) == SubSeq(q, k + 1, Len(q))

\* The elements of what follows the first k
LEMMA AfterElements ==
    ASSUME NEW S, NEW q \in Seq(S), NEW k \in Nat, k <= Len(q)
    PROVE  /\ After(q, k) \in Seq(S) /\ Len(After(q, k)) = Len(q) - k
           /\ \A i \in 1 .. Len(q) - k : After(q, k)[i] = q[k + i]
<1> DEFINE n == Len(q)
           a == SubSeq(q, k + 1, n)
<1>1. n \in Nat /\ \A i \in 1 .. n : q[i] \in S
  OBVIOUS
<1>2. k <= n /\ k + 1 \in Int /\ n \in Int
  BY <1>1
<1>3. \A i \in k + 1 .. n : q[i] \in S
  BY SMTT(30), <1>1, <1>2
<1> HIDE DEF n
<1>4. /\ a \in Seq(S) /\ Len(a) = (IF k + 1 <= n THEN n - (k + 1) + 1 ELSE 0)
      /\ \A i \in 1 .. n - (k + 1) + 1 : a[i] = q[k + 1 + i - 1]
  BY SMTT(30), <1>2, <1>3, SubSeqProperties
<1> HIDE DEF a
<1>5. Len(a) = n - k
  BY SMTT(30), <1>1, <1>2, <1>4
<1>6. \A i \in 1 .. n - k : a[i] = q[k + i]
  <2> TAKE i \in 1 .. n - k
  <2>1. n - (k + 1) + 1 = n - k /\ k + 1 + i - 1 = k + i
    BY SMTT(30), <1>1, <1>2
  <2> QED
    BY Zenon, <1>4, <2>1
<1> QED
  BY Zenon, <1>4, <1>5, <1>6 DEF After, a, n

\* One element more at the end
LEMMA AfterAppend ==
    ASSUME NEW S, NEW q \in Seq(S), NEW k \in Nat, k <= Len(q), NEW x \in S
    PROVE  After(Append(q, x), k) = Append(After(q, k), x)
<1> DEFINE n == Len(q)
           p == Append(q, x)
           a == After(q, k)
           b == After(p, k)
           c == Append(a, x)
<1>1. n \in Nat /\ k <= n /\ p \in Seq(S) /\ Len(p) = n + 1 /\ p[n + 1] = x
  BY ZenonT(40), AppendProperties, LenProperties
<1>2. \A i \in 1 .. n : p[i] = q[i]
  BY SMT, Appended
<1>3. a \in Seq(S) /\ Len(a) = n - k /\ \A i \in 1 .. n - k : a[i] = q[k + i]
  BY Zenon, AfterElements
<1> HIDE DEF a, n, p
<1>4. k <= Len(p)
  BY <1>1
<1>5. b \in Seq(S) /\ Len(b) = Len(p) - k /\ \A i \in 1 .. Len(p) - k : b[i] = p[k + i]
  BY Zenon, <1>1, <1>4, AfterElements
<1>6. /\ c \in Seq(S) /\ Len(c) = Len(a) + 1 /\ c[Len(a) + 1] = x
      /\ \A i \in 1 .. Len(a) : c[i] = a[i]
  <2>1. c \in Seq(S) /\ Len(c) = Len(a) + 1 /\ c[Len(a) + 1] = x
    BY SMTT(30), <1>3, AppendProperties
  <2>2. \A i \in 1 .. Len(a) : c[i] = a[i]
    BY SMTT(30), <1>3, Appended
  <2> QED
    BY Zenon, <2>1, <2>2
<1> HIDE DEF b, c
<1>7. Len(b) = n - k + 1 /\ Len(c) = n - k + 1
  BY SMTT(30), <1>1, <1>3, <1>5, <1>6
<1>8. ASSUME NEW i \in 1 .. Len(b) PROVE b[i] = c[i]
  <2>1. i \in Nat /\ 1 <= i /\ i <= n - k + 1
    BY <1>1, <1>7
  <2>2. b[i] = p[k + i]
    BY <1>5
  <2>3. CASE i = n - k + 1
    <3>1. k + i = n + 1 /\ i = Len(a) + 1
      BY SMTT(30), <1>1, <1>3, <2>3
    <3> QED
      BY Zenon, <1>1, <1>6, <2>2, <3>1
  <2>4. CASE i # n - k + 1
    <3>1. i \in 1 .. n - k /\ k + i \in 1 .. n
      BY <1>1, <2>1, <2>4
    <3>2. i \in 1 .. Len(a)
      BY Zenon, <1>3, <3>1
    <3> QED
      BY Zenon, <1>2, <1>3, <1>6, <2>2, <3>1, <3>2
  <2> QED
    BY Zenon, <2>3, <2>4
<1>9. b = c
  BY ZenonT(40), <1>5, <1>6, <1>7, <1>8, SeqEqual
<1> QED
  BY Zenon, <1>9 DEF b, c, a, p

\* One element more at the front
LEMMA AfterTail ==
    ASSUME NEW S, NEW q \in Seq(S), NEW k \in Nat, k < Len(q)
    PROVE  /\ After(q, k) # <<>> /\ Head(After(q, k)) = q[k + 1]
           /\ Tail(After(q, k)) = After(q, k + 1)
<1> DEFINE n == Len(q)
           m == k + 1
<1>1. n \in Nat
  OBVIOUS
<1>2. k <= n /\ m \in 1 .. n /\ n \in m .. n /\ n - k # 0
  BY <1>1
<1>3. Head(SubSeq(q, m, n)) = q[m] /\ Tail(SubSeq(q, m, n)) = SubSeq(q, m + 1, n)
  <2> HIDE DEF m
  <2> QED
    BY Zenon, <1>2, HeadTailOfSubSeq
<1>4. Len(After(q, k)) = n - k
  BY Zenon, <1>2, AfterElements
<1>5. Len(<<>>) = 0
  OBVIOUS
<1> QED
  BY ZenonT(40), <1>2, <1>3, <1>4, <1>5 DEF After

\* A step that closes no Session and accepts and hands over nothing is none of the pipe's
LEMMA PipeStutters ==
    ASSUME accepted' = accepted, handed' = handed,
           \A e \in Ends : session'[e].closed = session[e].closed
    PROVE  UNCHANGED Pipe!vars
<1>1. Underway' = Underway
  BY Zenon DEF Underway
<1>2. (\E e \in Ends : session[e].closed # None)' = (\E e \in Ends : session[e].closed # None)
  BY Zenon
<1> QED
  BY Zenon, <1>1, <1>2 DEF Pipe!vars

\* A step that closes a Session loses the pipe
LEMMA PipeLost ==
    ASSUME accepted' = accepted, handed' = handed,
           NEW e \in Ends, session'[e].closed # None
    PROVE  Pipe!Lose
<1>1. Underway' = Underway
  BY Zenon DEF Underway
<1>2. (\E x \in Ends : session[x].closed # None)' = TRUE
  BY Zenon
<1> QED
  BY Zenon, <1>1, <1>2 DEF Pipe!Lose

\* Session::send is the pipe's Accept
LEMMA SendAccepts ==
    ASSUME IInv, NEW e \in Ends, NEW length \in Lengths, Send(e, length), TypeOK'
    PROVE  Pipe!Accept(e)
<1> DEFINE m == [n |-> Len(accepted[e]) + 1, length |-> length]
           q == accepted[e]
           k == Len(handed[e])
<1>1. /\ session' = [session EXCEPT ![e].out = m]
      /\ accepted' = [accepted EXCEPT ![e] = Append(@, m)] /\ handed' = handed
  BY Zenon DEF Send
<1>2. /\ session \in [Ends -> Session] /\ accepted \in [Ends -> Seq(Message)]
      /\ handed[e] \in Seq(Message \cup {Garbled}) /\ q \in Seq(Message)
      /\ accepted'[e] \in Seq(Message)
  BY Zenon DEF IInv, TypeOK
<1> HIDE DEF m
<1>3. /\ accepted'[e] = Append(q, m) /\ \A x \in Ends : x # e => accepted'[x] = accepted[x]
  BY Zenon, <1>1, <1>2
<1>4. m \in Message
  <2>1. Append(q, m) \in Seq(Message)
    BY Zenon, <1>2, <1>3
  <2>2. /\ Len(q) \in Nat /\ Len(Append(q, m)) = Len(q) + 1 /\ Append(q, m)[Len(q) + 1] = m
    BY <1>2, Appended
  <2>3. Len(q) + 1 \in 1 .. Len(Append(q, m))
    BY <2>2
  <2>4. \A i \in 1 .. Len(Append(q, m)) : Append(q, m)[i] \in Message
    BY Zenon, <2>1, ElementOfSeq
  <2> QED
    BY Zenon, <2>2, <2>3, <2>4
<1>5. k \in Nat /\ k <= Len(q)
  <2>1. Len(handed[e]) \in Nat
    BY Zenon, <1>2, LenProperties
  <2>2. Numbered(accepted[e], handed[e])
    BY Zenon DEF IInv, JointAt, Joint
  <2> QED
    BY Zenon, <2>1, <2>2 DEF Numbered
<1>6. After(Append(q, m), k) = Append(After(q, k), m)
  BY ZenonT(40), <1>2, <1>4, <1>5, AfterAppend
<1>7. Underway' = [Underway EXCEPT ![e] = Append(@, m)]
  <2>1. /\ Underway = [x \in Ends |-> After(accepted[x], Len(handed[x]))]
        /\ Underway' = [x \in Ends |-> After(accepted'[x], Len(handed'[x]))]
    BY Zenon DEF Underway, After
  <2>2. After(accepted'[e], Len(handed'[e])) = Append(Underway[e], m)
    BY Zenon, <1>1, <1>3, <1>6, <2>1
  <2>3. ASSUME NEW x \in Ends, x # e PROVE After(accepted'[x], Len(handed'[x])) = Underway[x]
    <3>1. accepted'[x] = accepted[x] /\ handed'[x] = handed[x]
      BY Zenon, <1>1, <1>3, <2>3
    <3>2. Underway[x] = After(accepted[x], Len(handed[x]))
      BY Zenon, <2>1
    <3> QED
      BY Zenon, <3>1, <3>2
  <2> QED
    BY Zenon, <2>1, <2>2, <2>3
<1>8. \A x \in Ends : session'[x].closed = session[x].closed
  BY Zenon, <1>1, <1>2, SessionShape
<1>9. (\E x \in Ends : session[x].closed # None)' = (\E x \in Ends : session[x].closed # None)
  BY Zenon, <1>8
<1> QED
  BY ZenonT(40), <1>1, <1>4, <1>7, <1>9 DEF Pipe!Accept

\* Session::receive of the last segment of a message is the pipe's HandOver, and of any
\* other frame nothing
LEMMA ReceiveHandsOver ==
    ASSUME IInv, NEW e \in Ends, Receive(e)
    PROVE  Pipe!HandOver(Peer(e)) \/ UNCHANGED Pipe!vars
<1> DEFINE p == Peer(e)
           s == session[e]
           f == Head(link[p])
           t == Taken(s, f)
           g == Given(s, f, handed[p])
           q == accepted[p]
           k == Len(handed[p])
<1>1. /\ t \in Session /\ t.closed = s.closed
      /\ Accepted(s, f, accepted[p], handed[p])
      /\ session' = [session EXCEPT ![e] = t]
      /\ handed' = [handed EXCEPT ![p] = g] /\ accepted' = accepted
  BY Zenon, ReceiveTakes
<1>2. /\ session \in [Ends -> Session] /\ handed \in [Ends -> Seq(Message \cup {Garbled})]
      /\ p \in Ends /\ q \in Seq(Message) /\ handed[p] \in Seq(Message \cup {Garbled})
  BY Zenon, TwoEnds DEF IInv, TypeOK
<1> HIDE DEF t
<1>3. \A x \in Ends : session'[x].closed = session[x].closed
  BY Zenon, <1>1, <1>2
<1>4. CASE ~(f.length # 0 /\ f.ending)
  <2>1. g = handed[p]
    BY Zenon, <1>4 DEF Given
  <2>2. handed' = handed
    BY Zenon, <1>1, <1>2, <2>1
  <2> QED
    BY Zenon, <1>1, <1>3, <2>2, PipeStutters
<1>5. CASE f.length # 0 /\ f.ending
  <2>1. /\ g = Append(handed[p], f.message) /\ k < Len(q) /\ f.message = q[k + 1]
    BY ZenonT(40), <1>1, <1>5 DEF Given, Accepted
  <2>2. k \in Nat /\ Len(g) = k + 1
    BY SMTT(30), <1>2, <2>1, Appended
  <2> HIDE DEF g
  <2>3. /\ After(q, k) # <<>> /\ Head(After(q, k)) = q[k + 1]
        /\ Tail(After(q, k)) = After(q, k + 1)
    BY ZenonT(40), <1>2, <2>1, <2>2, AfterTail
  <2>4. /\ handed'[p] = g /\ \A x \in Ends : x # p => handed'[x] = handed[x]
    BY Zenon, <1>1, <1>2
  <2>5. /\ Underway = [x \in Ends |-> After(accepted[x], Len(handed[x]))]
        /\ Underway' = [x \in Ends |-> After(accepted'[x], Len(handed'[x]))]
    BY Zenon DEF Underway, After
  <2>6. Underway[p] = After(q, k)
    BY Zenon, <1>2, <2>5
  <2>7. Underway' = [Underway EXCEPT ![p] = Tail(@)]
    <3>1. After(accepted'[p], Len(handed'[p])) = Tail(Underway[p])
      BY ZenonT(40), <1>1, <2>2, <2>3, <2>4, <2>6
    <3>2. ASSUME NEW x \in Ends, x # p PROVE After(accepted'[x], Len(handed'[x])) = Underway[x]
      <4>1. accepted'[x] = accepted[x] /\ handed'[x] = handed[x]
        BY ZenonT(40), <1>1, <2>4, <3>2
      <4>2. Underway[x] = After(accepted[x], Len(handed[x]))
        BY Zenon, <2>5
      <4> QED
        BY Zenon, <4>1, <4>2
    <3> QED
      BY Zenon, <2>5, <3>1, <3>2
  <2>8. handed' = [handed EXCEPT ![p] = Append(@, Head(Underway[p]))]
    BY Zenon, <1>1, <2>1, <2>3, <2>6
  <2>9. (\E x \in Ends : session[x].closed # None)' = (\E x \in Ends : session[x].closed # None)
    BY Zenon, <1>3
  <2> QED
    BY ZenonT(40), <2>3, <2>6, <2>7, <2>8, <2>9 DEF Pipe!HandOver
<1> QED
  BY Zenon, <1>4, <1>5

\* Every step of the connection is a step of the pipe or none of its concern
LEMMA PipeSteps == IInv /\ IInv' /\ [Next]_vars => [Pipe!Next]_Pipe!vars
<1> SUFFICES ASSUME IInv, IInv', [Next]_vars PROVE Pipe!Next \/ UNCHANGED Pipe!vars
  BY Zenon
<1>1. session \in [Ends -> Session] /\ \A x \in Ends : session[x] \in Session
  BY Zenon DEF IInv, TypeOK
<1>2. CASE UNCHANGED vars
  BY Zenon, <1>2, PipeStutters DEF vars
<1>3. ASSUME NEW e \in Ends, NEW length \in Lengths, Send(e, length) PROVE Pipe!Next
  <2>1. Pipe!Accept(e)
    BY Zenon, <1>3, SendAccepts DEF IInv
  <2> QED
    BY Zenon, <2>1 DEF Pipe!Next
<1>4. ASSUME NEW e \in Ends, SendSegment(e) PROVE UNCHANGED Pipe!vars
  <2> DEFINE h == Header(session[e])
             t == AfterSegment(session[e])
  <2>1. /\ session' = [session EXCEPT ![e] = t] /\ accepted' = accepted /\ handed' = handed
    BY Zenon, <1>4 DEF SendSegment, AfterSegment
  <2>2. h \in Session /\ h.closed = session[e].closed
    BY Zenon, <1>1, HeaderFields
  <2>3. t.closed = h.closed
    <3> HIDE DEF h
    <3> QED
      BY Zenon, <2>2, SessionShape DEF AfterSegment, h
  <2> HIDE DEF t, h
  <2>4. \A x \in Ends : session'[x].closed = session[x].closed
    BY ZenonT(40), <1>1, <2>1, <2>2, <2>3
  <2> QED
    BY Zenon, <2>1, <2>4, PipeStutters
<1>5. ASSUME NEW e \in Ends, SendAck(e) PROVE UNCHANGED Pipe!vars
  <2> DEFINE h == Header(session[e])
  <2>1. /\ session' = [session EXCEPT ![e] = h] /\ accepted' = accepted /\ handed' = handed
    BY Zenon, <1>5 DEF SendAck
  <2>2. h.closed = session[e].closed
    BY Zenon, <1>1, HeaderFields
  <2> HIDE DEF h
  <2>3. \A x \in Ends : session'[x].closed = session[x].closed
    BY Zenon, <1>1, <2>1, <2>2
  <2> QED
    BY Zenon, <2>1, <2>3, PipeStutters
<1>6. ASSUME NEW e \in Ends, Receive(e) PROVE Pipe!Next \/ UNCHANGED Pipe!vars
  <2>1. Pipe!HandOver(Peer(e)) \/ UNCHANGED Pipe!vars
    BY Zenon, <1>6, ReceiveHandsOver
  <2>2. Peer(e) \in Ends
    BY Zenon, TwoEnds
  <2> QED
    BY Zenon, <2>1, <2>2 DEF Pipe!Next
<1>7. ASSUME NEW e \in Ends, Timeout(e) PROVE Pipe!Next
  <2>1. session'[e].closed = "Timeout" /\ accepted' = accepted /\ handed' = handed
    BY Zenon, <1>1, <1>7, SessionShape DEF Timeout
  <2>2. Pipe!Lose
    BY ZenonT(40), <2>1, NoneIsOpen, PipeLost
  <2> QED
    BY Zenon, <2>2 DEF Pipe!Next
<1>8. ASSUME NEW e \in Ends, Vanish(e) PROVE Pipe!Next
  <2>1. session'[e].closed = "Gone" /\ accepted' = accepted /\ handed' = handed
    BY Zenon, <1>1, <1>8, SessionShape DEF Vanish
  <2>2. Pipe!Lose
    BY Zenon, <2>1, NoneIsOpen, PipeLost
  <2> QED
    BY Zenon, <2>2 DEF Pipe!Next
<1>9. CASE Tick
  <2>1. /\ session' = [e \in Ends |-> Later(session[e])]
        /\ accepted' = accepted /\ handed' = handed
    BY Zenon, <1>9 DEF Tick, Later
  <2>2. \A s \in Session : Later(s).closed = s.closed
    BY Zenon, TickFields
  <2>3. \A x \in Ends : session'[x].closed = session[x].closed
    BY Zenon, <1>1, <2>1, <2>2
  <2> QED
    BY Zenon, <2>1, <2>3, PipeStutters
<1> QED
  BY ZenonT(40), <1>2, <1>3, <1>4, <1>5, <1>6, <1>7, <1>8, <1>9 DEF Next

\* The connection starts as an empty pipe
LEMMA PipeStarts == Init => Pipe!Init
<1> SUFFICES ASSUME Init PROVE Pipe!Init
  OBVIOUS
<1>1. /\ session = [e \in Ends |-> IF e = "client" THEN Idle ELSE Fresh]
      /\ accepted = [e \in Ends |-> <<>>] /\ handed = [e \in Ends |-> <<>>]
  BY Zenon DEF Init, Fresh
<1>2. (\E e \in Ends : session[e].closed # None) = FALSE
  BY Zenon, <1>1, StartFields
<1>3. Underway = [e \in Ends |-> <<>>]
  <2>1. \A e \in Ends : accepted[e] = <<>> /\ handed[e] = <<>>
    BY Zenon, <1>1
  <2>2. SubSeq(<<>>, Len(<<>>) + 1, Len(<<>>)) = <<>>
    OBVIOUS
  <2> QED
    BY Zenon, <2>1, <2>2 DEF Underway
<1> QED
  BY Zenon, <1>1, <1>2, <1>3 DEF Pipe!Init

\* A BTP connection implements a message pipe, step by step: in each direction every message
\* handed over is the next one accepted, whole, in order and once; an accepted message is
\* never dropped while the connection lasts. That each one comes out in the end, the
\* pipe's fairness, is left to the model checker.
THEOREM BtpImplementsPipe == Spec => Pipe!Init /\ [][Pipe!Next]_Pipe!vars
BY BtpInvariant, PipeStarts, PipeSteps, PTL DEF Spec
=============================================================================
