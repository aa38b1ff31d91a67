-------------------------------- MODULE Btp --------------------------------
(***************************************************************************)
(* A BTP connection over BLE (transport/btp.rs): two Sessions, the client's *)
(* and the server's, joined by the GATT link, which keeps the order of what *)
(* it carries. Messages are cut into frames by octets; sequence numbers     *)
(* wrap; both timers run.                                                   *)
(*                                                                          *)
(* Time is in units longer than the link takes to carry a frame. A device   *)
(* calls poll_send until it yields nothing, as its documentation asks, so   *)
(* time passes only when neither end has something to send.                 *)
(***************************************************************************)
EXTENDS Integers, Sequences

CONSTANTS
    Windows,        \* the windows the handshake can settle on
    SeqMod,         \* sequence numbers are u8, 256 in the code
    SegmentSize,    \* octets in one frame
    Lengths,        \* the lengths of the messages sent
    SendAckTimeout, \* SEND_ACK_TIMEOUT, 5 s in the code
    AckTimeout,     \* ACK_TIMEOUT, 15 s in the code
    MaxMessages,    \* bound: messages sent, both directions together
    None

Ends == {"client", "server"}
Peer(e) == IF e = "client" THEN "server" ELSE "client"

ASSUME BtpAssumption ==
    /\ SeqMod \in Nat \ {0, 1} /\ Windows \subseteq 1 .. SeqMod - 1
    /\ Lengths \subseteq Nat \ {0} /\ SegmentSize \in Nat /\ SegmentSize > 5
    /\ SendAckTimeout \in Nat \ {0} /\ AckTimeout \in Nat /\ SendAckTimeout < AckTimeout
    /\ MaxMessages \in Nat
    /\ None \notin Nat /\ None \notin {"Gone", "Sequence", "Malformed", "Timeout"}

VARIABLES
    window,         \* max_window, the same at both ends
    session,        \* the Session at each end
    link,           \* the frames on their way from each end
    accepted,       \* history: the messages each end took from its application
    handed          \* history: the messages of each end handed over at the other

vars == <<window, session, link, accepted, handed>>

Seq8 == 0 .. SeqMod - 1

\* wrapping_add(1) and wrapping_sub
Up(n) == (n + 1) % SeqMod
Minus(n, k) == (n - k) % SeqMod

\* A message is its number and its length
Message == [n : 1 .. MaxMessages, length : Lengths]

\* Octets that are no message
Garbled == [n |-> 0, length |-> 0]

Frame == [ack : Seq8 \cup {None}, seq : Seq8, begin : BOOLEAN, ending : BOOLEAN,
          length : Nat, message : Message \cup {None}, at : Nat]

Session ==
    [tx : Seq8, txAcked : Seq8, rx : Seq8, rxAcked : Seq8, owes : BOOLEAN,
     sendAckIn : 0 .. SendAckTimeout \cup {None}, ackIn : 0 .. AckTimeout \cup {None},
     closed : {None, "Gone", "Sequence", "Malformed", "Timeout"},
     out : Message \cup {None}, sent : Nat,
     in : Message \cup {Garbled, None}, got : Nat]

ASSUME NoneAssumption == None \notin Message

\* Every variable keeps its type.
TypeOK ==
    /\ window \in Windows
    /\ session \in [Ends -> Session]
    /\ link \in [Ends -> Seq(Frame)]
    /\ accepted \in [Ends -> Seq(Message)] /\ handed \in [Ends -> Seq(Message \cup {Garbled})]

Idle == [tx |-> 0, txAcked |-> SeqMod - 1, rx |-> 0, rxAcked |-> SeqMod - 1, owes |-> TRUE,
         sendAckIn |-> SendAckTimeout, ackIn |-> None, closed |-> None,
         out |-> None, sent |-> 0, in |-> None, got |-> 0]

\* Session::new: the handshake response is packet 0, which the client has received
Init ==
    /\ window \in Windows
    /\ session = [e \in Ends |->
                     IF e = "client" THEN Idle
                     ELSE [Idle EXCEPT !.tx = 1, !.rx = SeqMod - 1, !.owes = FALSE,
                                       !.sendAckIn = None, !.ackIn = AckTimeout]]
    /\ link = [e \in Ends |-> <<>>]
    /\ accepted = [e \in Ends |-> <<>>] /\ handed = [e \in Ends |-> <<>>]

-----------------------------------------------------------------------------
InFlight(s) == Minus(Minus(s.tx, s.txAcked), 1)
RemoteWindow(s) == IF InFlight(s) >= window THEN 0 ELSE window - InFlight(s)
OwnWindowFree(s) ==
    IF Minus(s.rx, s.rxAcked) >= window THEN 0 ELSE window - Minus(s.rx, s.rxAcked)

\* Session::can_send
CanSend(s) == RemoteWindow(s) > 1 \/ (RemoteWindow(s) = 1 /\ s.owes)

\* poll_send_inner: a pending acknowledgement no longer waits for data to ride on
AckDue(s) == OwnWindowFree(s) <= 2 \/ s.sendAckIn = 0

\* A mutant of Send: a message still being sent is overwritten
SendBusy(e, length) ==
    LET m == [n |-> Len(accepted[e]) + 1, length |-> length]
    IN  /\ session[e].closed = None
        /\ Len(accepted["client"]) + Len(accepted["server"]) < MaxMessages
        /\ session' = [session EXCEPT ![e].out = m]
        /\ accepted' = [accepted EXCEPT ![e] = Append(@, m)]
        /\ UNCHANGED <<window, link, handed>>

\* Session::send
Send(e, length) ==
    LET m == [n |-> Len(accepted[e]) + 1, length |-> length]
    IN  /\ session[e].closed = None /\ session[e].out = None
        /\ Len(accepted["client"]) + Len(accepted["server"]) < MaxMessages
        /\ session' = [session EXCEPT ![e].out = m]
        /\ accepted' = [accepted EXCEPT ![e] = Append(@, m)]
        /\ UNCHANGED <<window, link, handed>>

\* A mutant of Header: the acknowledgement-received timer is not started
HeaderUntimed(s) ==
    [s EXCEPT !.tx = Up(@), !.rxAcked = IF s.owes THEN s.rx ELSE @,
              !.owes = FALSE, !.sendAckIn = IF s.owes THEN None ELSE @]

\* Session::write_header: the fields it moves
Header(s) ==
    [s EXCEPT !.tx = Up(@), !.rxAcked = IF s.owes THEN s.rx ELSE @,
              !.owes = FALSE, !.sendAckIn = IF s.owes THEN None ELSE @,
              !.ackIn = IF @ = None THEN AckTimeout ELSE @]

\* Frame::header_len: what a frame leaves for the message
Room(s) == SegmentSize - (2 + (IF s.owes THEN 1 ELSE 0) + (IF s.sent = 0 THEN 2 ELSE 0))

\* Session::poll_send with a message under way: the next segment of it
SendSegment(e) ==
    LET s == session[e]
        remaining == s.out.length - s.sent
        take == IF remaining < Room(s) THEN remaining ELSE Room(s)
        ending == take = remaining
    IN  /\ s.closed = None /\ CanSend(s) /\ s.out # None
        /\ link' = [link EXCEPT ![e] = Append(@,
               [ack |-> IF s.owes THEN s.rx ELSE None, seq |-> s.tx,
                begin |-> s.sent = 0, ending |-> ending, length |-> take,
                message |-> s.out, at |-> s.sent])]
        /\ session' = [session EXCEPT ![e] =
               [Header(s) EXCEPT !.out = IF ending THEN None ELSE @,
                                 !.sent = IF ending THEN 0 ELSE @ + take]]
        /\ UNCHANGED <<window, accepted, handed>>

\* Session::poll_send with nothing to send but the acknowledgement
SendAck(e) ==
    LET s == session[e]
    IN  /\ s.closed = None /\ CanSend(s) /\ s.out = None /\ s.owes /\ AckDue(s)
        /\ link' = [link EXCEPT ![e] = Append(@,
               [ack |-> s.rx, seq |-> s.tx, begin |-> FALSE, ending |-> FALSE,
                length |-> 0, message |-> None, at |-> 0])]
        /\ session' = [session EXCEPT ![e] = Header(s)]
        /\ UNCHANGED <<window, accepted, handed>>

-----------------------------------------------------------------------------
\* receive_inner: the acknowledgement is of something in flight
AckInRange(s, ack) == Minus(ack, s.txAcked) \in 1 .. InFlight(s)

\* A mutant of Acknowledged: the acknowledgement-received timer keeps running
AcknowledgedRuns(s, ack) == [s EXCEPT !.txAcked = ack]

\* receive_inner: what an acknowledgement does to the sending half
Acknowledged(s, ack) ==
    [s EXCEPT !.txAcked = ack,
              !.ackIn = IF Minus(ack, s.txAcked) = InFlight(s) THEN None ELSE AckTimeout]

\* receive_inner: a frame in sequence and within the window, before its payload is read
Noted(s, f) ==
    LET received == [s EXCEPT !.rx = f.seq, !.owes = TRUE,
                              !.sendAckIn = IF @ = None THEN SendAckTimeout ELSE @]
    IN  IF f.ack = None THEN received ELSE Acknowledged(received, f.ack)

\* receive_inner: the frame fits the message being put together
InPlace(s, f) ==
    /\ f.begin <=> s.in = None
    /\ f.ending => s.got + f.length = (IF f.begin THEN f.message ELSE s.in).length

\* What the octets put together so far are: the message, if each segment came in its place
Assembled(s, f) ==
    IF f.begin \/ (f.message = s.in /\ f.at = s.got) THEN f.message ELSE Garbled

\* Session::receive of the next frame on the link
Receive(e) ==
    LET s == session[e]
        f == Head(link[Peer(e)])
        inSequence == f.seq = Up(s.rx)
        inWindow == Minus(f.seq, s.rxAcked) <= window
        ackGood == f.ack # None => AckInRange(s, f.ack)
        data == f.length > 0
        closed == IF ~inSequence \/ ~inWindow \/ ~ackGood THEN "Sequence"
                  ELSE IF data /\ ~InPlace(s, f) THEN "Malformed" ELSE None
    IN  /\ s.closed = None /\ link[Peer(e)] # <<>>
        /\ link' = [link EXCEPT ![Peer(e)] = Tail(@)]
        /\ session' = [session EXCEPT ![e] =
               IF closed # None THEN [s EXCEPT !.closed = closed]
               ELSE IF ~data THEN Noted(s, f)
               ELSE [Noted(s, f) EXCEPT
                        !.in = IF f.ending THEN None ELSE Assembled(s, f),
                        !.got = IF f.ending THEN 0 ELSE s.got + f.length]]
        /\ handed' = IF closed = None /\ data /\ f.ending
                     THEN [handed EXCEPT ![Peer(e)] = Append(@, Assembled(s, f))] ELSE handed
        /\ UNCHANGED <<window, accepted>>

\* Session::poll_timeout when the acknowledgement did not come
Timeout(e) ==
    /\ session[e].closed = None /\ session[e].ackIn = 0
    /\ session' = [session EXCEPT ![e].closed = "Timeout"]
    /\ UNCHANGED <<window, link, accepted, handed>>

\* One end is switched off or out of range: what is on its way to it is lost
Vanish(e) ==
    /\ \A x \in Ends : session[x].closed = None
    /\ session' = [session EXCEPT ![e].closed = "Gone"]
    /\ link' = [link EXCEPT ![Peer(e)] = <<>>]
    /\ UNCHANGED <<window, accepted, handed>>

Less(n) == IF n \in {None, 0} THEN n ELSE n - 1

\* poll_send would yield a frame
Sends(e) ==
    LET s == session[e]
    IN  s.closed = None /\ CanSend(s) /\ (s.out # None \/ (s.owes /\ AckDue(s)))

\* Time passes when the link is empty and neither end has anything to send
Tick ==
    /\ \A e \in Ends : session[e].closed = None =>
                          link[Peer(e)] = <<>> /\ ~Sends(e) /\ session[e].ackIn # 0
    /\ \E e \in Ends : session[e].closed = None
    /\ session' = [e \in Ends |-> [session[e] EXCEPT !.sendAckIn = Less(@), !.ackIn = Less(@)]]
    /\ UNCHANGED <<window, link, accepted, handed>>

Next ==
    \/ \E e \in Ends, length \in Lengths : Send(e, length)
    \/ \E e \in Ends : SendSegment(e) \/ SendAck(e) \/ Receive(e) \/ Timeout(e) \/ Vanish(e)
    \/ Tick

\* The link carries what it is given, each end polls when there is something to send,
\* and time passes when there is not
Fairness ==
    /\ \A e \in Ends : WF_vars(SendSegment(e) \/ SendAck(e)) /\ WF_vars(Receive(e))
    /\ \A e \in Ends : WF_vars(Timeout(e))
    /\ WF_vars(Tick)

Spec == Init /\ [][Next]_vars /\ Fairness

-----------------------------------------------------------------------------
\* Two ends that follow these rules never end the connection: no frame overruns a window,
\* no acknowledgement is out of range, no segment is out of place, and no acknowledgement
\* is so late that an end gives up on one that is still there (ACK_TIMEOUT against
\* SEND_ACK_TIMEOUT and the windows).
OnlyLossCloses ==
    \A e \in Ends : session[e].closed # None =>
        \/ session[e].closed = "Gone"
        \/ session[e].closed = "Timeout" /\ session[Peer(e)].closed = "Gone"

\* An end that is left alone finds out: it always owes or awaits an acknowledgement, so one
\* of the two timers ends its session.
LossIsNoticed ==
    \A e \in Ends : session[e].closed = "Gone" ~> session[Peer(e)].closed # None

\* The messages accepted at one end and not yet handed over at the other
Underway == [e \in Ends |-> SubSeq(accepted[e], Len(handed[e]) + 1, Len(accepted[e]))]

Pipe == INSTANCE MessagePipe
            WITH Directions <- Ends, Messages <- Message, queue <- Underway, out <- handed,
                 lost <- \E e \in Ends : session[e].closed # None

\* A BTP connection is a message pipe: segmentation, reassembly, wrapping sequence numbers
\* and the two windows hand every message over whole, in order and once, and every message
\* accepted is handed over in the end, unless an end is gone.
PipeSpec == Pipe!Spec
=============================================================================
