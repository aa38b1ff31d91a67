-------------------------------- MODULE Bdx --------------------------------
(***************************************************************************)
(* One Bulk Data Exchange transfer (bdx/transfer.rs): the Initiator         *)
(* proposes, the Responder negotiates or refuses, then the Sender and the   *)
(* Receiver move the file in numbered blocks over a reliable, ordered       *)
(* transport. A block carries the offsets of the octets in it.              *)
(*                                                                          *)
(* The applications on top are external. They do what the module's          *)
(* documentation shows: read the file at the Sender's cursor, fill a block  *)
(* up to room(), mark the last one, and in Sender drive wait for the        *)
(* acknowledgement before the next block.                                   *)
(***************************************************************************)
EXTENDS Integers, Sequences

CONSTANTS
    FileSize,       \* octets in the Sender's file
    BlockSizes,     \* the Max Block Sizes proposed and allowed
    Offsets,        \* the start offsets proposed
    Definite,       \* the lengths a downloader asks for
    Skips,          \* how far a BlockQueryWithSkip skips, 0 being a plain BlockQuery
    CounterMod,     \* block counters are u32, 2^32 in the code
    None

ASSUME BdxAssumption ==
    /\ FileSize \in Nat /\ CounterMod \in Nat \ {0, 1}
    /\ BlockSizes \subseteq Nat /\ Offsets \subseteq Nat /\ Definite \subseteq Nat
    /\ Skips \subseteq Nat
    /\ None \notin Nat /\ None \notin STRING

VARIABLES
    phase,          \* "proposed", "accepted", "running" or "rejected"
    proposal,       \* the Init message, with the direction its opcode says
    agreed,         \* the Responder's Parameters
    params,         \* the Initiator's Parameters
    sender,         \* the Sender
    receiver,       \* the Receiver
    toSender, toReceiver,  \* messages under way, in order
    acked,          \* the Sender's application has seen every block acknowledged
    position,       \* where in the file the Receiver's application stores the next octet
    stored,         \* history: where each octet was stored and where it came from
    skipped,        \* history: octets the Receiver skipped
    refused         \* the status code a message or a block was refused with

vars == <<phase, proposal, agreed, params, sender, receiver, toSender, toReceiver, acked,
          position, stored, skipped, refused>>

Counter == 0 .. CounterMod - 1
Maybe(S) == S \cup {None}
Lower(a, b) == IF a < b THEN a ELSE b
Left(from) == IF from < FileSize THEN FileSize - from ELSE 0
OrZero(x) == IF x = None THEN 0 ELSE x

Proposal ==
    [direction : {"Upload", "Download"}, senderDrive : BOOLEAN, receiverDrive : BOOLEAN,
     block : BlockSizes, offset : Maybe(Offsets), length : Maybe(Definite)]

\* What the file holds past the offset, which its owner knows
Owned(init) == Left(OrZero(init.offset))

\* What a Responder will agree to; one that owns the file says how much of it there is when
\* it is asked for a definite length
Limits(init) ==
    [busy : BOOLEAN, block : BlockSizes \ {0}, allowOffset : BOOLEAN,
     requireLength : BOOLEAN, max : Maybe(Definite), min : Maybe(Definite),
     available : IF init.length = None THEN Maybe({Owned(init)}) ELSE {Owned(init)}]

Parameters ==
    [senderDrive : BOOLEAN, receiverDrive : BOOLEAN, block : Nat, offset : Nat,
     length : Maybe(Nat)]

Sender == [cursor : Nat, sent : Nat, counter : Maybe(Counter), queried : BOOLEAN,
           finished : BOOLEAN, complete : BOOLEAN]
Receiver == [received : Nat, counter : Maybe(Counter), query : Counter, pending : BOOLEAN,
             finished : BOOLEAN, complete : BOOLEAN]

NoSender == [cursor |-> 0, sent |-> 0, counter |-> None, queried |-> FALSE,
             finished |-> FALSE, complete |-> FALSE]
NoReceiver == [received |-> 0, counter |-> None, query |-> 0, pending |-> FALSE,
               finished |-> FALSE, complete |-> FALSE]

\* Every variable keeps its type.
TypeOK ==
    /\ phase \in {"proposed", "accepted", "running", "rejected"}
    /\ proposal \in Proposal
    /\ agreed \in Maybe(Parameters) /\ params \in Maybe(Parameters)
    /\ sender \in Sender /\ receiver \in Receiver
    /\ acked \in BOOLEAN /\ position \in Nat /\ skipped \in Nat

Init ==
    /\ phase = "proposed"
    /\ proposal \in Proposal
    /\ proposal.direction = "Upload" => proposal.length \in {None, Owned(proposal)}
    /\ agreed = None /\ params = None
    /\ sender = NoSender /\ receiver = NoReceiver
    /\ toSender = <<>> /\ toReceiver = <<>> /\ acked = TRUE
    /\ position = 0 /\ stored = <<>> /\ skipped = 0 /\ refused = None

-----------------------------------------------------------------------------
\* negotiate: the status an Init is refused with
Rejects(init, limits) ==
    \/ limits.busy
    \/ init.block = 0
    \/ ~init.senderDrive /\ ~init.receiverDrive
    \/ init.offset # None /\ ~limits.allowOffset
    \/ init.length # None /\ limits.max # None /\ init.length > limits.max
    \/ init.length # None /\ limits.min # None /\ init.length < limits.min
    \/ init.length = None /\ limits.requireLength

\* negotiate: the length in force
Length(init, limits) ==
    IF init.direction = "Upload" THEN init.length
    ELSE IF init.length = None THEN limits.available
    ELSE IF limits.available = None THEN init.length
    ELSE Lower(init.length, limits.available)

\* negotiate: the Parameters of an Init that is accepted
Negotiate(init, limits) ==
    [senderDrive |-> init.senderDrive,
     receiverDrive |-> init.receiverDrive /\ ~init.senderDrive,
     block |-> Lower(init.block, limits.block), offset |-> OrZero(init.offset),
     length |-> Length(init, limits)]

\* Parameters::from_send_accept and from_receive_accept, past check_accepted and check_block_size
FromAccept(init, accept) ==
    [senderDrive |-> accept.senderDrive, receiverDrive |-> accept.receiverDrive,
     block |-> accept.block, offset |-> OrZero(init.offset),
     length |-> IF init.direction = "Upload" THEN init.length ELSE accept.length]

\* check_accepted, check_block_size and the length check of from_receive_accept
Acceptable(init, accept) ==
    /\ accept.senderDrive # accept.receiverDrive
    /\ \/ accept.senderDrive /\ init.senderDrive
       \/ accept.receiverDrive /\ init.receiverDrive
    /\ accept.block # 0 /\ accept.block <= init.block
    /\ init.direction = "Download" /\ init.length # None /\ accept.length # None
           => accept.length <= init.length

\* The Responder answers the Init
Respond(limits) ==
    /\ phase = "proposed"
    /\ \/ /\ Rejects(proposal, limits)
          /\ phase' = "rejected" /\ UNCHANGED agreed
       \/ /\ ~Rejects(proposal, limits)
          /\ phase' = "accepted" /\ agreed' = Negotiate(proposal, limits)
    /\ UNCHANGED <<proposal, params, sender, receiver, toSender, toReceiver, acked,
                   position, stored, skipped, refused>>

\* The Initiator takes the Accept, and both ends start (Sender::new, Receiver::new)
Accepted ==
    LET mine == FromAccept(proposal, agreed)
        offset == (IF proposal.direction = "Upload" THEN mine ELSE agreed).offset
    IN  /\ phase = "accepted"
        /\ phase' = IF Acceptable(proposal, agreed) THEN "running" ELSE "rejected"
        /\ params' = mine
        /\ sender' = [sender EXCEPT !.cursor = offset]
        /\ position' = mine.offset
        /\ UNCHANGED <<proposal, agreed, receiver, toSender, toReceiver, acked, stored,
                       skipped, refused>>

-----------------------------------------------------------------------------
Running == phase = "running" /\ refused = None

\* The Sender's and the Receiver's own Parameters
SenderParams == IF proposal.direction = "Upload" THEN params ELSE agreed
ReceiverParams == IF proposal.direction = "Upload" THEN agreed ELSE params

\* next_counter
NextCounter(counter) == IF counter = None THEN 0 ELSE (counter + 1) % CounterMod

\* Sender::may_send
MaySend ==
    ~sender.finished /\ ~sender.complete /\ (SenderParams.senderDrive \/ sender.queried)

\* Sender::room
Room ==
    IF SenderParams.length = None THEN SenderParams.block
    ELSE Lower(SenderParams.block, SenderParams.length - sender.sent)

\* The definite length rules out the block: both ends check it
Mismatch(p, total, eof) ==
    p.length # None /\ (total > p.length \/ (eof /\ total # p.length))

\* The last octets of the file, or of the definite length
AtEnd(len) ==
    len = Left(sender.cursor)
        \/ (SenderParams.length # None /\ sender.sent + len = SenderParams.length)

\* Sender::block, and the Block or BlockEOF it lets the application send
SendBlock(len, eof) ==
    /\ Running /\ MaySend
    /\ SenderParams.senderDrive => acked
    /\ len <= Lower(Room, Left(sender.cursor))
    /\ eof => AtEnd(len)
    /\ len = 0 => eof
    /\ \/ /\ Mismatch(SenderParams, sender.sent + len, eof)
          /\ refused' = "LengthMismatch"
          /\ UNCHANGED <<sender, toReceiver, acked>>
       \/ /\ ~Mismatch(SenderParams, sender.sent + len, eof)
          /\ sender' = [sender EXCEPT !.counter = NextCounter(@), !.sent = @ + len,
                           !.cursor = @ + len, !.queried = FALSE, !.finished = eof]
          /\ toReceiver' = Append(toReceiver,
                 [counter |-> NextCounter(sender.counter), at |-> sender.cursor,
                  len |-> len, eof |-> eof])
          /\ acked' = FALSE
          /\ UNCHANGED refused
    /\ UNCHANGED <<phase, proposal, agreed, params, receiver, toSender, position, stored,
                   skipped>>

\* The Sender's status for a BlockQuery or a BlockQueryWithSkip, None when it is taken
QueryStatus(counter) ==
    IF sender.finished \/ sender.complete \/ ~SenderParams.receiverDrive \/ sender.queried
    THEN "UnexpectedMessage"
    ELSE IF counter # NextCounter(sender.counter) THEN "BadBlockCounter"
    ELSE None

\* A mutant of OnQuery: the skip is forgotten
OnQueryStays ==
    LET m == Head(toSender)
    IN  /\ Running /\ toSender # <<>> /\ m.kind = "query"
        /\ refused' = QueryStatus(m.counter)
        /\ sender' = IF refused' # None THEN sender ELSE [sender EXCEPT !.queried = TRUE]
        /\ toSender' = Tail(toSender)
        /\ UNCHANGED <<phase, proposal, agreed, params, receiver, toReceiver, acked,
                       position, stored, skipped>>

\* Sender::on_query and on_query_with_skip
OnQuery ==
    LET m == Head(toSender)
    IN  /\ Running /\ toSender # <<>> /\ m.kind = "query"
        /\ refused' = QueryStatus(m.counter)
        /\ sender' = IF refused' # None THEN sender
                     ELSE [sender EXCEPT !.queried = TRUE, !.cursor = @ + m.skip]
        /\ toSender' = Tail(toSender)
        /\ UNCHANGED <<phase, proposal, agreed, params, receiver, toReceiver, acked,
                       position, stored, skipped>>

\* The Sender's status for a BlockAck or a BlockAckEOF, None when it is taken
AckStatus(counter, eof) ==
    IF sender.counter = None \/ sender.complete \/ eof # sender.finished
    THEN "UnexpectedMessage"
    ELSE IF counter # sender.counter THEN "BadBlockCounter"
    ELSE None

\* Sender::on_ack
OnAck ==
    LET m == Head(toSender)
    IN  /\ Running /\ toSender # <<>> /\ m.kind = "ack"
        /\ refused' = AckStatus(m.counter, m.eof)
        /\ sender' = IF refused' # None THEN sender ELSE [sender EXCEPT !.complete = m.eof]
        /\ acked' = TRUE
        /\ toSender' = Tail(toSender)
        /\ UNCHANGED <<phase, proposal, agreed, params, receiver, toReceiver, position,
                       stored, skipped>>

-----------------------------------------------------------------------------
\* A mutant of Awaiting: counters that have wrapped do not compare equal
AwaitingUnwrapped == receiver.query # (IF receiver.counter = None THEN 0 ELSE receiver.counter + 1)

\* Receiver::awaiting
Awaiting == receiver.query # NextCounter(receiver.counter)

\* A mutant of Query: a block that was not acknowledged is still owed one
QueryKeeps(skip) ==
    /\ Running
    /\ ReceiverParams.receiverDrive /\ ~receiver.finished /\ ~receiver.complete
    /\ ~Awaiting
    /\ receiver' = [receiver EXCEPT !.query = (@ + 1) % CounterMod]
    /\ toSender' = Append(toSender,
           [kind |-> "query", counter |-> receiver.query, skip |-> skip, eof |-> FALSE])
    /\ position' = position + skip /\ skipped' = skipped + skip
    /\ UNCHANGED <<phase, proposal, agreed, params, sender, toReceiver, acked, stored,
                   refused>>

\* Receiver::query, sent as a BlockQuery or a BlockQueryWithSkip
Query(skip) ==
    /\ Running
    /\ ReceiverParams.receiverDrive /\ ~receiver.finished /\ ~receiver.complete
    /\ ~Awaiting
    /\ receiver' = [receiver EXCEPT !.pending = FALSE, !.query = (@ + 1) % CounterMod]
    /\ toSender' = Append(toSender,
           [kind |-> "query", counter |-> receiver.query, skip |-> skip, eof |-> FALSE])
    /\ position' = position + skip /\ skipped' = skipped + skip
    /\ UNCHANGED <<phase, proposal, agreed, params, sender, toReceiver, acked, stored,
                   refused>>

\* The Receiver's status for a block, None when it is taken
BlockStatus(m) ==
    IF receiver.finished \/ receiver.complete \/ (ReceiverParams.receiverDrive /\ ~Awaiting)
    THEN "UnexpectedMessage"
    ELSE IF m.counter # NextCounter(receiver.counter) THEN "BadBlockCounter"
    ELSE IF m.len > ReceiverParams.block \/ (m.len = 0 /\ ~m.eof) THEN "BadMessageContents"
    ELSE IF Mismatch(ReceiverParams, receiver.received + m.len, m.eof) THEN "LengthMismatch"
    ELSE None

\* Receiver::on_block, and the application storing what came
OnBlock ==
    LET m == Head(toReceiver)
    IN  /\ Running /\ toReceiver # <<>>
        /\ refused' = BlockStatus(m)
        /\ IF refused' # None THEN UNCHANGED <<receiver, position, stored>>
           ELSE /\ receiver' = [receiver EXCEPT !.received = @ + m.len, !.counter = m.counter,
                                   !.pending = TRUE, !.finished = m.eof]
                /\ stored' = stored
                       \o [i \in 1 .. m.len |-> <<position + i - 1, m.at + i - 1>>]
                /\ position' = position + m.len
        /\ toReceiver' = Tail(toReceiver)
        /\ UNCHANGED <<phase, proposal, agreed, params, sender, toSender, acked, skipped>>

\* A mutant of Ack: every acknowledgement ends the session
AckEnds ==
    /\ Running /\ receiver.pending
    /\ receiver' = [receiver EXCEPT !.pending = FALSE, !.complete = TRUE]
    /\ toSender' = Append(toSender,
           [kind |-> "ack", counter |-> receiver.counter, skip |-> 0, eof |-> receiver.finished])
    /\ UNCHANGED <<phase, proposal, agreed, params, sender, toReceiver, acked, position,
                   stored, skipped, refused>>

\* Receiver::ack, sent as a BlockAck or a BlockAckEOF
Ack ==
    /\ Running /\ receiver.pending
    /\ receiver' = [receiver EXCEPT !.pending = FALSE, !.complete = receiver.finished]
    /\ toSender' = Append(toSender,
           [kind |-> "ack", counter |-> receiver.counter, skip |-> 0, eof |-> receiver.finished])
    /\ UNCHANGED <<phase, proposal, agreed, params, sender, toReceiver, acked, position,
                   stored, skipped, refused>>

Next ==
    \/ \E limits \in Limits(proposal) : Respond(limits)
    \/ Accepted
    \/ \E len \in 0 .. FileSize, eof \in BOOLEAN : SendBlock(len, eof)
    \/ OnQuery \/ OnAck \/ OnBlock \/ Ack
    \/ \E skip \in Skips : Query(skip)

\* Both ends answer, the applications keep the transfer going, the transport delivers
Fairness ==
    /\ WF_vars(\E limits \in Limits(proposal) : Respond(limits)) /\ WF_vars(Accepted)
    /\ WF_vars(\E len \in 0 .. FileSize, eof \in BOOLEAN : SendBlock(len, eof))
    /\ WF_vars(OnQuery) /\ WF_vars(OnAck) /\ WF_vars(OnBlock)
    /\ WF_vars(Ack \/ \E skip \in Skips : Query(skip))

Spec == Init /\ [][Next]_vars /\ Fairness

-----------------------------------------------------------------------------
\* Both ends take the same parameters from the Accept (negotiate against from_send_accept and
\* from_receive_accept), and exactly one of them drives.
SameParameters ==
    phase = "running" => params = agreed /\ params.senderDrive # params.receiverDrive

\* Every octet is stored where it came from: the Sender's cursor and the Receiver's idea of
\* it keep in step through start offset, blocks of any size and skips.
OctetsInPlace == \A i \in DOMAIN stored : stored[i][1] = stored[i][2]

\* The session ends at the Sender only after it has at the Receiver, and when it ends the
\* Receiver has every octet the transfer was to carry, but for those it skipped.
CompleteIsWhole ==
    /\ sender.complete => receiver.complete /\ sender.sent = receiver.received
    /\ receiver.complete /\ skipped = 0 =>
           receiver.received =
               (IF params.length = None THEN Left(params.offset)
                ELSE Lower(params.length, Left(params.offset)))

\* Two ends that follow the rules never refuse each other's messages with a status code; the
\* one transfer they cannot end is a definite length of which the Receiver skipped a part,
\* because Sender::block counts the octets sent and not the ones passed over.
RefusesOnlySkips == refused # None => skipped > 0 /\ params.length # None

\* A transfer that runs comes to its end, unless it is refused: no end waits for a query, a
\* block or an acknowledgement that the other has no reason to send.
TransferEnds == phase = "running" ~> refused # None \/ (sender.complete /\ receiver.complete)
=============================================================================
