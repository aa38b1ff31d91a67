----------------------------- MODULE BdxProofs -----------------------------
(***************************************************************************)
(* What a BDX transfer promises, for files, blocks, offsets, lengths and   *)
(* skips of every size and for any range of the block counters: the octets *)
(* end up in their places, nothing is missing at the end, and the two ends *)
(* refuse each other's messages only after a skip in a definite length.    *)
(*                                                                         *)
(* The invariant follows the one message that matters round the transfer:  *)
(* nothing under way (Quiet), an acknowledgement (Acknowledged), a query,  *)
(* perhaps behind an acknowledgement (Queried), a query taken and not yet  *)
(* answered (Told), or a block (Sent).                                     *)
(***************************************************************************)
EXTENDS Bdx, SequenceTheorems, TLAPS

USE BdxAssumption

-----------------------------------------------------------------------------
(* Short queues, and counters that wrap *)

\* A queue of at most two messages, read at its head and extended at its end.
LEMMA ShortQueues ==
    ASSUME NEW x, NEW y
    PROVE  /\ Append(<<>>, x) = <<x>> /\ Append(<<x>>, y) = <<x, y>>
           /\ Head(<<x>>) = x /\ Tail(<<x>>) = <<>> /\ <<x>> # <<>>
           /\ Head(<<x, y>>) = x /\ Tail(<<x, y>>) = <<y>> /\ <<x, y>> # <<>>
<1>1. Append(<<>>, x) = <<x>>  OBVIOUS
<1>2. Append(<<x>>, y) = <<x, y>>
  <2>1. <<x>> \in Seq({x, y}) /\ <<x, y>> \in Seq({x, y}) /\ y \in {x, y}  OBVIOUS
  <2>2. Append(<<x>>, y) \in Seq({x, y}) /\ Len(Append(<<x>>, y)) = 2  BY <2>1
  <2>3. Append(<<x>>, y)[1] = x /\ Append(<<x>>, y)[2] = y  BY <2>1
  <2> DEFINE s == Append(<<x>>, y)  t == <<x, y>>
  <2>4. Len(t) = 2 /\ t[1] = x /\ t[2] = y  OBVIOUS
  <2> HIDE DEF s, t
  <2>5. \A i \in 1 .. Len(s) : s[i] = t[i]  BY <2>2, <2>3, <2>4 DEF s
  <2>6. s = t  BY <2>1, <2>2, <2>4, <2>5, SeqEqual, Zenon DEF s, t
  <2> QED BY <2>6 DEF s, t
<1>3. Head(<<x>>) = x  OBVIOUS
<1>4. Tail(<<x>>) = <<>>  OBVIOUS
<1>5. <<x>> # <<>>  OBVIOUS
<1>6. Head(<<x, y>>) = x  OBVIOUS
<1>7. Tail(<<x, y>>) = <<y>>  OBVIOUS
<1>8. <<x, y>> # <<>>  OBVIOUS
<1> QED BY <1>1, <1>2, <1>3, <1>4, <1>5, <1>6, <1>7, <1>8

\* next_counter stays in the range, and the counter after it is another one: this is what
\* Receiver::awaiting compares.
LEMMA Counters ==
    ASSUME NEW c \in Maybe(Counter)
    PROVE  /\ NextCounter(c) \in Counter
           /\ (NextCounter(c) + 1) % CounterMod \in Counter
           /\ (NextCounter(c) + 1) % CounterMod # NextCounter(c)
           /\ NextCounter(NextCounter(c)) = (NextCounter(c) + 1) % CounterMod
<1>1. ASSUME NEW d \in Counter
      PROVE  (d + 1) % CounterMod \in Counter /\ (d + 1) % CounterMod # d
  <2>1. (d + 1) % CounterMod = IF d + 1 = CounterMod THEN 0 ELSE d + 1
    BY DEF Counter
  <2> QED BY <2>1 DEF Counter
<1>2. NextCounter(c) \in Counter
  BY <1>1 DEF NextCounter, Maybe, Counter
<1>3. NextCounter(c) # None
  BY <1>2 DEF Counter
<1> QED BY <1>1, <1>2, <1>3 DEF NextCounter

-----------------------------------------------------------------------------
(* The invariant *)

Diagonal == {<<n, n>> : n \in Nat}

\* What a Responder that accepts has agreed to, of what the Init proposed (negotiate). A
\* definite length is never more than the file has from the start offset on.
Agreement ==
    /\ agreed \in Parameters
    /\ agreed.senderDrive # agreed.receiverDrive
    /\ agreed.senderDrive => proposal.senderDrive
    /\ agreed.receiverDrive => proposal.receiverDrive
    /\ agreed.block # 0 /\ agreed.block <= proposal.block
    /\ agreed.offset = OrZero(proposal.offset)
    /\ proposal.direction = "Upload" => agreed.length = proposal.length
    /\ proposal.direction = "Download" /\ proposal.length # None /\ agreed.length # None
           => agreed.length <= proposal.length
    /\ agreed.length # None => agreed.length <= Left(agreed.offset)

\* Before the transfer runs neither end has done anything.
Fresh ==
    /\ sender = NoSender /\ receiver = NoReceiver
    /\ toSender = <<>> /\ toReceiver = <<>> /\ acked = TRUE
    /\ stored = <<>> /\ skipped = 0 /\ refused = None

\* The octets accounted for: where the Receiver is, and how far the Sender may have got.
Ledger ==
    /\ position = agreed.offset + receiver.received + skipped
    /\ sender.sent <= Left(agreed.offset)
    /\ agreed.length # None => sender.sent <= agreed.length
    /\ sender.finished /\ skipped = 0 =>
           sender.sent = IF agreed.length = None THEN Left(agreed.offset) ELSE agreed.length

\* The two ends agree on what was moved.
Level ==
    /\ sender.counter = receiver.counter /\ sender.sent = receiver.received
    /\ sender.finished = receiver.finished

\* Neither end has seen the last block through.
Open == ~receiver.finished /\ ~receiver.complete /\ ~sender.complete

\* The block after the last one received has been asked for, and no other.
Awaited == receiver.query = (NextCounter(receiver.counter) + 1) % CounterMod

AckMessage ==
    [kind |-> "ack", counter |-> receiver.counter, skip |-> 0, eof |-> receiver.finished]
QueryMessage(skip) ==
    [kind |-> "query", counter |-> NextCounter(receiver.counter), skip |-> skip, eof |-> FALSE]
BlockMessage(len, eof) ==
    [counter |-> sender.counter, at |-> position, len |-> len, eof |-> eof]

\* Nothing is under way; the Receiver may owe an acknowledgement.
Quiet ==
    /\ toReceiver = <<>> /\ toSender = <<>> /\ ~sender.queried
    /\ Level /\ sender.cursor = position
    /\ agreed.receiverDrive => ~Awaiting
    /\ IF receiver.pending
       THEN /\ receiver.counter # None /\ ~receiver.complete /\ ~sender.complete
            /\ agreed.senderDrive => ~acked
       ELSE receiver.complete = receiver.finished /\ sender.complete = sender.finished

\* An acknowledgement is under way.
Acknowledged ==
    /\ toReceiver = <<>> /\ toSender = <<AckMessage>> /\ ~sender.queried
    /\ Level /\ sender.cursor = position
    /\ agreed.receiverDrive => ~Awaiting
    /\ receiver.counter # None /\ ~receiver.pending
    /\ receiver.complete = receiver.finished /\ ~sender.complete
    /\ agreed.senderDrive => ~acked

\* A query is under way, perhaps behind the acknowledgement of the block before.
Queried ==
    \E skip \in Nat :
        /\ agreed.receiverDrive
        /\ toReceiver = <<>> /\ ~sender.queried
        /\ \/ toSender = <<QueryMessage(skip)>>
           \/ toSender = <<AckMessage, QueryMessage(skip)>> /\ receiver.counter # None
        /\ Level /\ position = sender.cursor + skip
        /\ Awaited /\ ~receiver.pending /\ Open

\* A query was taken and not answered yet.
Told ==
    /\ agreed.receiverDrive
    /\ toReceiver = <<>> /\ toSender = <<>> /\ sender.queried
    /\ Level /\ sender.cursor = position
    /\ Awaited /\ ~receiver.pending /\ Open

\* A block is under way.
Sent ==
    \E len \in Nat, eof \in BOOLEAN :
        /\ toReceiver = <<BlockMessage(len, eof)>> /\ toSender = <<>> /\ ~sender.queried
        /\ sender.counter = NextCounter(receiver.counter)
        /\ sender.sent = receiver.received + len /\ sender.cursor = position + len
        /\ sender.finished = eof
        /\ agreed.receiverDrive => Awaited
        /\ agreed.senderDrive => ~acked
        /\ len <= agreed.block /\ (len = 0 => eof)
        /\ ~Mismatch(agreed, receiver.received + len, eof)
        /\ ~receiver.pending /\ Open

Stage == Quiet \/ Acknowledged \/ Queried \/ Told \/ Sent

BdxInv ==
    /\ TypeOK
    /\ stored \in Seq(Diagonal)
    /\ phase \in {"accepted", "running"} => Agreement
    /\ phase # "running" => Fresh
    /\ phase = "running" => params = agreed /\ Ledger /\ Stage
    /\ proposal.direction = "Upload" => proposal.length \in {None, Owned(proposal)}
    /\ refused # None => skipped > 0 /\ agreed.length # None

-----------------------------------------------------------------------------
(* The negotiation *)

\* No end has done anything when the Init is sent.
LEMMA InitHolds == Init => BdxInv
<1> SUFFICES ASSUME Init PROVE BdxInv
  OBVIOUS
<1>1. TypeOK
  BY DEF Init, TypeOK, NoSender, NoReceiver, Sender, Receiver, Maybe, Counter
<1>2. Fresh /\ stored \in Seq(Diagonal)
  BY DEF Init, Fresh
<1> QED BY <1>1, <1>2 DEF Init, BdxInv, Fresh

\* A definite length that negotiate settles on is one the file can give.
LEMMA LengthFits ==
    ASSUME proposal \in Proposal, NEW limits \in Limits(proposal),
           proposal.direction = "Upload" => proposal.length \in {None, Owned(proposal)}
    PROVE  LET length == Length(proposal, limits)
           IN  /\ length \in Maybe(Nat)
               /\ length # None => length <= Owned(proposal)
               /\ proposal.direction = "Upload" => length = proposal.length
               /\ proposal.direction = "Download" /\ proposal.length # None /\ length # None
                      => length <= proposal.length
<1>1. Owned(proposal) \in Nat
  <2>1. OrZero(proposal.offset) \in Nat
    BY Zenon DEF OrZero, Proposal, Maybe
  <2> QED BY <2>1 DEF Owned, Left
<1>2. proposal.length \in Maybe(Nat) /\ limits.available \in Maybe({Owned(proposal)})
      /\ (proposal.length # None => limits.available = Owned(proposal))
  BY Zenon, <1>1 DEF Limits, Maybe, Proposal
<1>3. CASE proposal.direction = "Upload"
  <2>1. Length(proposal, limits) = proposal.length
    BY <1>3 DEF Length
  <2> QED BY <1>1, <1>2, <1>3, <2>1
<1>4. CASE proposal.direction = "Download" /\ proposal.length # None
  <2>1. Length(proposal, limits) = Lower(proposal.length, Owned(proposal))
    BY <1>1, <1>2, <1>4 DEF Length
  <2> QED BY <1>1, <1>2, <1>4, <2>1 DEF Lower, Maybe
<1>5. CASE proposal.direction = "Download" /\ proposal.length = None
  <2>1. Length(proposal, limits) = limits.available
    BY <1>2, <1>5 DEF Length
  <2> QED BY <1>1, <1>2, <1>5, <2>1 DEF Maybe
<1> QED BY <1>3, <1>4, <1>5 DEF Proposal

\* A Responder that does not refuse agrees to something the Init allows.
LEMMA NegotiateAgrees ==
    ASSUME proposal \in Proposal, NEW limits \in Limits(proposal),
           proposal.direction = "Upload" => proposal.length \in {None, Owned(proposal)},
           ~Rejects(proposal, limits), agreed' = Negotiate(proposal, limits), proposal' = proposal
    PROVE  Agreement'
<1> DEFINE length == Length(proposal, limits)
<1>1. /\ length \in Maybe(Nat)
      /\ length # None => length <= Owned(proposal)
      /\ proposal.direction = "Upload" => length = proposal.length
      /\ proposal.direction = "Download" /\ proposal.length # None /\ length # None
             => length <= proposal.length
  BY LengthFits
<1>2. agreed' = [senderDrive |-> proposal.senderDrive,
                 receiverDrive |-> proposal.receiverDrive /\ ~proposal.senderDrive,
                 block |-> Lower(proposal.block, limits.block),
                 offset |-> OrZero(proposal.offset), length |-> length]
  BY DEF Negotiate
<1> HIDE DEF length
<1>3. /\ proposal.senderDrive \in BOOLEAN /\ proposal.receiverDrive \in BOOLEAN
      /\ proposal.senderDrive \/ proposal.receiverDrive
  BY DEF Proposal, Rejects
<1>4. /\ proposal.block \in Nat \ {0} /\ limits.block \in Nat \ {0}
      /\ OrZero(proposal.offset) \in Nat
  BY Zenon DEF Proposal, Limits, Rejects, OrZero, Maybe
<1>5. Lower(proposal.block, limits.block) \in Nat \ {0}
      /\ Lower(proposal.block, limits.block) <= proposal.block
  BY <1>4 DEF Lower
<1>6. agreed' \in Parameters
  BY <1>1, <1>2, <1>3, <1>4, <1>5 DEF Parameters
<1>7. agreed'.senderDrive # agreed'.receiverDrive
  BY <1>2, <1>3
<1> QED BY <1>1, <1>2, <1>3, <1>5, <1>6, <1>7 DEF Agreement, Owned

\* The Responder's answer.
LEMMA RespondKeeps ==
    ASSUME BdxInv, NEW limits \in Limits(proposal), Respond(limits)
    PROVE  BdxInv'
<1>1. Fresh' /\ TypeOK /\ phase = "proposed" /\ proposal' = proposal
  BY DEF BdxInv, Respond, Fresh
<1>2. CASE Rejects(proposal, limits)
  <2>1. phase' = "rejected" /\ agreed' = agreed
    BY <1>2 DEF Respond
  <2>2. TypeOK'
    BY <1>1, <2>1 DEF Respond, TypeOK
  <2> QED BY <1>1, <2>1, <2>2 DEF BdxInv, Respond, Fresh, Owned
<1>3. CASE ~Rejects(proposal, limits)
  <2>1. phase' = "accepted" /\ agreed' = Negotiate(proposal, limits)
    BY <1>3 DEF Respond
  <2>2. Agreement'
    BY <1>1, <1>3, <2>1, NegotiateAgrees DEF BdxInv, TypeOK
  <2>3. TypeOK'
    BY <1>1, <2>1, <2>2 DEF Respond, TypeOK, Agreement, Maybe
  <2> QED BY <1>1, <2>1, <2>2, <2>3 DEF BdxInv, Respond, Fresh, Owned
<1> QED BY <1>2, <1>3

\* The Initiator accepts whatever a Responder agreed to, and takes the same parameters.
LEMMA AcceptedKeeps ==
    ASSUME BdxInv, Accepted
    PROVE  BdxInv'
<1>1. Fresh /\ Agreement /\ TypeOK /\ proposal \in Proposal /\ phase = "accepted"
  BY DEF BdxInv, Accepted, TypeOK
<1>2. FromAccept(proposal, agreed) = agreed
  <2>1. agreed = [senderDrive |-> agreed.senderDrive, receiverDrive |-> agreed.receiverDrive,
                  block |-> agreed.block, offset |-> agreed.offset, length |-> agreed.length]
    BY <1>1 DEF Agreement, Parameters
  <2>2. agreed.offset = OrZero(proposal.offset)
        /\ agreed.length = IF proposal.direction = "Upload" THEN proposal.length ELSE agreed.length
    BY <1>1 DEF Agreement
  <2> QED BY <2>1, <2>2 DEF FromAccept
<1>3. Acceptable(proposal, agreed)
  BY <1>1 DEF Agreement, Acceptable, Parameters, Proposal
<1>4. /\ phase' = "running" /\ params' = agreed /\ position' = agreed.offset
      /\ sender' = [NoSender EXCEPT !.cursor = agreed.offset]
      /\ UNCHANGED <<proposal, agreed, receiver, toSender, toReceiver, acked, stored, skipped,
                     refused>>
  BY <1>1, <1>2, <1>3 DEF Accepted, Fresh
<1>5. agreed.offset \in Nat /\ agreed \in Parameters
  BY <1>1 DEF Agreement, Parameters
<1>6. sender' = [cursor |-> agreed.offset, sent |-> 0, counter |-> None, queried |-> FALSE,
                 finished |-> FALSE, complete |-> FALSE]
  BY Zenon, <1>4 DEF NoSender
<1>7. TypeOK'
  <2>1. sender' \in Sender
    BY <1>5, <1>6 DEF Maybe, Sender
  <2>2. params' \in Maybe(Parameters) /\ position' \in Nat
    BY <1>4, <1>5 DEF Maybe
  <2> QED BY <1>1, <1>4, <2>1, <2>2 DEF TypeOK
<1>8. Agreement'
  BY <1>1, <1>4 DEF Agreement
<1>9. receiver' = NoReceiver /\ skipped' = 0 /\ refused' = None
  BY <1>1, <1>4 DEF Fresh
<1>10. Ledger'
  BY <1>4, <1>5, <1>6, <1>9 DEF Ledger, NoReceiver, Left, Parameters, Maybe
<1>11. Quiet'
  <2>1. sender'.cursor = position'
    BY <1>4, <1>6
  <2>5. Level'
    <3>1. sender'.counter = None /\ sender'.sent = 0 /\ sender'.finished = FALSE
      BY <1>6
    <3>2. receiver'.counter = None /\ receiver'.received = 0 /\ receiver'.finished = FALSE
      BY <1>9 DEF NoReceiver
    <3> QED BY Zenon, <3>1, <3>2 DEF Level
  <2>4. ~Awaiting'
    BY <1>9 DEF NoReceiver, Awaiting, NextCounter
  <2>2. toReceiver' = <<>> /\ toSender' = <<>>
    BY <1>1, <1>4 DEF Fresh
  <2>3. /\ ~receiver'.pending /\ receiver'.complete = receiver'.finished
        /\ sender'.complete = sender'.finished /\ ~sender'.queried
    BY <1>6, <1>9 DEF NoReceiver
  <2> QED BY Zenon, <2>1, <2>2, <2>3, <2>4, <2>5 DEF Quiet
<1> QED BY <1>1, <1>4, <1>7, <1>8, <1>9, <1>10, <1>11 DEF BdxInv, Stage, Owned, Fresh

-----------------------------------------------------------------------------
(* The transfer *)

\* What holds while the transfer runs: one set of parameters, at both ends.
LEMMA RunningFacts ==
    ASSUME BdxInv, Running
    PROVE  /\ TypeOK /\ Agreement /\ Ledger /\ Stage /\ stored \in Seq(Diagonal)
           /\ phase = "running" /\ refused = None
           /\ SenderParams = agreed /\ ReceiverParams = agreed
           /\ agreed \in Parameters /\ agreed.block \in Nat /\ agreed.offset \in Nat
           /\ agreed.length # None => agreed.length \in Nat
           /\ agreed.senderDrive = ~agreed.receiverDrive
           /\ agreed.senderDrive \in BOOLEAN /\ agreed.receiverDrive \in BOOLEAN
<1>1. /\ TypeOK /\ Agreement /\ Ledger /\ Stage /\ stored \in Seq(Diagonal)
      /\ phase = "running" /\ refused = None /\ params = agreed
  BY DEF BdxInv, Running
<1>2. agreed \in Parameters
  BY <1>1 DEF Agreement
<1>3. SenderParams = agreed /\ ReceiverParams = agreed
  BY <1>1 DEF SenderParams, ReceiverParams
<1>4. /\ agreed.block \in Nat /\ agreed.offset \in Nat
      /\ agreed.length # None => agreed.length \in Nat
      /\ agreed.senderDrive \in BOOLEAN /\ agreed.receiverDrive \in BOOLEAN
  BY <1>2 DEF Parameters, Maybe
<1>5. agreed.senderDrive = ~agreed.receiverDrive
  BY Zenon, <1>1, <1>4 DEF Agreement
<1> QED BY Zenon, <1>1, <1>2, <1>3, <1>4, <1>5

\* What is left to show for a step of the transfer.
LEMMA Frame ==
    ASSUME BdxInv, Running, UNCHANGED <<phase, proposal, agreed, params>>,
           sender' \in Sender, receiver' \in Receiver, acked' \in BOOLEAN,
           position' \in Nat, skipped' \in Nat,
           stored' \in Seq(Diagonal), Ledger', Stage',
           refused' # None => skipped' > 0 /\ agreed.length # None
    PROVE  BdxInv'
<1>1. TypeOK'
  BY Zenon DEF BdxInv, TypeOK
<1>2. Agreement'
  BY Zenon, RunningFacts DEF Agreement
<1> QED BY <1>1, <1>2 DEF BdxInv, Running, Owned

\* Stages in which the Sender may send, and what the two ends know then.
LEMMA MayOnlySend ==
    ASSUME BdxInv, Running, MaySend, SenderParams.senderDrive => acked
    PROVE  /\ Level /\ sender.cursor = position /\ toReceiver = <<>> /\ toSender = <<>>
           /\ agreed.receiverDrive => Awaited
           /\ ~receiver.pending /\ Open
<1>1. /\ Stage /\ SenderParams = agreed /\ agreed.senderDrive = ~agreed.receiverDrive
      /\ ~sender.finished /\ ~sender.complete /\ (agreed.senderDrive \/ sender.queried)
      /\ agreed.senderDrive => acked
  BY Zenon, RunningFacts DEF MaySend
<1>2. CASE Quiet
  BY Zenon, <1>1, <1>2 DEF Quiet, Level, Open
<1>3. CASE Told
  BY Zenon, <1>1, <1>3 DEF Told
<1>4. ~Acknowledged /\ ~Queried /\ ~Sent
  BY Zenon, <1>1 DEF Acknowledged, Queried, Sent
<1> QED BY Zenon, <1>1, <1>2, <1>3, <1>4 DEF Stage

\* The Sender's own check refuses a block only where part of a definite length was skipped,
\* and what it lets through the Receiver accepts.
LEMMA SendKeeps ==
    ASSUME BdxInv, NEW len \in 0 .. FileSize, NEW eof \in BOOLEAN, SendBlock(len, eof)
    PROVE  BdxInv'
<1>1. /\ Running /\ MaySend /\ (SenderParams.senderDrive => acked)
      /\ UNCHANGED <<phase, proposal, agreed, params, receiver, toSender, position, stored,
                     skipped>>
  BY DEF SendBlock
<1>2. /\ TypeOK /\ Ledger /\ Stage /\ stored \in Seq(Diagonal) /\ refused = None
      /\ SenderParams = agreed
      /\ agreed.block \in Nat /\ agreed.offset \in Nat
      /\ agreed.length # None => agreed.length \in Nat
      /\ agreed.length # None => agreed.length <= Left(agreed.offset)
  BY Zenon, <1>1, RunningFacts DEF Agreement
<1>3. /\ Level /\ sender.cursor = position /\ toReceiver = <<>> /\ toSender = <<>>
      /\ agreed.receiverDrive => Awaited
      /\ ~receiver.pending /\ Open /\ ~sender.finished
  BY Zenon, <1>1, MayOnlySend DEF MaySend
<1>4. /\ sender \in Sender /\ receiver \in Receiver /\ skipped \in Nat /\ position \in Nat
      /\ acked \in BOOLEAN
      /\ sender.sent \in Nat /\ sender.cursor \in Nat /\ receiver.received \in Nat
      /\ sender.counter \in Maybe(Counter) /\ len \in Nat
  BY <1>2 DEF TypeOK, Sender, Receiver
<1>5. sender.cursor = agreed.offset + sender.sent + skipped
  BY <1>2, <1>3, <1>4 DEF Ledger, Level
<1>6. /\ len <= Left(sender.cursor) /\ len <= Room
      /\ eof => AtEnd(len)
      /\ len = 0 => eof
  <2>1. len <= Lower(Room, Left(sender.cursor)) /\ (eof => AtEnd(len)) /\ (len = 0 => eof)
    BY DEF SendBlock
  <2>2. Room \in Int /\ Left(sender.cursor) \in Nat
    BY <1>2, <1>4 DEF Room, Lower, Left
  <2> QED BY <1>4, <2>1, <2>2 DEF Lower
<1>7. /\ Left(agreed.offset) \in Nat
      /\ sender.sent + len <= Left(agreed.offset)
      /\ skipped = 0 /\ len = Left(sender.cursor) => sender.sent + len = Left(agreed.offset)
  <2>1. sender.sent <= Left(agreed.offset)
    BY <1>2 DEF Ledger
  <2>2. len <= Left(agreed.offset + sender.sent + skipped)
    BY Zenon, <1>5, <1>6
  <2>3. /\ Left(agreed.offset) \in Nat /\ sender.sent + len <= Left(agreed.offset)
        /\ skipped = 0 /\ len = Left(agreed.offset + sender.sent + skipped)
               => sender.sent + len = Left(agreed.offset)
    <3>1. agreed.offset \in Nat /\ sender.sent \in Nat /\ skipped \in Nat /\ len \in Nat
      BY <1>2, <1>4
    <3> DEFINE offset == agreed.offset  sent == sender.sent
    <3>2. offset \in Nat /\ sent \in Nat /\ sent <= Left(offset)
          /\ len <= Left(offset + sent + skipped)
      BY Zenon, <3>1, <2>1, <2>2
    <3> HIDE DEF offset, sent
    <3>3. /\ Left(offset) \in Nat /\ sent + len <= Left(offset)
          /\ skipped = 0 /\ len = Left(offset + sent + skipped) => sent + len = Left(offset)
      BY <3>1, <3>2 DEF Left
    <3> QED BY Zenon, <3>3 DEF offset, sent
  <2> QED BY <1>5, <2>3
<1>8. len <= agreed.block /\ (agreed.length # None => sender.sent + len <= agreed.length)
  BY <1>2, <1>4, <1>6 DEF Room, Lower
<1>9. eof /\ skipped = 0 =>
          sender.sent + len = IF agreed.length = None THEN Left(agreed.offset) ELSE agreed.length
  BY <1>2, <1>4, <1>6, <1>7, <1>8 DEF AtEnd
<1>10. CASE Mismatch(SenderParams, sender.sent + len, eof)
  <2>1. UNCHANGED <<sender, toReceiver, acked>>
    BY Zenon, <1>10 DEF SendBlock
  <2>2. skipped > 0 /\ agreed.length # None
    BY <1>2, <1>4, <1>8, <1>9, <1>10 DEF Mismatch
  <2>3. Ledger' /\ Stage'
    BY ZenonT(60), <1>1, <1>2, <2>1
       DEF Ledger, Stage, Quiet, Acknowledged, Queried, Told, Sent, Level, Open, Awaited,
           Awaiting, AckMessage, QueryMessage, BlockMessage
  <2> QED BY <1>1, <1>2, <1>4, <2>1, <2>2, <2>3, Frame
<1>11. CASE ~Mismatch(SenderParams, sender.sent + len, eof)
  <2>1. /\ sender' = [sender EXCEPT !.counter = NextCounter(@), !.sent = @ + len,
                           !.cursor = @ + len, !.queried = FALSE, !.finished = eof]
        /\ toReceiver' = Append(toReceiver,
                 [counter |-> NextCounter(sender.counter), at |-> sender.cursor,
                  len |-> len, eof |-> eof])
        /\ acked' = FALSE /\ refused' = refused
    BY Zenon, <1>11 DEF SendBlock
  <2>2. /\ sender' \in Sender
        /\ sender'.counter = NextCounter(sender.counter) /\ sender'.sent = sender.sent + len
        /\ sender'.cursor = sender.cursor + len /\ sender'.queried = FALSE
        /\ sender'.finished = eof /\ sender'.complete = sender.complete
    <3>1. NextCounter(sender.counter) \in Maybe(Counter)
      BY <1>4, Counters DEF Maybe
    <3>2. sender' = [cursor |-> sender.cursor + len, sent |-> sender.sent + len,
                     counter |-> NextCounter(sender.counter), queried |-> FALSE,
                     finished |-> eof, complete |-> sender.complete]
      BY Zenon, <1>4, <2>1 DEF Sender
    <3>3. sender.complete \in BOOLEAN /\ sender.cursor + len \in Nat /\ sender.sent + len \in Nat
      BY <1>4 DEF Sender
    <3> QED BY <3>1, <3>2, <3>3 DEF Sender
  <2>3. Ledger'
    BY <1>1, <1>2, <1>3, <1>4, <1>7, <1>8, <1>9, <2>2 DEF Ledger, Level
  <2>4. toReceiver' = <<BlockMessage(len, eof)>>'
    <3>1. toReceiver' = <<[counter |-> NextCounter(sender.counter), at |-> sender.cursor,
                           len |-> len, eof |-> eof]>>
      BY Zenon, <1>3, <2>1, ShortQueues
    <3> QED BY Zenon, <1>1, <1>3, <2>2, <3>1 DEF BlockMessage
  <2>5. ~Mismatch(agreed, receiver.received + len, eof)
    BY Zenon, <1>2, <1>3, <1>11 DEF Level
  <2>6. Sent'
    <3>1. sender'.sent = receiver'.received + len /\ sender'.cursor = position' + len
      BY Zenon, <1>1, <1>3, <2>2 DEF Level
    <3>2. sender'.counter = NextCounter(receiver.counter)'
      BY Zenon, <1>1, <1>3, <2>2 DEF Level, NextCounter
    <3>3. Open' /\ Awaited' = Awaited /\ ~Mismatch(agreed, receiver.received + len, eof)'
      BY Zenon, <1>1, <1>3, <2>2, <2>5 DEF Open, Awaited, Mismatch, NextCounter
    <3> QED BY Zenon, <1>1, <1>3, <1>4, <1>6, <1>8, <2>1, <2>2, <2>4, <3>1, <3>2, <3>3 DEF Sent
  <2> QED BY Zenon, <1>1, <1>2, <1>4, <2>1, <2>2, <2>3, <2>6, Frame DEF Stage
<1> QED BY <1>10, <1>11

\* Which stage it is tells what is at the head of the Sender's queue.
LEMMA HeadOfQueue ==
    /\ AckMessage.kind = "ack" /\ AckMessage.counter = receiver.counter
    /\ AckMessage.eof = receiver.finished
    /\ \A skip \in Nat :
           /\ QueryMessage(skip).kind = "query" /\ QueryMessage(skip).skip = skip
           /\ QueryMessage(skip).counter = NextCounter(receiver.counter)
           /\ Head(<<AckMessage>>) = AckMessage /\ Tail(<<AckMessage>>) = <<>>
           /\ Head(<<QueryMessage(skip)>>) = QueryMessage(skip)
           /\ Tail(<<QueryMessage(skip)>>) = <<>>
           /\ Head(<<AckMessage, QueryMessage(skip)>>) = AckMessage
           /\ Tail(<<AckMessage, QueryMessage(skip)>>) = <<QueryMessage(skip)>>
<1>1. /\ AckMessage.kind = "ack" /\ AckMessage.counter = receiver.counter
      /\ AckMessage.eof = receiver.finished
  BY DEF AckMessage
<1>2. \A skip \in Nat :
          /\ QueryMessage(skip).kind = "query" /\ QueryMessage(skip).skip = skip
          /\ QueryMessage(skip).counter = NextCounter(receiver.counter)
  BY DEF QueryMessage
<1> QED BY Zenon, <1>1, <1>2, ShortQueues

\* The Sender takes the query it is asked, and moves as far as the Receiver did.
LEMMA OnQueryKeeps ==
    ASSUME BdxInv, OnQuery
    PROVE  BdxInv'
<1>1. /\ Running /\ toSender # <<>> /\ Head(toSender).kind = "query"
      /\ refused' = QueryStatus(Head(toSender).counter)
      /\ sender' = IF refused' # None THEN sender
                   ELSE [sender EXCEPT !.queried = TRUE, !.cursor = @ + Head(toSender).skip]
      /\ toSender' = Tail(toSender)
      /\ UNCHANGED <<phase, proposal, agreed, params, receiver, toReceiver, acked, position,
                     stored, skipped>>
  BY Zenon DEF OnQuery
<1>2. /\ TypeOK /\ Ledger /\ Stage /\ stored \in Seq(Diagonal) /\ SenderParams = agreed
      /\ agreed.receiverDrive \in BOOLEAN
  BY Zenon, <1>1, RunningFacts
<1>3. /\ sender \in Sender /\ receiver \in Receiver /\ skipped \in Nat /\ position \in Nat
      /\ acked \in BOOLEAN
  BY Zenon, <1>2 DEF TypeOK
<1>4. PICK skip \in Nat :
          /\ toSender = <<QueryMessage(skip)>>
          /\ agreed.receiverDrive /\ toReceiver = <<>> /\ ~sender.queried
          /\ Level /\ position = sender.cursor + skip
          /\ Awaited /\ ~receiver.pending /\ Open
  <2>1. ~Quiet /\ ~Told /\ ~Sent
    BY Zenon, <1>1 DEF Quiet, Told, Sent
  <2>2. "ack" # "query"
    OBVIOUS
  <2>3. ~Acknowledged
    BY Zenon, <1>1, <2>2, HeadOfQueue DEF Acknowledged
  <2> QED BY ZenonT(60), <1>1, <1>2, <2>1, <2>2, <2>3, HeadOfQueue DEF Stage, Queried
<1>5. /\ Head(toSender).counter = NextCounter(sender.counter)
      /\ Head(toSender).skip = skip /\ toSender' = <<>>
  BY Zenon, <1>1, <1>4, HeadOfQueue DEF Level
<1>6. refused' = None
  BY Zenon, <1>1, <1>2, <1>4, <1>5 DEF QueryStatus, Level, Open
<1>7. sender' = [cursor |-> sender.cursor + skip, sent |-> sender.sent,
                 counter |-> sender.counter, queried |-> TRUE,
                 finished |-> sender.finished, complete |-> sender.complete]
  <2>1. sender' = [sender EXCEPT !.queried = TRUE, !.cursor = @ + skip]
    BY Zenon, <1>1, <1>5, <1>6
  <2> QED BY Zenon, <1>3, <2>1 DEF Sender
<1>8. sender' \in Sender
  <2>1. sender.cursor + skip \in Nat
    BY <1>3 DEF Sender
  <2> QED BY <1>3, <1>7, <2>1 DEF Sender
<1>9. Ledger'
  BY <1>1, <1>2, <1>7 DEF Ledger
<1>10. Told'
  <2>1. /\ sender'.cursor = sender.cursor + skip /\ sender'.sent = sender.sent
        /\ sender'.counter = sender.counter /\ sender'.queried = TRUE
        /\ sender'.finished = sender.finished /\ sender'.complete = sender.complete
    BY <1>7
  <2> QED BY Zenon, <1>1, <1>4, <1>5, <2>1 DEF Told, Level, Awaited, Open, NextCounter
<1> QED BY Zenon, <1>1, <1>2, <1>3, <1>6, <1>8, <1>9, <1>10, Frame DEF Stage

\* The Sender takes the acknowledgement of its block: the last one ends its session.
LEMMA OnAckKeeps ==
    ASSUME BdxInv, OnAck
    PROVE  BdxInv'
<1>1. /\ Running /\ toSender # <<>> /\ Head(toSender).kind = "ack"
      /\ refused' = AckStatus(Head(toSender).counter, Head(toSender).eof)
      /\ sender' = IF refused' # None THEN sender
                   ELSE [sender EXCEPT !.complete = Head(toSender).eof]
      /\ toSender' = Tail(toSender) /\ acked' = TRUE
      /\ UNCHANGED <<phase, proposal, agreed, params, receiver, toReceiver, position, stored,
                     skipped>>
  BY Zenon DEF OnAck
<1>2. /\ TypeOK /\ Ledger /\ Stage /\ stored \in Seq(Diagonal) /\ SenderParams = agreed
      /\ agreed.receiverDrive \in BOOLEAN
  BY Zenon, <1>1, RunningFacts
<1>3. /\ sender \in Sender /\ receiver \in Receiver /\ skipped \in Nat /\ position \in Nat
  BY Zenon, <1>2 DEF TypeOK
<1>4. \/ Acknowledged
      \/ \E skip \in Nat :
             /\ toSender = <<AckMessage, QueryMessage(skip)>> /\ receiver.counter # None
             /\ agreed.receiverDrive /\ toReceiver = <<>> /\ ~sender.queried
             /\ Level /\ position = sender.cursor + skip
             /\ Awaited /\ ~receiver.pending /\ Open
  <2>1. ~Quiet /\ ~Told /\ ~Sent
    BY Zenon, <1>1 DEF Quiet, Told, Sent
  <2>2. "ack" # "query"
    OBVIOUS
  <2> QED BY ZenonT(60), <1>1, <1>2, <2>1, <2>2, HeadOfQueue DEF Stage, Queried
<1>5. /\ Head(toSender) = AckMessage /\ receiver.counter # None /\ Level
      /\ sender.complete = FALSE
  <2>1. sender.complete \in BOOLEAN
    BY <1>3 DEF Sender
  <2>2. 0 \in Nat
    OBVIOUS
  <2> QED BY ZenonT(60), <1>4, <2>1, <2>2, HeadOfQueue DEF Acknowledged, Open
<1>6. refused' = None
  BY Zenon, <1>1, <1>5, HeadOfQueue DEF AckStatus, Level
<1>7. sender' = [cursor |-> sender.cursor, sent |-> sender.sent, counter |-> sender.counter,
                 queried |-> sender.queried, finished |-> sender.finished,
                 complete |-> receiver.finished]
  <2>1. sender' = [sender EXCEPT !.complete = receiver.finished]
    BY Zenon, <1>1, <1>5, <1>6, HeadOfQueue
  <2> QED BY <1>3, <2>1 DEF Sender
<1>8. sender' \in Sender
  BY <1>3, <1>7 DEF Sender, Receiver
<1>9. Ledger'
  BY <1>1, <1>2, <1>7 DEF Ledger
<1>10. /\ sender'.cursor = sender.cursor /\ sender'.sent = sender.sent
       /\ sender'.counter = sender.counter /\ sender'.queried = sender.queried
       /\ sender'.finished = sender.finished /\ sender'.complete = receiver.finished
  BY <1>7
<1>11. Stage'
  <2>1. CASE Acknowledged
    <3>1. toSender' = <<>>
      <4>1. 0 \in Nat
        OBVIOUS
      <4> QED BY Zenon, <1>1, <2>1, <4>1, HeadOfQueue DEF Acknowledged
    <3> QED BY Zenon, <1>1, <1>10, <2>1, <3>1
            DEF Acknowledged, Stage, Quiet, Level, Awaiting, NextCounter
  <2>2. ASSUME NEW skip \in Nat,
               /\ toSender = <<AckMessage, QueryMessage(skip)>> /\ receiver.counter # None
               /\ agreed.receiverDrive /\ toReceiver = <<>> /\ ~sender.queried
               /\ Level /\ position = sender.cursor + skip
               /\ Awaited /\ ~receiver.pending /\ Open
        PROVE  Queried'
    <3>1. toSender' = <<QueryMessage(skip)>>'
      <4>1. toSender' = <<QueryMessage(skip)>>
        BY Zenon, <1>1, <2>2, HeadOfQueue
      <4>2. QueryMessage(skip)' = QueryMessage(skip)
        BY Zenon, <1>1 DEF QueryMessage, NextCounter
      <4> QED BY Zenon, <4>1, <4>2
    <3>2. Level' /\ Awaited' /\ Open'
      BY Zenon, <1>1, <1>10, <2>2 DEF Level, Awaited, Open, NextCounter
    <3> QED BY Zenon, <1>1, <1>10, <2>2, <3>1, <3>2 DEF Queried
  <2> QED BY Zenon, <1>4, <2>1, <2>2 DEF Stage
<1> QED BY Zenon, <1>1, <1>2, <1>3, <1>6, <1>8, <1>9, <1>11, Frame

\* A Receiver that may ask has nothing under way but, perhaps, an acknowledgement.
LEMMA MayOnlyQuery ==
    ASSUME BdxInv, Running, ReceiverParams.receiverDrive, ~receiver.finished,
           ~receiver.complete, ~Awaiting
    PROVE  /\ toReceiver = <<>> /\ ~sender.queried /\ Level /\ sender.cursor = position
           /\ ~sender.complete
           /\ \/ toSender = <<>>
              \/ toSender = <<AckMessage>> /\ receiver.counter # None
<1>1. /\ Stage /\ TypeOK /\ agreed.receiverDrive
  BY Zenon, RunningFacts
<1>2. ~Awaited
  <2>1. receiver.counter \in Maybe(Counter)
    BY <1>1 DEF TypeOK, Receiver
  <2>2. (NextCounter(receiver.counter) + 1) % CounterMod # NextCounter(receiver.counter)
    BY <2>1, Counters
  <2> QED BY Zenon, <2>2 DEF Awaiting, Awaited
<1>3. ~Queried /\ ~Told /\ ~Sent
  BY Zenon, <1>1, <1>2 DEF Queried, Told, Sent
<1>4. CASE Quiet
  BY Zenon, <1>4 DEF Quiet, Level
<1>5. CASE Acknowledged
  BY Zenon, <1>5 DEF Acknowledged
<1> QED BY Zenon, <1>1, <1>3, <1>4, <1>5 DEF Stage

\* The Receiver asks for the next block, and gives up acknowledging the one before.
LEMMA AskKeeps ==
    ASSUME BdxInv, NEW skip \in Skips, Query(skip)
    PROVE  BdxInv'
<1>1. /\ Running /\ ReceiverParams.receiverDrive /\ ~receiver.finished /\ ~receiver.complete
      /\ ~Awaiting
      /\ receiver' = [receiver EXCEPT !.pending = FALSE, !.query = (@ + 1) % CounterMod]
      /\ toSender' = Append(toSender,
             [kind |-> "query", counter |-> receiver.query, skip |-> skip, eof |-> FALSE])
      /\ position' = position + skip /\ skipped' = skipped + skip
      /\ UNCHANGED <<phase, proposal, agreed, params, sender, toReceiver, acked, stored,
                     refused>>
  BY Zenon DEF Query
<1>2. /\ TypeOK /\ Ledger /\ stored \in Seq(Diagonal) /\ ReceiverParams = agreed
      /\ agreed.offset \in Nat /\ refused = None
  BY Zenon, <1>1, RunningFacts
<1>3. /\ sender \in Sender /\ receiver \in Receiver /\ skipped \in Nat /\ position \in Nat
      /\ acked \in BOOLEAN /\ skip \in Nat
      /\ receiver.counter \in Maybe(Counter) /\ receiver.received \in Nat
      /\ receiver.query \in Counter
  BY <1>2 DEF TypeOK, Receiver
<1>4. /\ toReceiver = <<>> /\ ~sender.queried /\ Level /\ sender.cursor = position
      /\ ~sender.complete
      /\ \/ toSender = <<>>
         \/ toSender = <<AckMessage>> /\ receiver.counter # None
  BY Zenon, <1>1, MayOnlyQuery
<1>5. /\ receiver.query = NextCounter(receiver.counter)
      /\ (receiver.query + 1) % CounterMod \in Counter
  BY <1>1, <1>3, Counters DEF Awaiting
<1>6. receiver' = [received |-> receiver.received, counter |-> receiver.counter,
                   query |-> (receiver.query + 1) % CounterMod, pending |-> FALSE,
                   finished |-> receiver.finished, complete |-> receiver.complete]
  BY Zenon, <1>1, <1>3 DEF Receiver
<1>7. receiver' \in Receiver
  BY <1>3, <1>5, <1>6 DEF Receiver
<1>8. /\ receiver'.received = receiver.received /\ receiver'.counter = receiver.counter
      /\ receiver'.query = (receiver.query + 1) % CounterMod /\ receiver'.pending = FALSE
      /\ receiver'.finished = receiver.finished /\ receiver'.complete = receiver.complete
  BY <1>6
<1>9. Ledger'
  <2>1. /\ position = agreed.offset + receiver.received + skipped
        /\ sender.sent <= Left(agreed.offset)
        /\ agreed.length # None => sender.sent <= agreed.length
    BY Zenon, <1>2 DEF Ledger
  <2>2. position' = agreed.offset + receiver.received + skipped'
    <3>1. /\ agreed.offset \in Nat /\ receiver.received \in Nat
          /\ skipped \in Nat /\ skip \in Nat
      BY Zenon, <1>2, <1>3
    <3>2. (agreed.offset + receiver.received + skipped) + skip
              = agreed.offset + receiver.received + (skipped + skip)
      BY <3>1
    <3> QED BY Zenon, <1>1, <2>1, <3>2
  <2>3. sender.finished = receiver.finished
    BY Zenon, <1>4 DEF Level
  <2> QED BY Zenon, <1>1, <1>8, <2>1, <2>2, <2>3 DEF Ledger
<1>10. Queried'
  <2>1. [kind |-> "query", counter |-> receiver.query, skip |-> skip, eof |-> FALSE]
            = QueryMessage(skip)'
    BY Zenon, <1>5, <1>8 DEF QueryMessage, NextCounter
  <2>2. AckMessage' = AckMessage
    BY Zenon, <1>8 DEF AckMessage
  <2>3. \/ toSender' = <<QueryMessage(skip)>>'
        \/ toSender' = <<AckMessage, QueryMessage(skip)>>' /\ receiver'.counter # None
    <3>1. toSender' = Append(toSender, QueryMessage(skip)')
      BY Zenon, <1>1, <2>1
    <3>2. CASE toSender = <<>>
      BY Zenon, <3>1, <3>2, ShortQueues
    <3>3. CASE toSender = <<AckMessage>> /\ receiver.counter # None
      <4>1. Append(<<AckMessage>>, QueryMessage(skip)') = <<AckMessage, QueryMessage(skip)'>>
        BY Zenon, ShortQueues
      <4> QED BY Zenon, <1>8, <2>2, <3>1, <3>3, <4>1
    <3> QED BY Zenon, <1>4, <3>2, <3>3
  <2>4. Level' /\ Awaited' /\ Open'
    BY Zenon, <1>1, <1>4, <1>5, <1>8 DEF Level, Awaited, Open, NextCounter
  <2>5. position' = sender'.cursor + skip
    BY Zenon, <1>1, <1>4
  <2> QED BY Zenon, <1>1, <1>2, <1>3, <1>4, <1>8, <2>3, <2>4, <2>5 DEF Queried
<1>11. position' \in Nat /\ skipped' \in Nat /\ refused' = None
  <2>1. \A p, k \in Nat : p + k \in Nat
    BY SMT
  <2> QED BY Zenon, <1>1, <1>2, <1>3, <2>1
<1> QED BY Zenon, <1>1, <1>2, <1>3, <1>7, <1>9, <1>10, <1>11, Frame DEF Stage

\* The Receiver acknowledges the block it has: the last one ends its session.
LEMMA AckKeeps ==
    ASSUME BdxInv, Ack
    PROVE  BdxInv'
<1>1. /\ Running /\ receiver.pending
      /\ receiver' = [receiver EXCEPT !.pending = FALSE, !.complete = receiver.finished]
      /\ toSender' = Append(toSender, AckMessage)
      /\ UNCHANGED <<phase, proposal, agreed, params, sender, toReceiver, acked, position,
                     stored, skipped, refused>>
  BY Zenon DEF Ack, AckMessage
<1>2. /\ TypeOK /\ Ledger /\ Stage /\ stored \in Seq(Diagonal) /\ refused = None
  BY Zenon, <1>1, RunningFacts
<1>3. /\ sender \in Sender /\ receiver \in Receiver /\ skipped \in Nat /\ position \in Nat
      /\ acked \in BOOLEAN
  BY Zenon, <1>2 DEF TypeOK
<1>4. Quiet
  BY Zenon, <1>1, <1>2 DEF Stage, Acknowledged, Queried, Told, Sent
<1>5. receiver' = [received |-> receiver.received, counter |-> receiver.counter,
                   query |-> receiver.query, pending |-> FALSE,
                   finished |-> receiver.finished, complete |-> receiver.finished]
  BY Zenon, <1>1, <1>3 DEF Receiver
<1>6. receiver' \in Receiver
  BY <1>3, <1>5 DEF Receiver
<1>7. /\ receiver'.received = receiver.received /\ receiver'.counter = receiver.counter
      /\ receiver'.query = receiver.query /\ receiver'.pending = FALSE
      /\ receiver'.finished = receiver.finished /\ receiver'.complete = receiver.finished
  BY <1>5
<1>8. Ledger'
  BY Zenon, <1>1, <1>2, <1>7 DEF Ledger
<1>9. Acknowledged'
  <2>1. toSender' = <<AckMessage>>'
    <3>1. toSender' = <<AckMessage>>
      BY Zenon, <1>1, <1>4, ShortQueues DEF Quiet
    <3>2. AckMessage' = AckMessage
      BY Zenon, <1>7 DEF AckMessage
    <3> QED BY Zenon, <3>1, <3>2
  <2>2. Level' /\ Awaiting' = Awaiting
    BY Zenon, <1>1, <1>4, <1>7 DEF Quiet, Level, Awaiting, NextCounter
  <2> QED BY Zenon, <1>1, <1>4, <1>7, <2>1, <2>2 DEF Acknowledged, Quiet
<1> QED BY Zenon, <1>1, <1>2, <1>3, <1>6, <1>8, <1>9, Frame DEF Stage

\* Octets stored where they came from stay on the diagonal.
LEMMA StoredInPlace ==
    ASSUME NEW octets \in Seq(Diagonal), NEW from \in Nat, NEW len \in Nat
    PROVE  octets \o [i \in 1 .. len |-> <<from + i - 1, from + i - 1>>] \in Seq(Diagonal)
<1> DEFINE block == [i \in 1 .. len |-> <<from + i - 1, from + i - 1>>]
<1>1. \A i \in 1 .. len : <<from + i - 1, from + i - 1>> \in Diagonal
  <2>1. \A i \in 1 .. len : from + i - 1 \in Nat
    OBVIOUS
  <2> QED BY Zenon, <2>1 DEF Diagonal
<1>2. block \in [1 .. len -> Diagonal]
  BY Zenon, <1>1
<1> HIDE DEF block
<1>3. block \in Seq(Diagonal)
  BY <1>2
<1>4. octets \o block \in Seq(Diagonal)
  BY Zenon, <1>3, ConcatProperties
<1> QED BY Zenon, <1>4 DEF block

\* The Receiver takes the block: it is the next one, of a length both ends allow, and it
\* belongs where the Receiver is.
LEMMA OnBlockKeeps ==
    ASSUME BdxInv, OnBlock
    PROVE  BdxInv'
<1> DEFINE m == Head(toReceiver)
<1>1. /\ Running /\ toReceiver # <<>>
      /\ refused' = BlockStatus(m)
      /\ IF refused' # None THEN UNCHANGED <<receiver, position, stored>>
         ELSE /\ receiver' = [receiver EXCEPT !.received = @ + m.len, !.counter = m.counter,
                                 !.pending = TRUE, !.finished = m.eof]
              /\ stored' = stored
                     \o [i \in 1 .. m.len |-> <<position + i - 1, m.at + i - 1>>]
              /\ position' = position + m.len
      /\ toReceiver' = Tail(toReceiver)
      /\ UNCHANGED <<phase, proposal, agreed, params, sender, toSender, acked, skipped>>
  BY Zenon DEF OnBlock
<1>2. /\ TypeOK /\ Ledger /\ Stage /\ stored \in Seq(Diagonal) /\ ReceiverParams = agreed
      /\ agreed.offset \in Nat /\ refused = None
      /\ agreed.block \in Nat
      /\ agreed.receiverDrive \in BOOLEAN /\ agreed.senderDrive = ~agreed.receiverDrive
  BY Zenon, <1>1, RunningFacts
<1>3. /\ sender \in Sender /\ receiver \in Receiver /\ skipped \in Nat /\ position \in Nat
      /\ acked \in BOOLEAN
      /\ receiver.counter \in Maybe(Counter) /\ receiver.received \in Nat
  BY <1>2 DEF TypeOK, Receiver
<1>4. PICK len \in Nat, eof \in BOOLEAN :
          /\ toReceiver = <<BlockMessage(len, eof)>> /\ toSender = <<>> /\ ~sender.queried
          /\ sender.counter = NextCounter(receiver.counter)
          /\ sender.sent = receiver.received + len /\ sender.cursor = position + len
          /\ sender.finished = eof
          /\ agreed.receiverDrive => Awaited
          /\ agreed.senderDrive => ~acked
          /\ len <= agreed.block /\ (len = 0 => eof)
          /\ ~Mismatch(agreed, receiver.received + len, eof)
          /\ ~receiver.pending /\ Open
  BY Zenon, <1>1, <1>2 DEF Stage, Quiet, Acknowledged, Queried, Told, Sent
<1>5. /\ m.counter = sender.counter /\ m.at = position /\ m.len = len /\ m.eof = eof
      /\ toReceiver' = <<>>
  <2>1. m = BlockMessage(len, eof) /\ toReceiver' = <<>>
    BY Zenon, <1>1, <1>4, ShortQueues
  <2> HIDE DEF m
  <2> QED BY <2>1 DEF BlockMessage
<1> HIDE DEF m
<1>6. /\ NextCounter(receiver.counter) \in Counter
      /\ (NextCounter(receiver.counter) + 1) % CounterMod # NextCounter(receiver.counter)
      /\ NextCounter(NextCounter(receiver.counter))
             = (NextCounter(receiver.counter) + 1) % CounterMod
  BY <1>3, Counters
<1>7. refused' = None
  <2>1. ~(m.len > agreed.block \/ (m.len = 0 /\ ~m.eof))
    BY <1>2, <1>4, <1>5
  <2>2. agreed.receiverDrive => Awaiting
    BY Zenon, <1>4, <1>6 DEF Awaited, Awaiting
  <2>3. ~Mismatch(agreed, receiver.received + m.len, m.eof)
    BY Zenon, <1>4, <1>5
  <2> QED BY Zenon, <1>1, <1>2, <1>4, <1>5, <2>1, <2>2, <2>3 DEF BlockStatus, Open
<1>8. receiver' = [received |-> receiver.received + len, counter |-> sender.counter,
                   query |-> receiver.query, pending |-> TRUE, finished |-> eof,
                   complete |-> receiver.complete]
  <2>1. receiver' = [receiver EXCEPT !.received = @ + len, !.counter = sender.counter,
                         !.pending = TRUE, !.finished = eof]
    BY Zenon, <1>1, <1>5, <1>7
  <2> QED BY Zenon, <1>3, <2>1 DEF Receiver
<1>9. receiver' \in Receiver
  <2>1. receiver.received + len \in Nat /\ sender.counter \in Maybe(Counter)
    BY <1>3, <1>4, <1>6 DEF Maybe
  <2> QED BY <1>3, <1>8, <2>1 DEF Receiver
<1>10. /\ receiver'.received = receiver.received + len /\ receiver'.counter = sender.counter
       /\ receiver'.query = receiver.query /\ receiver'.pending = TRUE
       /\ receiver'.finished = eof /\ receiver'.complete = receiver.complete
  BY <1>8
<1>11. /\ position' = position + len /\ position' \in Nat
       /\ stored' \in Seq(Diagonal)
  <2>1. /\ position' = position + len
        /\ stored' = stored \o [i \in 1 .. len |-> <<position + i - 1, position + i - 1>>]
    BY Zenon, <1>1, <1>5, <1>7
  <2>2. position + len \in Nat
    BY <1>3
  <2> QED BY Zenon, <1>2, <1>3, <2>1, <2>2, StoredInPlace
<1>12. Ledger'
  <2>1. /\ position = agreed.offset + receiver.received + skipped
        /\ sender.sent <= Left(agreed.offset)
        /\ agreed.length # None => sender.sent <= agreed.length
        /\ sender.finished /\ skipped = 0 =>
               sender.sent = IF agreed.length = None THEN Left(agreed.offset) ELSE agreed.length
    BY Zenon, <1>2 DEF Ledger
  <2>2. position' = agreed.offset + (receiver.received + len) + skipped
    <3>1. /\ agreed.offset \in Nat /\ receiver.received \in Nat
          /\ skipped \in Nat /\ len \in Nat
      BY Zenon, <1>2, <1>3
    <3>2. (agreed.offset + receiver.received + skipped) + len
              = agreed.offset + (receiver.received + len) + skipped
      BY <3>1
    <3> QED BY Zenon, <1>11, <2>1, <3>2
  <2> QED BY Zenon, <1>1, <1>10, <2>1, <2>2 DEF Ledger
<1>13. Quiet'
  <2>1. Level'
    BY Zenon, <1>1, <1>4, <1>10 DEF Level
  <2>2. agreed.receiverDrive => ~Awaiting'
    <3> SUFFICES ASSUME agreed.receiverDrive PROVE ~Awaiting'
      OBVIOUS
    <3>1. receiver'.query = (NextCounter(receiver.counter) + 1) % CounterMod
      BY Zenon, <1>4, <1>10 DEF Awaited
    <3>2. NextCounter(receiver.counter)' = NextCounter(NextCounter(receiver.counter))
      BY Zenon, <1>4, <1>10 DEF NextCounter
    <3> QED BY Zenon, <1>6, <3>1, <3>2 DEF Awaiting
  <2>3. receiver'.counter # None
    BY <1>4, <1>6, <1>10 DEF Counter
  <2> QED BY Zenon, <1>1, <1>4, <1>5, <1>10, <1>11, <2>1, <2>2, <2>3 DEF Quiet, Open
<1> QED BY Zenon, <1>1, <1>2, <1>3, <1>7, <1>9, <1>11, <1>12, <1>13, Frame DEF Stage

\* Every step keeps the invariant.
LEMMA NextHolds == BdxInv /\ [Next]_vars => BdxInv'
<1> SUFFICES ASSUME BdxInv, [Next]_vars PROVE BdxInv'
  OBVIOUS
<1>1. ASSUME NEW limits \in Limits(proposal), Respond(limits) PROVE BdxInv'
  BY Zenon, <1>1, RespondKeeps
<1>2. CASE Accepted
  BY Zenon, <1>2, AcceptedKeeps
<1>3. ASSUME NEW len \in 0 .. FileSize, NEW eof \in BOOLEAN, SendBlock(len, eof) PROVE BdxInv'
  BY Zenon, <1>3, SendKeeps
<1>4. CASE OnQuery
  BY Zenon, <1>4, OnQueryKeeps
<1>5. CASE OnAck
  BY Zenon, <1>5, OnAckKeeps
<1>6. CASE OnBlock
  BY Zenon, <1>6, OnBlockKeeps
<1>7. CASE Ack
  BY Zenon, <1>7, AckKeeps
<1>8. ASSUME NEW skip \in Skips, Query(skip) PROVE BdxInv'
  BY Zenon, <1>8, AskKeeps
<1>9. CASE UNCHANGED vars
  <2>1. UNCHANGED <<phase, proposal, agreed, params, sender, receiver, toSender, toReceiver,
                    acked, position, stored, skipped, refused>>
    BY Zenon, <1>9 DEF vars
  <2>2. TypeOK' = TypeOK /\ Agreement' = Agreement /\ Fresh' = Fresh /\ Ledger' = Ledger
    BY Zenon, <2>1 DEF TypeOK, Agreement, Fresh, Ledger
  <2>3. /\ Level' = Level /\ Open' = Open /\ Awaited' = Awaited /\ Awaiting' = Awaiting
        /\ AckMessage' = AckMessage
    BY Zenon, <2>1 DEF Level, Open, Awaited, Awaiting, AckMessage, NextCounter
  <2>4. Quiet' = Quiet /\ Acknowledged' = Acknowledged /\ Told' = Told
    BY Zenon, <2>1, <2>3 DEF Quiet, Acknowledged, Told
  <2>5. Queried' = Queried
    BY Zenon, <2>1, <2>3 DEF Queried, QueryMessage, NextCounter
  <2>6. Sent => Sent'
    <3>1. ASSUME NEW len \in Nat, NEW eof \in BOOLEAN
          PROVE  /\ BlockMessage(len, eof)' = BlockMessage(len, eof)
                 /\ Mismatch(agreed, receiver.received + len, eof)'
                        = Mismatch(agreed, receiver.received + len, eof)
                 /\ NextCounter(receiver.counter)' = NextCounter(receiver.counter)
      BY Zenon, <2>1 DEF BlockMessage, NextCounter, Mismatch
    <3> QED BY Zenon, <2>1, <2>3, <3>1 DEF Sent
  <2>7. Stage => Stage'
    BY Zenon, <2>4, <2>5, <2>6 DEF Stage
  <2> QED BY Zenon, <2>1, <2>2, <2>7 DEF BdxInv, Owned
<1> QED BY Zenon, <1>1, <1>2, <1>3, <1>4, <1>5, <1>6, <1>7, <1>8, <1>9 DEF Next

-----------------------------------------------------------------------------
(* The theorems *)

\* The invariant holds in every state of a transfer, and with it the types: this is the walk
\* of one message round negotiate, Sender and Receiver that the other theorems rest on.
THEOREM BdxInvariant == Spec => [](BdxInv /\ TypeOK)
<1>1. BdxInv => TypeOK
  BY Zenon DEF BdxInv
<1> QED BY <1>1, InitHolds, NextHolds, PTL DEF Spec

\* Both ends of a running transfer hold the same parameters, with one driver: whatever
\* negotiate answers, from_send_accept and from_receive_accept take it as it was meant.
THEOREM ParametersAgree == Spec => []SameParameters
<1>1. BdxInv => SameParameters
  <2> SUFFICES ASSUME BdxInv, phase = "running"
               PROVE  params = agreed /\ params.senderDrive # params.receiverDrive
    BY Zenon DEF SameParameters
  <2> QED BY Zenon DEF BdxInv, Agreement
<1> QED BY <1>1, InitHolds, NextHolds, PTL DEF Spec

\* Every octet is stored at the place of the file it was read from.
THEOREM EveryOctetInPlace == Spec => []OctetsInPlace
<1>1. BdxInv => OctetsInPlace
  <2> SUFFICES ASSUME BdxInv, NEW i \in DOMAIN stored PROVE stored[i][1] = stored[i][2]
    BY Zenon DEF OctetsInPlace
  <2>1. stored \in Seq(Diagonal)
    BY Zenon DEF BdxInv
  <2>2. stored[i] \in Diagonal
    BY <2>1
  <2> QED BY <2>2 DEF Diagonal
<1> QED BY <1>1, InitHolds, NextHolds, PTL DEF Spec

\* A session that has ended has carried everything it was to carry.
THEOREM CompletionIsWhole == Spec => []CompleteIsWhole
<1>1. BdxInv => CompleteIsWhole
  <2> SUFFICES ASSUME BdxInv PROVE CompleteIsWhole
    BY Zenon
  <2>1. CASE phase # "running"
    BY <2>1 DEF BdxInv, Fresh, NoSender, NoReceiver, CompleteIsWhole
  <2>2. CASE phase = "running"
    <3>1. TypeOK /\ Agreement /\ Ledger /\ Stage /\ params = agreed
      BY Zenon, <2>2 DEF BdxInv
    <3>2. /\ sender.complete => receiver.complete /\ Level
          /\ receiver.complete => receiver.finished /\ Level
      <4>1. CASE Quiet
        BY Zenon, <4>1 DEF Quiet, Level
      <4>2. CASE Acknowledged
        BY Zenon, <4>2 DEF Acknowledged
      <4>3. CASE Queried \/ Told \/ Sent
        BY Zenon, <4>3 DEF Queried, Told, Sent, Open
      <4> QED BY Zenon, <3>1, <4>1, <4>2, <4>3 DEF Stage
    <3>3. receiver.complete /\ skipped = 0 =>
              receiver.received
                  = IF agreed.length = None THEN Left(agreed.offset) ELSE agreed.length
      BY Zenon, <3>1, <3>2 DEF Ledger, Level
    <3>4. agreed.length # None => Lower(agreed.length, Left(agreed.offset)) = agreed.length
      <4>1. agreed.length # None => agreed.length \in Nat /\ agreed.length <= Left(agreed.offset)
        BY <3>1 DEF Agreement, Parameters, Maybe
      <4>2. Left(agreed.offset) \in Nat
        <5>1. agreed.offset \in Nat
          BY <3>1 DEF Agreement, Parameters
        <5> QED BY <5>1 DEF Left
      <4> QED BY <4>1, <4>2 DEF Lower
    <3> QED BY Zenon, <3>1, <3>2, <3>3, <3>4 DEF CompleteIsWhole, Level
  <2> QED BY <2>1, <2>2
<1> QED BY <1>1, InitHolds, NextHolds, PTL DEF Spec

\* No end refuses what the other sends, but for a definite length with a part skipped.
THEOREM RefusalsAreSkips == Spec => []RefusesOnlySkips
<1>1. BdxInv => RefusesOnlySkips
  <2> SUFFICES ASSUME BdxInv, refused # None
               PROVE  skipped > 0 /\ params.length # None
    BY Zenon DEF RefusesOnlySkips
  <2>1. phase = "running"
    BY Zenon DEF BdxInv, Fresh
  <2> QED BY Zenon, <2>1 DEF BdxInv
<1> QED BY <1>1, InitHolds, NextHolds, PTL DEF Spec
=============================================================================
