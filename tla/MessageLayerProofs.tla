------------------------- MODULE MessageLayerProofs -------------------------
(***************************************************************************)
(* The message layer. ReplayProtection for a secure unicast session, for   *)
(* every word size, window size and number of messages: the counters in    *)
(* flight are consecutive, so distances between counters are distances     *)
(* between message numbers, and the bitmap holds exactly the messages      *)
(* handed up among the WindowSize before the newest one.                   *)
(*                                                                         *)
(* ReliableExchange for every number of messages, transmissions, counters  *)
(* and every window size: types, counters and the wire; what an            *)
(* acknowledgement tells the sender; and that two ends implement           *)
(* ReliableTransfer.                                                       *)
(***************************************************************************)
EXTENDS ReliableExchange, ReplayProtection, TLAPS

-----------------------------------------------------------------------------
(* Message counters and the replay window                                  *)

\* The last counter taken
LastTaken == IF counter.exhausted THEN counter.next ELSE counter.next - 1

\* Counters are taken consecutively, and running out means having taken the last
Supply ==
    /\ Len(sent) <= MaxSent
    /\ counter.exhausted => counter.next = WordSize - 1
    /\ \A m \in 1 .. Len(sent) : sent[m] = LastTaken - Len(sent) + m

\* The window's maximum is the newest message, and it was handed up
Maximum ==
    /\ newest <= Len(sent)
    /\ window.primed <=> newest # 0
    /\ newest # 0 => window.max = sent[newest] /\ times[newest] = 1
    /\ \A m \in Messages : times[m] # 0 => m <= newest

\* The bitmap is the history
History ==
    \A m \in Messages :
        (m < newest /\ newest - m <= WindowSize)
            => (times[m] # 0 <=> newest - m - 1 \in window.bitmap)

IInv == ReplayTypeOK /\ Supply /\ Maximum /\ History /\ AtMostOnce

-----------------------------------------------------------------------------
\* MessageCounter::new yields a counter of the type
LEMMA NewTyped ==
    ASSUME NEW mc \in InitialCounters
    PROVE  mc \in MessageCounters /\ ~mc.exhausted
  <1>1. PICK c \in 1 .. InitialMax : mc = [next |-> c, exhausted |-> FALSE]
    BY DEF InitialCounters
  <1>2. c \in Counters
    BY CounterAssumption DEF Counters
  <1> QED
    BY <1>1, <1>2 DEF MessageCounters

\* MessageCounter::take stays in the type, and running out means having handed
\* out the last counter of the range
LEMMA TakeTyped ==
    ASSUME NEW mc \in MessageCounters, ~mc.exhausted
    PROVE  /\ Take(mc) \in MessageCounters
           /\ Take(mc).exhausted => Take(mc).next = WordSize - 1
           /\ Take(mc).exhausted => mc.next = Take(mc).next
           /\ ~Take(mc).exhausted => mc.next = Take(mc).next - 1
  <1>0. mc.next \in Counters /\ mc.next \in Int
    BY CounterAssumption DEF MessageCounters, Counters
  <1>1. CASE mc.next = WordSize - 1
    BY Zenon, <1>1 DEF Take, MessageCounters
  <1>2. CASE mc.next # WordSize - 1
    <2>1. mc.next + 1 \in Counters
      BY <1>0, <1>2, CounterAssumption DEF Counters
    <2> QED
      BY <1>0, <1>2, <2>1 DEF Take, MessageCounters
  <1> QED
    BY <1>1, <1>2

\* The initial state satisfies the inductive invariant
LEMMA InitIInv == ReplayInit => IInv
  <1> SUFFICES ASSUME ReplayInit PROVE IInv
    OBVIOUS
  <1>1. ReplayTypeOK
    <2>1. counter \in MessageCounters
      BY NewTyped DEF ReplayInit
    <2>2. window \in Windows /\ window.kind \in Spaces
      <3>1. PICK kind \in Spaces : window = FreshWindow(kind)
        BY DEF ReplayInit
      <3>2. kind \in Kinds /\ 0 \in Counters
        BY CounterAssumption, ReplayAssumption DEF Counters
      <3> QED
        BY <3>1, <3>2 DEF FreshWindow, Windows
    <2>3. sent \in Seq(Counters) /\ times \in [Messages -> Nat] /\ newest \in 0 .. MaxSent
      BY ReplayAssumption DEF ReplayInit
    <2> QED
      BY <2>1, <2>2, <2>3 DEF ReplayTypeOK
  <1>2. Supply
    <2>1. ~counter.exhausted
      BY NewTyped DEF ReplayInit
    <2>2. Len(sent) = 0
      BY DEF ReplayInit
    <2> QED
      BY <2>1, <2>2, ReplayAssumption DEF Supply
  <1>3. Maximum /\ History /\ AtMostOnce
    BY CounterAssumption, ReplayAssumption
    DEF ReplayInit, Maximum, History, AtMostOnce, FreshWindow, Messages
  <1> QED
    BY <1>1, <1>2, <1>3 DEF IInv

\* SecureSession::next_counter preserves the inductive invariant
LEMMA SendIInv == ASSUME Spaces = {"SecureUnicast"}, IInv, NextCounter PROVE IInv'
  <1>1. /\ counter \in MessageCounters /\ ~counter.exhausted /\ counter' = Take(counter)
        /\ sent \in Seq(Counters) /\ sent' = Append(sent, counter.next)
        /\ UNCHANGED <<window, times, newest>>
        /\ Len(sent) < MaxSent
    BY DEF IInv, ReplayTypeOK, NextCounter
  <1>2. counter.next \in Counters /\ counter.next \in Int
    BY <1>1, CounterAssumption DEF MessageCounters, Counters
  <1>3. /\ sent' \in Seq(Counters)
        /\ Len(sent') = Len(sent) + 1
        /\ sent'[Len(sent) + 1] = counter.next
        /\ \A m \in 1 .. Len(sent) : sent'[m] = sent[m]
    BY <1>1, <1>2
  <1>4. counter' \in MessageCounters /\ (counter'.exhausted => counter'.next = WordSize - 1)
    BY <1>1, TakeTyped
  <1>5. LastTaken' = counter.next /\ LastTaken = counter.next - 1
    BY <1>1, TakeTyped DEF LastTaken
  <1>6. ReplayTypeOK'
    BY <1>1, <1>3, <1>4 DEF IInv, ReplayTypeOK
  <1>7. Supply'
    <2>1. ASSUME NEW m \in 1 .. Len(sent') PROVE sent'[m] = counter.next - Len(sent') + m
      <3>1. CASE m \in 1 .. Len(sent)
        <4>1. sent[m] = counter.next - 1 - Len(sent) + m
          BY <3>1, <1>5 DEF IInv, Supply
        <4> QED
          BY <4>1, <3>1, <1>1, <1>2, <1>3
      <3>2. CASE m = Len(sent) + 1
        BY <3>2, <1>1, <1>2, <1>3
      <3> QED
        BY <3>1, <3>2, <1>1, <1>3
    <2> QED
      BY <2>1, <1>1, <1>3, <1>4, <1>5, ReplayAssumption DEF Supply
  <1>8. Maximum'
    BY <1>1, <1>3 DEF IInv, ReplayTypeOK, Maximum, Messages
  <1>9. History' /\ AtMostOnce'
    BY <1>1 DEF IInv, History, AtMostOnce
  <1> QED
    BY <1>6, <1>7, <1>8, <1>9 DEF IInv

\* Distances between counters are distances between messages
LEMMA Distance ==
    ASSUME IInv, NEW m \in 1 .. Len(sent), NEW n \in 1 .. Len(sent)
    PROVE  /\ sent[m] \in Counters /\ sent[n] \in Counters
           /\ sent[m] - sent[n] = m - n
  <1>1. sent \in Seq(Counters) /\ counter \in MessageCounters
    BY DEF IInv, ReplayTypeOK
  <1>2. LastTaken \in Int
    BY <1>1, CounterAssumption DEF LastTaken, MessageCounters, Counters
  <1>3. sent[m] = LastTaken - Len(sent) + m /\ sent[n] = LastTaken - Len(sent) + n
    BY DEF IInv, Supply
  <1> QED
    BY <1>1, <1>2, <1>3

\* Each arrival is one of: the first, a repeat of the newest, ahead of it, too far
\* behind it, or behind it and inside the window
LEMMA ReceiveCases ==
    ASSUME Spaces = {"SecureUnicast"}, IInv, NEW m \in Messages, AcceptCounter(m)
    PROVE  /\ m \in 1 .. Len(sent) /\ sent[m] \in Counters
           /\ \/ /\ newest = 0
                 /\ window' = [window EXCEPT !.primed = TRUE, !.max = sent[m], !.bitmap = {}]
                 /\ times' = [times EXCEPT ![m] = @ + 1] /\ newest' = m
              \/ /\ newest # 0 /\ m = newest
                 /\ UNCHANGED <<window, times, newest>>
              \/ /\ newest # 0 /\ m > newest
                 /\ window' = [window EXCEPT !.max = sent[m],
                                     !.bitmap = Slide(window.bitmap, m - newest)]
                 /\ times' = [times EXCEPT ![m] = @ + 1] /\ newest' = m
              \/ /\ newest # 0 /\ m < newest
                 /\ newest - m > WindowSize \/ newest - m - 1 \in window.bitmap
                 /\ UNCHANGED <<window, times, newest>>
              \/ /\ newest # 0 /\ m < newest
                 /\ newest - m <= WindowSize /\ newest - m - 1 \notin window.bitmap
                 /\ window' = [window EXCEPT !.bitmap = @ \cup {newest - m - 1}]
                 /\ times' = [times EXCEPT ![m] = @ + 1] /\ UNCHANGED newest
  <1>1. /\ sent \in Seq(Counters) /\ window \in Windows /\ newest \in Nat
        /\ window.kind = "SecureUnicast"
        /\ window.primed <=> newest # 0
        /\ newest <= Len(sent)
    BY ReplayAssumption DEF IInv, ReplayTypeOK, Maximum
  <1>2. m \in 1 .. Len(sent) /\ sent[m] \in Counters
    BY <1>1, ReplayAssumption DEF AcceptCounter, Messages
  <1> DEFINE c == sent[m]
  <1>3. /\ window' = Accept(window, c)
        /\ Verdict(window, c) = "New" => times' = [times EXCEPT ![m] = @ + 1]
        /\ Verdict(window, c) # "New" => times' = times
        /\ newest' = IF window'.max # window.max \/ ~window.primed THEN m ELSE newest
    BY DEF AcceptCounter
  <1>4. CASE newest = 0
    <2>1. Verdict(window, c) = "New"
      BY <1>1, <1>4 DEF Verdict
    <2>2. window' = [window EXCEPT !.primed = TRUE, !.max = c, !.bitmap = {}]
      BY <1>1, <1>3, <1>4, <2>1 DEF Accept
    <2> QED
      BY <1>1, <1>2, <1>3, <1>4, <2>1, <2>2
  <1>5. CASE newest # 0
    <2>1. newest \in 1 .. Len(sent) /\ window.max = sent[newest] /\ window.primed
      BY <1>1, <1>5 DEF IInv, Maximum
    <2>2. c - window.max = m - newest /\ c \in Counters /\ window.max \in Counters
      BY <1>2, <2>1, Distance
    <2>3. c \in Int /\ window.max \in Int /\ m \in Int
      BY <1>2, <2>2, CounterAssumption DEF Counters
    <2>4. CASE m = newest
      <3>1. Verdict(window, c) = "Duplicate"
        BY <2>1, <2>4 DEF Verdict
      <3>2. window' = window
        BY <1>3, <3>1 DEF Accept
      <3> QED
        BY <1>2, <1>3, <1>5, <2>1, <2>4, <3>1, <3>2
    <2>5. CASE m > newest
      <3>1. Ahead(window, c) /\ c # window.max /\ WrappingSub(c, window.max) = m - newest
        BY <1>1, <2>2, <2>3, <2>5 DEF Ahead, WrappingSub
      <3>2. Verdict(window, c) = "New"
        BY <2>1, <3>1 DEF Verdict
      <3>3. window' = [window EXCEPT !.max = c, !.bitmap = Slide(window.bitmap, m - newest)]
        BY <1>3, <2>1, <3>1, <3>2 DEF Accept
      <3>4. window'.max = c
        BY <3>3, <1>1 DEF Windows
      <3> QED
        BY <1>2, <1>3, <1>5, <2>5, <3>1, <3>2, <3>3, <3>4
    <2>6. CASE m < newest
      <3>1. ~Ahead(window, c) /\ c # window.max /\ WrappingSub(window.max, c) = newest - m
        BY <1>1, <2>2, <2>3, <2>6 DEF Ahead, WrappingSub
      <3>2. Verdict(window, c) = IF newest - m > WindowSize \/ newest - m - 1 \in window.bitmap
                             THEN "Duplicate" ELSE "New"
        BY <2>1, <3>1 DEF Verdict
      <3>3. CASE newest - m > WindowSize \/ newest - m - 1 \in window.bitmap
        <4>1. window' = window /\ times' = times
          BY <1>3, <3>2, <3>3 DEF Accept
        <4> QED
          BY <1>2, <1>3, <1>5, <2>1, <2>6, <3>3, <4>1
      <3>4. CASE ~(newest - m > WindowSize \/ newest - m - 1 \in window.bitmap)
        <4>1. Verdict(window, c) = "New"
          BY <3>2, <3>4
        <4>2. window' = [window EXCEPT !.bitmap = @ \cup {newest - m - 1}]
          BY <1>3, <2>1, <3>1, <4>1 DEF Accept
        <4>3. window'.max = window.max
          BY <4>2, <1>1 DEF Windows
        <4>4. newest - m <= WindowSize
          BY <1>1, <2>3, <3>4, CounterAssumption
        <4> QED
          BY <1>2, <1>3, <1>5, <2>1, <2>6, <3>4, <4>1, <4>2, <4>3, <4>4
      <3> QED
        BY <3>3, <3>4
    <2> QED
      BY <1>1, <2>3, <2>4, <2>5, <2>6
  <1> QED
    BY <1>4, <1>5

\* SecureSession::accept_counter preserves the inductive invariant
LEMMA ReceiveIInv ==
    ASSUME Spaces = {"SecureUnicast"}, IInv, NEW m \in Messages, AcceptCounter(m)
    PROVE  IInv'
  <1>1. /\ sent \in Seq(Counters) /\ window \in Windows /\ window.kind \in Spaces
        /\ newest \in 0 .. MaxSent /\ times \in [Messages -> Nat]
        /\ window.primed <=> newest # 0
        /\ newest <= Len(sent) /\ Len(sent) \in Nat
        /\ newest # 0 => window.max = sent[newest] /\ times[newest] = 1
        /\ \A n \in Messages : times[n] # 0 => n <= newest
        /\ Len(sent) <= MaxSent
    BY ReplayAssumption DEF IInv, ReplayTypeOK, Maximum, Supply
  <1>2. UNCHANGED <<counter, sent>>
    BY DEF AcceptCounter
  <1>3. Supply'
    BY <1>2 DEF IInv, Supply, LastTaken
  <1>4. m \in 1 .. Len(sent) /\ sent[m] \in Counters /\ m \in 1 .. MaxSent /\ MaxSent \in Nat
    <2>1. m \in 1 .. Len(sent) /\ sent[m] \in Counters
      BY Zenon, ReceiveCases
    <2> QED
      BY <2>1, ReplayAssumption DEF Messages
  <1>5. SUFFICES ASSUME TRUE PROVE ReplayTypeOK' /\ Maximum' /\ History' /\ AtMostOnce'
    BY <1>3 DEF IInv
  <1>6. ASSUME UNCHANGED <<window, times, newest>>
        PROVE  ReplayTypeOK' /\ Maximum' /\ History' /\ AtMostOnce'
    BY <1>2, <1>6 DEF IInv, ReplayTypeOK, Maximum, History, AtMostOnce
  <1>7. CASE newest = 0 /\ newest' = m
    <2>1. /\ window' = [window EXCEPT !.primed = TRUE, !.max = sent[m], !.bitmap = {}]
          /\ times' = [times EXCEPT ![m] = @ + 1]
      BY Zenon, <1>4, <1>7, ReceiveCases
    <2>2. \A n \in Messages : times[n] = 0
      BY <1>1, <1>7 DEF Messages
    <2>3. times' \in [Messages -> Nat] /\ \A n \in Messages : times'[n] = IF n = m THEN 1 ELSE 0
      BY <1>1, <2>1, <2>2 DEF Messages
    <2>4. window' \in Windows /\ window'.kind \in Spaces /\ window'.max = sent[m]
          /\ window'.bitmap = {} /\ window'.primed
      BY Zenon, <1>1, <1>4, <2>1 DEF Windows
    <2>5. ReplayTypeOK'
      BY <1>2, <1>4, <1>7, <2>3, <2>4 DEF IInv, ReplayTypeOK
    <2>6. Maximum'
      BY <1>2, <1>4, <1>7, <2>3, <2>4 DEF Maximum, Messages
    <2>7. History' /\ AtMostOnce'
      BY <1>4, <1>7, <2>3, <2>4, CounterAssumption DEF History, AtMostOnce, Messages
    <2> QED
      BY <2>5, <2>6, <2>7
  <1>8. CASE newest # 0 /\ m > newest /\ newest' = m
    <2>1. /\ window' = [window EXCEPT !.max = sent[m], !.bitmap = Slide(window.bitmap, m - newest)]
          /\ times' = [times EXCEPT ![m] = @ + 1]
      <3>1. ~(m < newest) /\ m # newest
        BY <1>1, <1>4, <1>8
      <3> QED
        BY Zenon, <3>1, <1>8, ReceiveCases
    <2>2. times[m] = 0
      BY <1>1, <1>4, <1>8
    <2>3. /\ times' \in [Messages -> Nat]
          /\ \A n \in Messages : times'[n] = IF n = m THEN 1 ELSE times[n]
      BY <1>1, <2>1, <2>2 DEF Messages
    <2>4. Slide(window.bitmap, m - newest) \subseteq Bits
      BY DEF Slide
    <2>5. /\ window' \in Windows /\ window'.kind \in Spaces /\ window'.max = sent[m] /\ window'.primed
          /\ window'.bitmap = Slide(window.bitmap, m - newest)
      BY Zenon, <1>1, <1>4, <1>8, <2>1, <2>4 DEF Windows
    <2>6. ReplayTypeOK'
      BY <1>2, <1>4, <1>8, <2>3, <2>5 DEF IInv, ReplayTypeOK
    <2>7. Maximum'
      BY <1>1, <1>2, <1>4, <1>8, <2>3, <2>5 DEF Maximum, Messages
    <2>8. AtMostOnce'
      BY <2>3 DEF AtMostOnce, IInv
    <2>9. History'
      <3> SUFFICES ASSUME NEW n \in Messages, n < m, m - n <= WindowSize
                   PROVE  times'[n] # 0 <=> m - n - 1 \in window'.bitmap
        BY <1>8 DEF History
      <3>1. n \in Int /\ newest \in Int /\ m - n - 1 \in Bits
        BY <1>1, <1>4, CounterAssumption, ReplayAssumption DEF Messages, Bits
      <3>2. times'[n] = times[n]
        BY <2>3, <1>4, <3>1
      <3>3. m - n - 1 \in window'.bitmap <=> (newest - n - 1 \in window.bitmap \/ n = newest)
        BY <2>5, <3>1, <1>4 DEF Slide
      <3>4. CASE n < newest
        <4>1. times[n] # 0 <=> newest - n - 1 \in window.bitmap
          <5>1. newest - n <= WindowSize
            BY <3>1, <1>4, <1>8, CounterAssumption
          <5> QED
            BY Zenon, <3>4, <5>1 DEF IInv, History
        <4> QED
          BY <3>1, <3>2, <3>3, <3>4, <4>1
      <3>5. CASE n = newest
        BY <3>2, <3>3, <3>5, <1>1, <1>8
      <3>6. CASE n > newest
        <4>1. times[n] = 0
          BY <3>1, <3>6, <1>1
        <4>2. newest - n - 1 \notin window.bitmap
          BY <3>1, <3>6, <1>1 DEF Windows, Bits
        <4> QED
          BY <3>1, <3>2, <3>3, <3>6, <4>1, <4>2
      <3> QED
        BY <3>1, <3>4, <3>5, <3>6
    <2> QED
      BY <2>6, <2>7, <2>8, <2>9
  <1>9. CASE /\ newest # 0 /\ m < newest /\ newest - m <= WindowSize
             /\ newest - m - 1 \notin window.bitmap
             /\ window' = [window EXCEPT !.bitmap = @ \cup {newest - m - 1}]
             /\ times' = [times EXCEPT ![m] = @ + 1] /\ UNCHANGED newest
    <2>1. times[m] = 0
      BY <1>9 DEF IInv, History
    <2>2. /\ times' \in [Messages -> Nat]
          /\ \A n \in Messages : times'[n] = IF n = m THEN 1 ELSE times[n]
      BY <1>1, <1>9, <2>1 DEF Messages
    <2>3. newest - m - 1 \in Bits
      <3>1. m < newest /\ newest - m <= WindowSize /\ newest \in Int /\ m \in Int
        BY <1>1, <1>4, <1>9
      <3> QED
        BY <3>1, CounterAssumption DEF Bits
    <2>4. /\ window' \in Windows /\ window'.kind \in Spaces /\ window'.max = window.max
          /\ window'.primed = window.primed
          /\ window'.bitmap = window.bitmap \cup {newest - m - 1}
      BY SMTT(30), <1>1, <1>9, <2>3 DEF Windows
    <2>5. ReplayTypeOK'
      BY <1>1, <1>2, <1>9, <2>2, <2>4 DEF IInv, ReplayTypeOK
    <2>6. Maximum'
      <3>1. /\ Maximum /\ newest' = newest /\ window'.primed = window.primed /\ window'.max = window.max
            /\ UNCHANGED sent /\ Messages' = Messages
        BY <1>2, <1>9, <2>4 DEF IInv, Messages
      <3>2. newest \in Messages /\ newest # m /\ m <= newest
        BY <1>1, <1>4, <1>9 DEF Messages
      <3> QED
        BY Zenon, <1>9, <2>2, <3>1, <3>2 DEF Maximum
    <2>7. AtMostOnce'
      BY <2>2 DEF AtMostOnce, IInv
    <2>8. History'
      <3> SUFFICES ASSUME NEW n \in Messages, n < newest, newest - n <= WindowSize
                   PROVE  times'[n] # 0 <=> newest - n - 1 \in window'.bitmap
        BY <1>9 DEF History
      <3>1. n \in Int /\ newest \in Int /\ m \in Int
        BY <1>1, <1>4, ReplayAssumption DEF Messages
      <3>2. times[n] # 0 <=> newest - n - 1 \in window.bitmap
        BY DEF IInv, History
      <3> QED
        BY <2>2, <2>4, <3>1, <3>2
    <2> QED
      BY <2>5, <2>6, <2>7, <2>8
  <1> QED
    BY Zenon, <1>6, <1>7, <1>8, <1>9, ReceiveCases

\* The inductive invariant holds of every reachable state of a secure session
LEMMA Invariance == ASSUME Spaces = {"SecureUnicast"} PROVE ReplaySpec => []IInv
  <1>1. IInv /\ [ReplayNext]_replayVars => IInv'
    <2> SUFFICES ASSUME IInv, [ReplayNext]_replayVars PROVE IInv'
      OBVIOUS
    <2>1. CASE NextCounter
      BY <2>1, SendIInv
    <2>2. ASSUME NEW m \in Messages, AcceptCounter(m) PROVE IInv'
      BY <2>2, ReceiveIInv
    <2>3. CASE UNCHANGED replayVars
      BY <2>3 DEF replayVars, IInv, ReplayTypeOK, Supply, LastTaken, Maximum, History, AtMostOnce
    <2> QED
      BY <2>1, <2>2, <2>3 DEF ReplayNext
  <1> QED
    BY InitIInv, <1>1, PTL DEF ReplaySpec

-----------------------------------------------------------------------------
\* Type correctness of the sender's counter and the receiver's window
\* (MessageCounter::take, CounterWindow::accept) on a secure session
THEOREM TypeCorrect == ASSUME Spaces = {"SecureUnicast"} PROVE ReplaySpec => []ReplayTypeOK
  BY Invariance, PTL DEF IInv

\* CounterWindow::accept hands no message of a secure session up twice, for
\* every window and word size and every reordering and duplication
THEOREM DeliveredAtMostOnce == ASSUME Spaces = {"SecureUnicast"} PROVE ReplaySpec => []AtMostOnce
  BY Invariance, PTL DEF IInv

\* CounterWindow::accept calls no message inside the window a duplicate that
\* was not handed up before
THEOREM WindowExact == ASSUME Spaces = {"SecureUnicast"} PROVE ReplaySpec => []NoFalseDuplicate
  <1>1. IInv => NoFalseDuplicate
    <2> SUFFICES ASSUME IInv, NEW m \in 1 .. Len(sent), newest # 0,
                        m + WindowSize >= newest, times[m] = 0
                 PROVE  Verdict(window, sent[m]) = "New"
      BY DEF NoFalseDuplicate
    <2>1. /\ sent \in Seq(Counters) /\ window.kind = "SecureUnicast" /\ window.primed
          /\ newest \in 1 .. Len(sent) /\ window.max = sent[newest] /\ times[newest] = 1
          /\ m \in Messages /\ m \in Int
      BY ReplayAssumption DEF IInv, ReplayTypeOK, Supply, Maximum, Messages
    <2>2. /\ sent[m] - window.max = m - newest
          /\ sent[m] \in Int /\ window.max \in Int /\ m # newest
      <3>1. sent[m] - sent[newest] = m - newest /\ sent[m] \in Counters /\ sent[newest] \in Counters
        BY <2>1, Distance
      <3>2. m # newest
        BY <2>1
      <3> QED
        BY <2>1, <3>1, <3>2, CounterAssumption DEF Counters
    <2>3. CASE m > newest
      BY <2>1, <2>2, <2>3 DEF Verdict, Ahead
    <2>4. CASE m < newest
      <3>1. newest - m <= WindowSize
        BY <2>1, CounterAssumption
      <3>2. newest - m - 1 \notin window.bitmap
        BY <2>1, <2>4, <3>1 DEF IInv, History
      <3>3. ~Ahead(window, sent[m]) /\ sent[m] # window.max
            /\ WrappingSub(window.max, sent[m]) = newest - m
        BY <2>1, <2>2, <2>4 DEF Ahead, WrappingSub
      <3> QED
        BY <2>1, <3>1, <3>2, <3>3, CounterAssumption DEF Verdict
    <2> QED
      BY <2>1, <2>2, <2>3, <2>4
  <1> QED
    BY Invariance, <1>1, PTL

\* MessageCounter::take never hands the same counter out twice on a secure
\* session, so no AEAD nonce is reused, up to and including the last counter
THEOREM NoncesFresh == ASSUME Spaces = {"SecureUnicast"} PROVE ReplaySpec => []NonceNeverReused
  <1>1. IInv => NonceNeverReused
    <2> SUFFICES ASSUME IInv, NEW m \in 1 .. Len(sent), NEW n \in 1 .. Len(sent),
                        sent[m] = sent[n]
                 PROVE  m = n
      BY DEF NonceNeverReused
    <2>1. sent[m] - sent[n] = m - n /\ sent[m] \in Int
      BY Distance, CounterAssumption DEF Counters
    <2> QED
      BY <2>1
  <1> QED
    BY Invariance, <1>1, PTL

-----------------------------------------------------------------------------
(* The replay window of a secure session, CounterWindow::accept             *)

Secure == {w \in Windows : w.kind = "SecureUnicast"}

\* accept yields a window of the same session, never moves its maximum back, and moves
\* it no further than the counter it judged.
LEMMA AcceptTypes ==
    ASSUME NEW w \in Secure, NEW c \in Counters
    PROVE  /\ Accept(w, c) \in Secure
           /\ Accept(w, c).max >= w.max \/ ~w.primed
           /\ Accept(w, c).max \in {w.max, c}
           /\ Accept(w, c).primed
<1> USE CounterAssumption DEF Counters
<1>1. w.max \in Int /\ w.kind = "SecureUnicast" /\ w.bitmap \subseteq Bits /\ w.primed \in BOOLEAN
      /\ w \in Windows
  BY DEF Secure, Windows
<1>2. CASE Verdict(w, c) = "Duplicate"
  <2>1. w.primed
    BY <1>2 DEF Verdict
  <2> QED BY <1>1, <1>2, <2>1 DEF Accept
<1>3. CASE Verdict(w, c) # "Duplicate" /\ ~w.primed
  <2>1. Accept(w, c) = [w EXCEPT !.primed = TRUE, !.max = c, !.bitmap = {}]
    BY <1>3 DEF Accept
  <2> QED BY Zenon, <1>1, <1>3, <2>1 DEF Secure, Windows
<1>4. CASE Verdict(w, c) # "Duplicate" /\ w.primed /\ Ahead(w, c)
  <2> DEFINE bits == Slide(w.bitmap, WrappingSub(c, w.max))
  <2>1. Accept(w, c) = [w EXCEPT !.max = c, !.bitmap = bits]
    BY <1>4 DEF Accept
  <2>2. bits \subseteq Bits
    BY DEF Slide
  <2>3. c > w.max
    BY <1>1, <1>4 DEF Ahead
  <2> HIDE DEF bits
  <2>4. Accept(w, c).max = c /\ Accept(w, c).primed
    BY <1>1, <1>4, <2>1 DEF Windows
  <2>5. Accept(w, c) \in Secure
    BY Zenon, <1>1, <1>4, <2>1, <2>2 DEF Secure, Windows
  <2> QED BY <1>1, <2>3, <2>4, <2>5
<1>5. CASE Verdict(w, c) # "Duplicate" /\ w.primed /\ ~Ahead(w, c)
  <2> DEFINE bit == WrappingSub(w.max, c) - 1
  <2>1. Accept(w, c) = [w EXCEPT !.bitmap = w.bitmap \cup {bit}]
    BY <1>5 DEF Accept
  <2>2. c # w.max /\ ~(WrappingSub(w.max, c) > WindowSize)
    BY <1>5 DEF Verdict
  <2>3. bit \in Bits
    BY <1>1, <1>5, <2>2 DEF Ahead, WrappingSub, Bits
  <2> HIDE DEF bit
  <2> QED BY <1>1, <1>5, <2>1, <2>3 DEF Secure, Windows
<1> QED BY <1>2, <1>3, <1>4, <1>5

\* What is a duplicate of a secure session: the maximum, what is out of the window, and
\* what the bitmap has.
LEMMA DuplicateMeans ==
    ASSUME NEW w \in Secure, NEW c \in Counters
    PROVE  Verdict(w, c) = "Duplicate" <=>
               w.primed /\ c <= w.max /\ (c = w.max \/ w.max - c > WindowSize
                                             \/ w.max - c - 1 \in w.bitmap)
<1> USE CounterAssumption DEF Counters
<1>1. w.max \in Int /\ w.kind = "SecureUnicast"
  BY DEF Secure, Windows
<1>2. Ahead(w, c) <=> c > w.max
  BY <1>1 DEF Ahead
<1>3. c <= w.max => WrappingSub(w.max, c) = w.max - c
  BY <1>1 DEF WrappingSub
<1> QED BY <1>1, <1>2, <1>3 DEF Verdict

\* accept makes a duplicate of the counter it judged and of what falls out of the window,
\* and of nothing else; what was one stays one.
LEMMA AcceptJudges ==
    ASSUME NEW w \in Secure, NEW c \in Counters, NEW d \in Counters
    PROVE  /\ Verdict(Accept(w, c), d) = "Duplicate" =>
                  \/ d = c \/ Verdict(w, d) = "Duplicate"
                  \/ Accept(w, c).max - d > WindowSize
           /\ Verdict(w, d) = "Duplicate" => Verdict(Accept(w, c), d) = "Duplicate"
           /\ Verdict(Accept(w, c), c) = "Duplicate"
<1> DEFINE v == Accept(w, c)
<1>1. v \in Secure /\ v.primed
  BY AcceptTypes
<1>2. w.max \in Int /\ w.kind = "SecureUnicast" /\ w.bitmap \subseteq Bits /\ c \in Int /\ d \in Int
      /\ w.primed \in BOOLEAN /\ w \in Windows
  BY CounterAssumption DEF Secure, Windows, Counters
<1>3. Ahead(w, c) <=> c > w.max
  BY <1>2 DEF Ahead
<1>4. CASE Verdict(w, c) = "Duplicate"
  BY <1>4 DEF Accept
<1>5. CASE Verdict(w, c) # "Duplicate" /\ ~w.primed
  <2>1. v.max = c /\ v.bitmap = {}
    BY <1>2, <1>5 DEF Accept, Windows
  <2>2. Verdict(w, d) # "Duplicate"
    BY <1>5 DEF Verdict
  <2> HIDE DEF v
  <2>3. Verdict(v, d) = "Duplicate" <=> d <= c /\ (d = c \/ c - d > WindowSize)
    BY <1>1, <2>1, DuplicateMeans
  <2>4. Verdict(v, c) = "Duplicate"
    BY <1>1, <1>2, <2>1, DuplicateMeans
  <2> QED BY <1>2, <2>1, <2>2, <2>3, <2>4 DEF v
<1>6. CASE Verdict(w, c) # "Duplicate" /\ w.primed /\ c > w.max
  <2>1. v.max = c /\ v.bitmap = Slide(w.bitmap, WrappingSub(c, w.max))
    BY <1>2, <1>3, <1>6 DEF Accept, Windows
  <2>2. WrappingSub(c, w.max) = c - w.max
    BY <1>2, <1>6 DEF WrappingSub
  <2> HIDE DEF v
  <2>3. \A k \in Int : k \in v.bitmap <=>
            k \in Bits /\ (k - (c - w.max) \in w.bitmap \/ k = c - w.max - 1)
    BY <2>1, <2>2 DEF Slide
  <2>4. Verdict(v, d) = "Duplicate" <=>
            d <= c /\ (d = c \/ c - d > WindowSize \/ c - d - 1 \in v.bitmap)
    BY <1>1, <2>1, DuplicateMeans
  <2>5. c - d - 1 \in v.bitmap <=>
            c - d - 1 \in Bits /\ (w.max - d - 1 \in w.bitmap \/ d = w.max)
    BY <1>2, <2>3
  <2>6. Verdict(w, d) = "Duplicate" <=>
            d <= w.max /\ (d = w.max \/ w.max - d > WindowSize \/ w.max - d - 1 \in w.bitmap)
    BY <1>6, DuplicateMeans
  <2>7. \A k \in Int : k \in Bits <=> 0 <= k /\ k < WindowSize
    BY CounterAssumption DEF Bits
  <2>8. w.max - d - 1 \in w.bitmap => d <= w.max
    BY <1>2, <2>7
  <2>9. WindowSize \in Int
    BY CounterAssumption
  <2>10. Verdict(v, d) = "Duplicate" => d = c \/ Verdict(w, d) = "Duplicate" \/ v.max - d > WindowSize
    BY <1>2, <1>6, <2>1, <2>4, <2>5, <2>6, <2>8, <2>9
  <2>11. Verdict(w, d) = "Duplicate" => Verdict(v, d) = "Duplicate"
    BY <1>2, <1>6, <2>4, <2>5, <2>6, <2>7, <2>9
  <2>12. Verdict(v, c) = "Duplicate"
    BY <1>1, <1>2, <2>1, DuplicateMeans
  <2> QED BY <2>10, <2>11, <2>12 DEF v
<1>7. CASE Verdict(w, c) # "Duplicate" /\ w.primed /\ ~(c > w.max)
  <2>1. v.max = w.max /\ v.bitmap = w.bitmap \cup {WrappingSub(w.max, c) - 1}
    BY <1>2, <1>3, <1>7 DEF Accept, Windows
  <2>2. WrappingSub(w.max, c) = w.max - c
    BY <1>2, <1>7 DEF WrappingSub
  <2> HIDE DEF v
  <2>3. \A x \in Counters : Verdict(v, x) = "Duplicate" <=>
            x <= w.max /\ (x = w.max \/ w.max - x > WindowSize \/ w.max - x - 1 \in v.bitmap)
    BY <1>1, <2>1, DuplicateMeans
  <2>4. Verdict(w, d) = "Duplicate" <=>
            d <= w.max /\ (d = w.max \/ w.max - d > WindowSize \/ w.max - d - 1 \in w.bitmap)
    BY <1>7, DuplicateMeans
  <2>5. w.max - d - 1 = w.max - c - 1 => d = c
    BY <1>2
  <2>6. Verdict(v, d) = "Duplicate" => d = c \/ Verdict(w, d) = "Duplicate"
    BY <2>1, <2>2, <2>3, <2>4, <2>5
  <2>7. Verdict(w, d) = "Duplicate" => Verdict(v, d) = "Duplicate"
    BY <2>1, <2>3, <2>4
  <2>8. Verdict(v, c) = "Duplicate"
    BY <1>2, <1>7, <2>1, <2>2, <2>3
  <2> QED BY <2>6, <2>7, <2>8 DEF v
<1> QED BY <1>4, <1>5, <1>6, <1>7

-----------------------------------------------------------------------------
(* Mrp: what each operation does to the pending message and the owed        *)
(* acknowledgement                                                          *)

Txs == [counter : Counters, sent : 1 .. MaxTransmissions, deadline : {0}]
Acks == [counter : Counters, deadline : {0}]

\* The parts of an Mrp and of a table entry may be replaced one by one.
LEMMA MrpParts ==
    /\ \A m \in Mrps : m.tx \in {None} \cup Txs /\ m.ack \in {None} \cup Acks
    /\ \A m \in Mrps : \A t \in {None} \cup Txs :
          /\ [m EXCEPT !.tx = t] \in Mrps
          /\ [m EXCEPT !.tx = t].tx = t /\ [m EXCEPT !.tx = t].ack = m.ack
    /\ \A m \in Mrps : \A a \in {None} \cup Acks :
          /\ [m EXCEPT !.ack = a] \in Mrps
          /\ [m EXCEPT !.ack = a].ack = a /\ [m EXCEPT !.ack = a].tx = m.tx
    /\ \A e \in Entries : \A m \in Mrps :
          /\ [e EXCEPT !.mrp = m] \in Entries
          /\ [e EXCEPT !.mrp = m].mrp = m /\ [e EXCEPT !.mrp = m].ephemeral = e.ephemeral
<1>1. ASSUME NEW m \in Mrps PROVE m.tx \in {None} \cup Txs /\ m.ack \in {None} \cup Acks
  BY DEF Mrps, Txs, Acks
<1>2. ASSUME NEW m \in Mrps, NEW t \in {None} \cup Txs
      PROVE  /\ [m EXCEPT !.tx = t] \in Mrps
             /\ [m EXCEPT !.tx = t].tx = t /\ [m EXCEPT !.tx = t].ack = m.ack
  BY DEF Mrps, Txs, Acks
<1>3. ASSUME NEW m \in Mrps, NEW a \in {None} \cup Acks
      PROVE  /\ [m EXCEPT !.ack = a] \in Mrps
             /\ [m EXCEPT !.ack = a].ack = a /\ [m EXCEPT !.ack = a].tx = m.tx
  BY DEF Mrps, Txs, Acks
<1>4. ASSUME NEW e \in Entries, NEW m \in Mrps
      PROVE  /\ [e EXCEPT !.mrp = m] \in Entries
             /\ [e EXCEPT !.mrp = m].mrp = m /\ [e EXCEPT !.mrp = m].ephemeral = e.ephemeral
  BY DEF Entries
<1> QED BY <1>1, <1>2, <1>3, <1>4

\* take_piggyback and the timeout of the owed acknowledgement leave the pending message
\* alone and owe nothing more; what is carried is what was owed.
LEMMA Piggybacks ==
    ASSUME NEW m \in Mrps
    PROVE  /\ TakePiggyback(m) \in Mrps
           /\ TakePiggyback(m).tx = m.tx /\ TakePiggyback(m).ack = None
           /\ OnAckTimeout(m) = TakePiggyback(m)
           /\ Piggyback(m) \in {None} \cup Counters
           /\ m.ack = None => Piggyback(m) = None
           /\ m.ack # None => Piggyback(m) = m.ack.counter /\ m.ack.counter \in Counters
<1>1. m.ack \in {None} \cup Acks
  BY MrpParts
<1> QED BY <1>1, MrpParts DEF TakePiggyback, OnAckTimeout, Piggyback, Acks

\* on_send and on_reliable_received set one part each.
LEMMA Sets ==
    ASSUME NEW m \in Mrps, NEW c \in Counters
    PROVE  /\ OnSend(m, c, 0) \in Mrps
           /\ OnSend(m, c, 0).tx # None /\ OnSend(m, c, 0).tx.counter = c
           /\ OnSend(m, c, 0).ack = m.ack
           /\ OnReliableReceived(m, c, 0) \in Mrps
           /\ OnReliableReceived(m, c, 0).tx = m.tx
           /\ OnReliableReceived(m, c, 0).ack # None
           /\ OnReliableReceived(m, c, 0).ack.counter = c
<1> DEFINE t == [counter |-> c, sent |-> 1, deadline |-> 0]
           a == [counter |-> c, deadline |-> 0]
<1>1. t \in Txs /\ t.counter = c /\ a \in Acks /\ a.counter = c
  BY MrpAssumption DEF Txs, Acks
<1>2. t # None /\ a # None
  BY <1>1, NoneIsApart DEF Txs, Acks
<1>3. OnSend(m, c, 0) = [m EXCEPT !.tx = t] /\ OnReliableReceived(m, c, 0) = [m EXCEPT !.ack = a]
  BY DEF OnSend, OnReliableReceived
<1> HIDE DEF t, a
<1>4. /\ [m EXCEPT !.tx = t] \in Mrps
      /\ [m EXCEPT !.tx = t].tx = t /\ [m EXCEPT !.tx = t].ack = m.ack
  BY <1>1, MrpParts, Zenon
<1>5. /\ [m EXCEPT !.ack = a] \in Mrps
      /\ [m EXCEPT !.ack = a].ack = a /\ [m EXCEPT !.ack = a].tx = m.tx
  BY <1>1, MrpParts, Zenon
<1> QED BY <1>1, <1>2, <1>3, <1>4, <1>5, Zenon

\* on_ack settles the message it names and no other; a retransmission keeps the message.
LEMMA Settles ==
    ASSUME NEW m \in Mrps, NEW c \in Counters
    PROVE  /\ OnAck(m, c) \in Mrps /\ OnAck(m, c).ack = m.ack
           /\ OnAck(m, c).tx \in {m.tx, None}
           /\ m.tx # None /\ OnAck(m, c).tx = None => m.tx.counter = c
           /\ m.tx # None /\ ~GivesUp(m) =>
                  /\ OnTxTimeout(m, 0) \in Mrps /\ OnTxTimeout(m, 0).ack = m.ack
                  /\ OnTxTimeout(m, 0).tx # None
                  /\ OnTxTimeout(m, 0).tx.counter = m.tx.counter
<1>1. /\ OnAck(m, c) \in Mrps /\ OnAck(m, c).ack = m.ack
      /\ OnAck(m, c).tx \in {m.tx, None}
      /\ m.tx # None /\ OnAck(m, c).tx = None => m.tx.counter = c
  BY MrpParts DEF OnAck, IsAwaitingAck
<1>2. ASSUME m.tx # None, ~GivesUp(m)
      PROVE  /\ OnTxTimeout(m, 0) \in Mrps /\ OnTxTimeout(m, 0).ack = m.ack
             /\ OnTxTimeout(m, 0).tx # None
             /\ OnTxTimeout(m, 0).tx.counter = m.tx.counter
  <2> DEFINE t == [m.tx EXCEPT !.sent = @ + 1, !.deadline = 0]
  <2>1. m.tx \in Txs
    BY <1>2, MrpParts
  <2>2. m.tx.sent + 1 \in 1 .. MaxTransmissions
    BY <1>2, <2>1, MrpAssumption DEF GivesUp, Txs
  <2>3. t \in Txs /\ t.counter = m.tx.counter
    BY Zenon, <2>1, <2>2 DEF Txs
  <2>4. OnTxTimeout(m, 0) = [m EXCEPT !.tx = t]
    BY Zenon, <1>2 DEF OnTxTimeout, Mrps
  <2>5. t # None
    BY Zenon, <2>3, NoneIsApart DEF Txs
  <2> HIDE DEF t
  <2>6. /\ [m EXCEPT !.tx = t] \in Mrps
        /\ [m EXCEPT !.tx = t].tx = t /\ [m EXCEPT !.tx = t].ack = m.ack
    BY <2>3, MrpParts, Zenon
  <2> QED BY <2>3, <2>4, <2>5, <2>6, Zenon
<1> QED BY <1>1, <1>2

-----------------------------------------------------------------------------
(* Type correctness, and what each step does to the table entries           *)

\* The parts of TypeOK, for one end.
LEMMA Typed ==
    ASSUME TypeOK, NEW n \in Ends
    PROVE  /\ ex[n] # None => ex[n] \in Entries /\ ex[n].mrp \in Mrps
           /\ next[n] <= MaxCounter[n] => next[n] \in Counters
           /\ next[n] \in Nat /\ MaxCounter[n] \in Nat /\ next[n] >= 1
           /\ Other(n) \in Ends /\ Other(n) # n /\ Other(Other(n)) = n
           /\ \A k \in Ends : k = n \/ k = Other(n)
<1>1. ex[n] # None => ex[n] \in Entries /\ ex[n].mrp \in Mrps
  BY DEF TypeOK, Entries
<1>2. next[n] \in Nat /\ MaxCounter[n] \in Counters /\ next[n] >= 1
  BY ExchangeAssumption DEF TypeOK
<1>3. MaxCounter[n] \in Nat /\ (next[n] <= MaxCounter[n] => next[n] \in Counters)
  BY <1>2, CounterAssumption DEF Counters
<1>4. Other(n) \in Ends /\ Other(n) # n /\ Other(Other(n)) = n
      /\ \A k \in Ends : k = n \/ k = Other(n)
  BY DEF Ends, Other
<1> QED BY <1>1, <1>2, <1>3, <1>4

\* A step that replaces the Mrp state of one end's entry.
LEMMA Updated ==
    ASSUME TypeOK, NEW n \in Ends, ex[n] # None, NEW m \in Mrps,
           ex' = [ex EXCEPT ![n].mrp = m]
    PROVE  /\ ex' \in [Ends -> {None} \cup Entries]
           /\ ex'[n] # None /\ ex'[n].mrp = m
           /\ \A k \in Ends \ {n} : ex'[k] = ex[k]
<1>1. ex \in [Ends -> {None} \cup Entries]
  BY DEF TypeOK
<1>2. ex[n] \in Entries
  BY <1>1
<1> DEFINE e == [ex[n] EXCEPT !.mrp = m]
<1>3. e \in Entries /\ e.mrp = m
  BY <1>2, MrpParts, Zenon
<1>4. e # None
  BY <1>3, NoneIsApart
<1>5. ex' = [ex EXCEPT ![n] = e]
  BY <1>1
<1> HIDE DEF e
<1> QED BY <1>1, <1>3, <1>4, <1>5

\* A step that writes one datagram, with the next counter of its sender.
LEMMA Written ==
    ASSUME TypeOK, NEW n \in Ends, next[n] <= MaxCounter[n],
           NEW reliable \in BOOLEAN, NEW a \in {None} \cup Counters, NEW b \in {None} \cup Bodies,
           next' = [next EXCEPT ![n] = @ + 1],
           net' = net \cup {[from |-> n, counter |-> next[n], reliable |-> reliable,
                             ack |-> a, body |-> b]}
    PROVE  /\ next' \in [Ends -> Nat] /\ \A k \in Ends : next'[k] \in 1 .. MaxCounter[k] + 1
           /\ net' \subseteq Datagrams /\ \A m \in net' : m.counter < next'[m.from]
<1> DEFINE d == [from |-> n, counter |-> next[n], reliable |-> reliable, ack |-> a, body |-> b]
<1>1. /\ next \in [Ends -> Nat] /\ \A k \in Ends : next[k] \in 1 .. MaxCounter[k] + 1
      /\ net \subseteq Datagrams /\ \A m \in net : m.counter < next[m.from]
  BY DEF TypeOK
<1>2. \A k \in Ends : MaxCounter[k] \in Nat /\ next[k] \in Nat
  BY Typed
<1>3. next[n] \in Counters
  BY Typed
<1>4. d \in Datagrams /\ d.from = n /\ d.counter = next[n]
  BY <1>3 DEF Datagrams
<1>5. next'[n] = next[n] + 1 /\ \A k \in Ends \ {n} : next'[k] = next[k]
  BY <1>1
<1>6. next' \in [Ends -> Nat] /\ \A k \in Ends : next'[k] \in 1 .. MaxCounter[k] + 1
  BY <1>1, <1>2, <1>5
<1>7. \A k \in Ends : next[k] <= next'[k]
  BY <1>2, <1>5
<1>8. net' = net \cup {d}
  OBVIOUS
<1> HIDE DEF d
<1>9. ASSUME NEW m \in net' PROVE m \in Datagrams /\ m.counter < next'[m.from]
  <2>1. CASE m \in net
    <3>1. m.from \in Ends /\ m.counter \in Int
      BY <1>1, <2>1, CounterAssumption DEF Datagrams, Counters
    <3>2. next[m.from] \in Int /\ next'[m.from] \in Int
      BY <1>1, <1>6, <3>1
    <3> QED BY <1>1, <1>7, <2>1, <3>1, <3>2
  <2>2. CASE m = d
    BY <1>2, <1>4, <1>5, <2>2
  <2> QED BY <1>8, <2>1, <2>2
<1> QED BY <1>6, <1>9

\* Messaging::send.
LEMMA SendStep ==
    ASSUME TypeOK, NEW n \in Ends, NEW b \in Bodies, NEW reliable \in BOOLEAN, Send(n, b, reliable)
    PROVE  /\ TypeOK'
           /\ ex'[n] # None /\ ex'[n].mrp.ack = None
           /\ reliable => ex'[n].mrp.tx # None /\ ex'[n].mrp.tx.counter = next[n]
           /\ ~reliable => ex'[n].mrp.tx = ex[n].mrp.tx
           /\ \A k \in Ends \ {n} : ex'[k] = ex[k]
<1> DEFINE p == TakePiggyback(ex[n].mrp)
           m == IF reliable THEN OnSend(p, next[n], 0) ELSE p
<1>1. ex[n] # None /\ next[n] <= MaxCounter[n]
  BY DEF Send
<1>2. ex[n].mrp \in Mrps /\ next[n] \in Counters
  BY <1>1, Typed
<1>3. p \in Mrps /\ p.tx = ex[n].mrp.tx /\ p.ack = None
  BY <1>2, Piggybacks
<1>4. Piggyback(ex[n].mrp) \in {None} \cup Counters
  BY <1>2, Piggybacks
<1>5. ex' = [ex EXCEPT ![n].mrp = m]
  BY DEF Send
<1> HIDE DEF p
<1>6. /\ m \in Mrps /\ m.ack = None
      /\ reliable => m.tx # None /\ m.tx.counter = next[n]
      /\ ~reliable => m.tx = ex[n].mrp.tx
  BY <1>2, <1>3, Sets
<1> HIDE DEF m
<1>7. /\ ex' \in [Ends -> {None} \cup Entries]
      /\ ex'[n] # None /\ ex'[n].mrp = m
      /\ \A k \in Ends \ {n} : ex'[k] = ex[k]
  BY Zenon, <1>1, <1>5, <1>6, Updated
<1>8. /\ next' \in [Ends -> Nat] /\ \A k \in Ends : next'[k] \in 1 .. MaxCounter[k] + 1
      /\ net' \subseteq Datagrams /\ \A o \in net' : o.counter < next'[o.from]
  BY Zenon, <1>1, <1>4, Written DEF Send
<1>9. outcome' \in [Ends -> [Bodies -> Promised]] /\ rx' = rx /\ handed' = handed
  BY DEF Send, TypeOK, Promised
<1>10. TypeOK'
  BY <1>7, <1>8, <1>9 DEF TypeOK
<1> QED BY <1>6, <1>7, <1>10

\* Messaging::send refused with Busy.
LEMMA SendBusyStep ==
    ASSUME TypeOK, NEW n \in Ends, SendBusy(n)
    PROVE  /\ TypeOK'
           /\ ex'[n] # None /\ ex'[n].mrp.ack = None /\ ex'[n].mrp.tx = ex[n].mrp.tx
           /\ \A k \in Ends \ {n} : ex'[k] = ex[k]
<1> DEFINE p == TakePiggyback(ex[n].mrp)
<1>1. ex[n] # None /\ next[n] <= MaxCounter[n]
  BY DEF SendBusy
<1>2. ex[n].mrp \in Mrps
  BY <1>1, Typed
<1>3. p \in Mrps /\ p.tx = ex[n].mrp.tx /\ p.ack = None
  BY <1>2, Piggybacks
<1>4. ex' = [ex EXCEPT ![n].mrp = p]
  BY DEF SendBusy, TypeOK
<1> HIDE DEF p
<1>5. /\ ex' \in [Ends -> {None} \cup Entries]
      /\ ex'[n] # None /\ ex'[n].mrp = p
      /\ \A k \in Ends \ {n} : ex'[k] = ex[k]
  BY Zenon, <1>1, <1>3, <1>4, Updated
<1>6. /\ next' = [next EXCEPT ![n] = @ + 1] /\ rx' = rx /\ net' = net
      /\ outcome' = outcome /\ handed' = handed
  BY DEF SendBusy
<1>7. next \in [Ends -> Nat] /\ \A k \in Ends : next[k] \in 1 .. MaxCounter[k] + 1
  BY DEF TypeOK
<1>8. \A k \in Ends : MaxCounter[k] \in Nat /\ next[k] \in Nat
  BY Typed
<1>9. next'[n] = next[n] + 1 /\ \A k \in Ends \ {n} : next'[k] = next[k]
  BY <1>6, <1>7
<1>10. next' \in [Ends -> Nat] /\ \A k \in Ends : next'[k] \in 1 .. MaxCounter[k] + 1
  BY <1>1, <1>6, <1>7, <1>8, <1>9
<1>11. \A m \in net : m.counter < next'[m.from]
  <2>1. TAKE m \in net
  <2>2. m.from \in Ends /\ m.counter \in Int /\ m.counter < next[m.from]
    BY SMTT(30), CounterAssumption DEF TypeOK, Datagrams, Counters
  <2> QED BY <1>8, <1>9, <2>2
<1>12. TypeOK'
  BY <1>5, <1>6, <1>10, <1>11 DEF TypeOK
<1> QED BY <1>3, <1>5, <1>12

\* Removing the entry.
LEMMA DropStep ==
    ASSUME TypeOK, NEW n \in Ends, Drop(n)
    PROVE  /\ ex' \in [Ends -> {None} \cup Entries]
           /\ outcome' \in [Ends -> [Bodies -> Promised]]
           /\ ex'[n] = None /\ \A k \in Ends \ {n} : ex'[k] = ex[k] /\ outcome'[k] = outcome[k]
           /\ outcome'[n] = Settled(n, "abandoned")
BY DEF Drop, TypeOK, Settled, Promised

\* Messaging::close, and poll giving up.
LEMMA CloseStep ==
    ASSUME TypeOK, NEW n \in Ends, Drop(n), UNCHANGED <<next, rx, net, handed>>
    PROVE  TypeOK'
BY DropStep DEF TypeOK

\* Messaging::acknowledge, with or without something owed.
LEMMA AcknowledgeStep ==
    ASSUME TypeOK, NEW n \in Ends, ex[n] # None, NEW m \in Mrps, m.tx = ex[n].mrp.tx,
           AcknowledgeWith(n, m)
    PROVE  /\ TypeOK'
           /\ \/ Drop(n)
              \/ /\ ex'[n] # None /\ ex'[n].mrp.ack = None /\ ex'[n].mrp.tx = ex[n].mrp.tx
                 /\ \A k \in Ends \ {n} : ex'[k] = ex[k]
                 /\ outcome' = outcome
<1>1. m.ack = None \/ next[n] <= MaxCounter[n]
  BY DEF AcknowledgeWith
<1>2. TakePiggyback(m) \in Mrps /\ TakePiggyback(m).tx = ex[n].mrp.tx /\ TakePiggyback(m).ack = None
      /\ Piggyback(m) \in {None} \cup Counters
  BY Piggybacks
<1>3. /\ next' \in [Ends -> Nat] /\ \A k \in Ends : next'[k] \in 1 .. MaxCounter[k] + 1
      /\ net' \subseteq Datagrams /\ \A o \in net' : o.counter < next'[o.from]
  <2>1. CASE m.ack = None
    BY <2>1 DEF AcknowledgeWith, TypeOK
  <2>2. CASE m.ack # None
    <3>1. /\ next' = [next EXCEPT ![n] = @ + 1]
          /\ net' = net \cup {[from |-> n, counter |-> next[n], reliable |-> FALSE,
                               ack |-> Piggyback(m), body |-> None]}
      BY <2>2 DEF AcknowledgeWith
    <3> QED BY Zenon, <1>1, <1>2, <2>2, <3>1, Written
  <2> QED BY <2>1, <2>2
<1>4. rx' = rx /\ handed' = handed
  BY DEF AcknowledgeWith
<1>5. CASE ex[n].ephemeral
  <2>1. Drop(n)
    BY <1>5 DEF AcknowledgeWith
  <2> QED BY <1>3, <1>4, <2>1, DropStep DEF TypeOK
<1>6. CASE ~ex[n].ephemeral
  <2>1. ex' = [ex EXCEPT ![n].mrp = TakePiggyback(m)] /\ outcome' = outcome
    BY <1>6 DEF AcknowledgeWith
  <2>2. /\ ex' \in [Ends -> {None} \cup Entries]
        /\ ex'[n] # None /\ ex'[n].mrp = TakePiggyback(m)
        /\ \A k \in Ends \ {n} : ex'[k] = ex[k]
    BY Zenon, <1>2, <2>1, Updated
  <2> QED BY <1>2, <1>3, <1>4, <2>1, <2>2 DEF TypeOK
<1> QED BY <1>5, <1>6

\* poll's retransmission.
LEMMA RetransmitStep ==
    ASSUME TypeOK, NEW n \in Ends, PollRetransmit(n)
    PROVE  /\ TypeOK'
           /\ ex'[n] # None /\ ex'[n].mrp.ack = ex[n].mrp.ack
           /\ ex'[n].mrp.tx # None /\ ex'[n].mrp.tx.counter = ex[n].mrp.tx.counter
           /\ \A k \in Ends \ {n} : ex'[k] = ex[k]
<1> DEFINE m == OnTxTimeout(ex[n].mrp, 0)
<1>1. ex[n] # None /\ ex[n].mrp.tx # None /\ ~GivesUp(ex[n].mrp)
  BY DEF PollRetransmit, IsAwaitingAck
<1>2. ex[n].mrp \in Mrps /\ 0 \in Counters
  BY <1>1, Typed, CounterAssumption DEF Counters
<1>3. m \in Mrps /\ m.ack = ex[n].mrp.ack /\ m.tx # None /\ m.tx.counter = ex[n].mrp.tx.counter
  BY <1>1, <1>2, Settles
<1>4. ex' = [ex EXCEPT ![n].mrp = m]
  BY DEF PollRetransmit, TypeOK
<1> HIDE DEF m
<1>5. /\ ex' \in [Ends -> {None} \cup Entries]
      /\ ex'[n] # None /\ ex'[n].mrp = m
      /\ \A k \in Ends \ {n} : ex'[k] = ex[k]
  BY Zenon, <1>1, <1>3, <1>4, Updated
<1>6. TypeOK'
  BY <1>5 DEF PollRetransmit, TypeOK
<1> QED BY <1>3, <1>5, <1>6

\* The windows are those of a secure session, and one that has judged nothing is at zero.
Wins == \A k \in Ends : rx[k] \in Secure /\ (rx[k].primed \/ rx[k].max = 0)

\* What end n waits for, and what it owes
Tx(n) == IF ex[n] = None THEN None ELSE ex[n].mrp.tx
Owed(n) == IF ex[n] = None THEN None ELSE ex[n].mrp.ack

\* The outcome of a receive: the message is not processed, or it is. What it settles is the
\* message its acknowledgement names, and what it leaves owed is its own counter.
Ignored(n, m) ==
    /\ ex' = ex /\ outcome' = outcome /\ handed' = handed
    /\ ex[n] = None
    /\ CanBeFull \/ n = "initiator" \/ Verdict(rx[n], m.counter) = "Duplicate"
Processed(n, m) ==
    /\ ex[n] # None \/ n = "responder"
    /\ \A k \in Ends \ {n} : ex'[k] = ex[k]
    /\ IF m.reliable THEN Owed(n)' # None /\ Owed(n)'.counter = m.counter
                     ELSE Owed(n)' = Owed(n)
    /\ \/ Tx(n)' = Tx(n) /\ outcome' = outcome
       \/ /\ Tx(n) # None /\ Tx(n)' = None /\ m.ack = Tx(n).counter
          /\ outcome' = [outcome EXCEPT ![n] = Settled(n, "confirmed")]
    /\ handed' = IF Verdict(rx[n], m.counter) # "Duplicate" /\ m.body # None
                 THEN [handed EXCEPT ![m.from] = Append(@, m.body)] ELSE handed

\* The entry a message is routed to is the exchange's own or a new one.
LEMMA Routed ==
    ASSUME TypeOK, NEW n \in Ends, NEW m, NEW duplicate \in BOOLEAN,
           Route(n, m, duplicate) # None
    PROVE  /\ Route(n, m, duplicate) \in Entries /\ Route(n, m, duplicate).mrp \in Mrps
           /\ ex[n] # None \/ n = "responder"
           /\ Route(n, m, duplicate).mrp.tx = Tx(n) /\ Route(n, m, duplicate).mrp.ack = Owed(n)
<1>1. ASSUME NEW ephemeral \in BOOLEAN
      PROVE  /\ NewExchange(ephemeral) \in Entries /\ NewExchange(ephemeral).mrp \in Mrps
             /\ NewExchange(ephemeral).mrp.tx = None /\ NewExchange(ephemeral).mrp.ack = None
  BY DEF NewExchange, NewMrp, Entries, Mrps
<1>2. CASE ex[n] # None
  BY <1>2, Typed DEF Route, Tx, Owed
<1>3. CASE ex[n] = None
  <2>1. n = "responder"
    BY Zenon, <1>3 DEF Route, Ends
  <2>2. Route(n, m, duplicate) \in {NewExchange(TRUE), NewExchange(FALSE)}
    BY Zenon, <1>3 DEF Route
  <2> QED BY Zenon, <1>1, <1>3, <2>1, <2>2 DEF Tx, Owed
<1> QED BY <1>2, <1>3

\* Messaging::receive, once the message is routed.
LEMMA ProcessStep ==
    ASSUME TypeOK, NEW n \in Ends, NEW m \in net, NEW e \in Entries, e.mrp \in Mrps,
           ex[n] # None \/ n = "responder", e.mrp.tx = Tx(n), e.mrp.ack = Owed(n),
           m.from = Other(n),
           Process(n, m, e, Verdict(rx[n], m.counter) = "Duplicate")
    PROVE  Processed(n, m) /\ ex' \in [Ends -> {None} \cup Entries]
<1> DEFINE acked == IF m.ack = None THEN e.mrp ELSE OnAck(e.mrp, m.ack)
           new == IF m.reliable THEN OnReliableReceived(acked, m.counter, 0) ELSE acked
           entry == [e EXCEPT !.mrp = new]
<1>1. m \in Datagrams
  BY DEF TypeOK
<1>2. m.counter \in Counters /\ m.ack \in {None} \cup Counters /\ m.reliable \in BOOLEAN
  BY <1>1 DEF Datagrams
<1>3. /\ acked \in Mrps /\ acked.ack = e.mrp.ack /\ acked.tx \in {e.mrp.tx, None}
      /\ e.mrp.tx # None /\ acked.tx = None => m.ack = e.mrp.tx.counter
  BY Zenon, <1>2, Settles
<1>4. /\ ex' = [ex EXCEPT ![n] = entry]
      /\ outcome' = IF IsAwaitingAck(e.mrp) /\ ~IsAwaitingAck(acked)
                    THEN [outcome EXCEPT ![n] = Settled(n, "confirmed")] ELSE outcome
      /\ handed' = IF Verdict(rx[n], m.counter) # "Duplicate" /\ m.body # None
                   THEN [handed EXCEPT ![m.from] = Append(@, m.body)] ELSE handed
  BY SMTT(30) DEF Process, HandsUp
<1> HIDE DEF acked
<1>5. /\ new \in Mrps /\ new.tx = acked.tx
      /\ IF m.reliable THEN new.ack # None /\ new.ack.counter = m.counter
                       ELSE new.ack = acked.ack
  BY <1>2, <1>3, Sets
<1> HIDE DEF new
<1>6. entry \in Entries /\ entry.mrp = new
  BY <1>5, MrpParts, Zenon
<1>7. entry # None
  BY <1>6, NoneIsApart
<1> HIDE DEF entry
<1>8. ex' \in [Ends -> {None} \cup Entries] /\ ex'[n] = entry /\ \A k \in Ends \ {n} : ex'[k] = ex[k]
  BY Zenon, <1>4, <1>6 DEF TypeOK
<1>9. Tx(n)' = new.tx /\ Owed(n)' = new.ack
  BY <1>6, <1>7, <1>8 DEF Tx, Owed
<1>10. IF m.reliable THEN Owed(n)' # None /\ Owed(n)'.counter = m.counter ELSE Owed(n)' = Owed(n)
  BY Zenon, <1>3, <1>5, <1>9
<1>11. \/ Tx(n)' = Tx(n) /\ outcome' = outcome
       \/ /\ Tx(n) # None /\ Tx(n)' = None /\ m.ack = Tx(n).counter
          /\ outcome' = [outcome EXCEPT ![n] = Settled(n, "confirmed")]
  <2>1. CASE Tx(n) # None /\ Tx(n)' = None
    BY Zenon, <1>3, <1>4, <1>5, <1>9, <2>1 DEF IsAwaitingAck
  <2>2. CASE Tx(n)' = Tx(n)
    BY Zenon, <1>3, <1>4, <1>5, <1>9, <2>2 DEF IsAwaitingAck
  <2> QED BY Zenon, <1>3, <1>5, <1>9, <2>1, <2>2
<1> QED BY Zenon, <1>4, <1>8, <1>10, <1>11 DEF Processed

\* Messaging::receive.
LEMMA ReceiveStep ==
    ASSUME TypeOK, Wins, NEW n \in Ends, NEW m \in net, Receive(n, m)
    PROVE  /\ TypeOK' /\ Wins'
           /\ m.from = Other(n) /\ next' = next /\ net' = net
           /\ rx'[n] = Accept(rx[n], m.counter) /\ \A k \in Ends \ {n} : rx'[k] = rx[k]
           /\ Ignored(n, m) \/ Processed(n, m)
<1> DEFINE duplicate == Verdict(rx[n], m.counter) = "Duplicate"
           e == Route(n, m, duplicate)
<1>1. /\ m.from = Other(n) /\ next' = next /\ net' = net
      /\ rx' = [rx EXCEPT ![n] = Accept(@, m.counter)]
  BY Zenon DEF Receive
<1>2. m \in Datagrams /\ m.counter \in Counters /\ m.body \in {None} \cup Bodies /\ m.from \in Ends
  BY DEF TypeOK, Datagrams
<1>3. rx[n] \in Secure /\ (rx[n].primed \/ rx[n].max = 0)
  BY DEF Wins
<1>4. Accept(rx[n], m.counter) \in Secure /\ Accept(rx[n], m.counter).primed
  BY <1>2, <1>3, AcceptTypes
<1>5. rx \in [Ends -> Windows]
  BY DEF TypeOK
<1>6. rx'[n] = Accept(rx[n], m.counter) /\ \A k \in Ends \ {n} : rx'[k] = rx[k]
  BY <1>1, <1>5
<1>7. rx' \in [Ends -> Windows] /\ Wins'
  BY <1>1, <1>4, <1>5, <1>6 DEF Wins, Secure
<1>8. CASE e # None /\ Process(n, m, e, duplicate)
  <2>1. e \in Entries /\ e.mrp \in Mrps /\ (ex[n] # None \/ n = "responder")
        /\ e.mrp.tx = Tx(n) /\ e.mrp.ack = Owed(n)
    BY Zenon, <1>8, Routed
  <2>2. Processed(n, m) /\ ex' \in [Ends -> {None} \cup Entries]
    <3> HIDE DEF e
    <3> QED BY Zenon, <1>1, <1>8, <2>1, ProcessStep
  <2>3. outcome' \in [Ends -> [Bodies -> Promised]]
    <3>1. outcome \in [Ends -> [Bodies -> Promised]]
      BY DEF TypeOK
    <3>2. Settled(n, "confirmed") \in [Bodies -> Promised]
      BY <3>1 DEF Settled, Promised
    <3> QED BY Zenon, <2>2, <3>1, <3>2 DEF Processed
  <2>4. handed' \in [Ends -> Seq(Bodies)]
    <3>1. handed \in [Ends -> Seq(Bodies)]
      BY Zenon DEF TypeOK
    <3>2. m.body # None => Append(handed[m.from], m.body) \in Seq(Bodies)
      BY <1>2, <3>1
    <3> QED BY Zenon, <2>2, <3>1, <3>2 DEF Processed
  <2>5. TypeOK'
    BY Zenon, <1>1, <1>7, <2>2, <2>3, <2>4 DEF TypeOK
  <2> QED BY <1>1, <1>6, <1>7, <2>2, <2>5
<1>9. CASE /\ e = None \/ (CanBeFull /\ ex[n] = None)
           /\ UNCHANGED <<ex, outcome, handed>>
  <2>1. ex[n] = None /\ (CanBeFull \/ n = "initiator" \/ duplicate)
    <3>1. NewExchange(FALSE) \in Entries
      BY DEF NewExchange, NewMrp, Entries, Mrps
    <3>2. NewExchange(FALSE) # None
      BY Zenon, <3>1, NoneIsApart
    <3> QED BY Zenon, <1>9, <3>2 DEF Route
  <2>2. TypeOK'
    BY Zenon, <1>1, <1>7, <1>9 DEF TypeOK
  <2> QED BY Zenon, <1>1, <1>6, <1>7, <1>9, <2>1, <2>2 DEF Ignored
<1> QED BY Zenon, <1>8, <1>9 DEF Receive

-----------------------------------------------------------------------------
(* The other steps, in two forms                                            *)

\* One datagram written by n, carrying the acknowledgement it owes if any
Wrote(n, body) ==
    /\ next'[n] = next[n] + 1 /\ \A k \in Ends \ {n} : next'[k] = next[k]
    /\ \E d \in Datagrams :
        /\ net' = net \cup {d} /\ d.from = n /\ d.counter = next[n] /\ d.body = body
        /\ d.ack # None => Owed(n) # None /\ d.ack = Owed(n).counter

\* A step of n's entry alone: what it owes is kept or gone, what it waits for is kept or
\* abandoned, and nothing is written but an acknowledgement.
Local(n) ==
    /\ rx' = rx /\ handed' = handed /\ ex[n] # None
    /\ \A k \in Ends \ {n} : ex'[k] = ex[k]
    /\ \A k \in Ends : next[k] <= next'[k]
    /\ Owed(n)' \in {None, Owed(n)}
    /\ \/ /\ outcome' = outcome
          /\ Tx(n)' # None <=> Tx(n) # None
          /\ Tx(n) # None => Tx(n)'.counter = Tx(n).counter
       \/ Tx(n)' = None /\ outcome' = [outcome EXCEPT ![n] = Settled(n, "abandoned")]
    /\ net' = net \/ Wrote(n, None)

\* A body submitted.
Sending(n, b, reliable) ==
    /\ rx' = rx /\ handed' = handed /\ ex[n] # None
    /\ \A k \in Ends \ {n} : ex'[k] = ex[k]
    /\ Owed(n)' = None
    /\ IF reliable THEN Tx(n) = None /\ Tx(n)' # None /\ Tx(n)'.counter = next[n]
                   ELSE Tx(n)' = Tx(n)
    /\ outcome[n][b] = "unsent" /\ \A c \in Bodies : c < b => outcome[n][c] # "unsent"
    /\ outcome' = [outcome EXCEPT ![n][b] = IF reliable THEN "pending" ELSE "unreliable"]
    /\ Wrote(n, b)
    /\ reliable => \E d \in net' : d.from = n /\ d.counter = next[n] /\ d.body = b /\ d.reliable

\* A counter supply moves one way.
LEMMA Counting ==
    ASSUME TypeOK, NEW n \in Ends, next' = next \/ next' = [next EXCEPT ![n] = @ + 1]
    PROVE  \A k \in Ends : next[k] <= next'[k]
<1>1. next \in [Ends -> Nat]
  BY Zenon DEF TypeOK
<1>2. \A k \in Ends : next'[k] = next[k] \/ next'[k] = next[k] + 1
  BY <1>1
<1> QED BY <1>1, <1>2

\* A step that writes a datagram with what is owed.
LEMMA Writes ==
    ASSUME TypeOK, NEW n \in Ends, ex[n] # None, next[n] <= MaxCounter[n],
           NEW reliable \in BOOLEAN, NEW m \in Mrps, m.ack \in {None, ex[n].mrp.ack},
           NEW b \in {None} \cup Bodies,
           next' = [next EXCEPT ![n] = @ + 1],
           net' = net \cup {[from |-> n, counter |-> next[n], reliable |-> reliable,
                             ack |-> Piggyback(m), body |-> b]}
    PROVE  /\ Wrote(n, b)
           /\ \E d \in net' : d.from = n /\ d.counter = next[n] /\ d.body = b /\ d.reliable = reliable
<1> DEFINE d == [from |-> n, counter |-> next[n], reliable |-> reliable,
                 ack |-> Piggyback(m), body |-> b]
<1>1. next[n] \in Counters
  BY Zenon, Typed
<1>2. /\ Piggyback(m) \in {None} \cup Counters
      /\ Piggyback(m) # None => m.ack # None /\ Piggyback(m) = m.ack.counter
  BY Piggybacks
<1>3. d \in Datagrams /\ d.from = n /\ d.counter = next[n] /\ d.body = b /\ d.ack = Piggyback(m)
      /\ d.reliable = reliable
  BY Zenon, <1>1, <1>2 DEF Datagrams
<1>4. Piggyback(m) # None => Owed(n) # None /\ Piggyback(m) = Owed(n).counter
  BY Zenon, <1>2 DEF Owed
<1>5. next'[n] = next[n] + 1 /\ \A k \in Ends \ {n} : next'[k] = next[k]
  BY Zenon DEF TypeOK
<1>6. net' = net \cup {d}
  BY Zenon
<1> HIDE DEF d
<1> QED BY Zenon, <1>3, <1>4, <1>5, <1>6 DEF Wrote

\* Messaging::send is a Sending.
LEMMA SendForm ==
    ASSUME TypeOK, NEW n \in Ends, NEW b \in Bodies, NEW reliable \in BOOLEAN, Send(n, b, reliable)
    PROVE  Sending(n, b, reliable)
<1>1. /\ ex'[n] # None /\ ex'[n].mrp.ack = None
      /\ reliable => ex'[n].mrp.tx # None /\ ex'[n].mrp.tx.counter = next[n]
      /\ ~reliable => ex'[n].mrp.tx = ex[n].mrp.tx
      /\ \A k \in Ends \ {n} : ex'[k] = ex[k]
  BY SendStep
<1>2. /\ ex[n] # None /\ next[n] <= MaxCounter[n]
      /\ reliable => ex[n].mrp.tx = None
      /\ next' = [next EXCEPT ![n] = @ + 1]
      /\ net' = net \cup {[from |-> n, counter |-> next[n], reliable |-> reliable,
                           ack |-> Piggyback(ex[n].mrp), body |-> b]}
  BY DEF Send, Busy, IsAwaitingAck
<1>3. ex[n].mrp \in Mrps
  BY Zenon, <1>2, Typed
<1>4. /\ Wrote(n, b)
      /\ \E d \in net' : d.from = n /\ d.counter = next[n] /\ d.body = b /\ d.reliable = reliable
  BY ZenonT(60), <1>2, <1>3, Writes
<1>5. /\ Owed(n)' = None
      /\ IF reliable THEN Tx(n) = None /\ Tx(n)' # None /\ Tx(n)'.counter = next[n]
                     ELSE Tx(n)' = Tx(n)
  BY Zenon, <1>1, <1>2 DEF Owed, Tx
<1>6. /\ rx' = rx /\ handed' = handed
      /\ outcome[n][b] = "unsent" /\ \A c \in Bodies : c < b => outcome[n][c] # "unsent"
      /\ outcome' = [outcome EXCEPT ![n][b] = IF reliable THEN "pending" ELSE "unreliable"]
  BY DEF Send
<1> QED BY Zenon, <1>1, <1>2, <1>4, <1>5, <1>6 DEF Sending

\* Messaging::acknowledge is Local.
LEMMA AcknowledgeForm ==
    ASSUME TypeOK, NEW n \in Ends, ex[n] # None, NEW m \in Mrps, m.tx = ex[n].mrp.tx,
           m.ack \in {None, ex[n].mrp.ack}, AcknowledgeWith(n, m)
    PROVE  Local(n)
<1>1. \/ Drop(n)
      \/ /\ ex'[n] # None /\ ex'[n].mrp.ack = None /\ ex'[n].mrp.tx = ex[n].mrp.tx
         /\ \A k \in Ends \ {n} : ex'[k] = ex[k]
         /\ outcome' = outcome
  BY Zenon, AcknowledgeStep
<1>2. net' = net \/ Wrote(n, None)
  <2>1. CASE m.ack = None
    BY <2>1 DEF AcknowledgeWith
  <2>2. CASE m.ack # None
    <3>1. /\ next[n] <= MaxCounter[n]
          /\ next' = [next EXCEPT ![n] = @ + 1]
          /\ net' = net \cup {[from |-> n, counter |-> next[n], reliable |-> FALSE,
                               ack |-> Piggyback(m), body |-> None]}
      BY <2>2 DEF AcknowledgeWith
    <3> QED BY Zenon, <3>1, Writes
  <2> QED BY <2>1, <2>2
<1>3. rx' = rx /\ handed' = handed /\ \A k \in Ends : next[k] <= next'[k]
  BY Counting DEF AcknowledgeWith
<1>4. CASE Drop(n)
  <2>1. ex'[n] = None /\ \A k \in Ends \ {n} : ex'[k] = ex[k]
    BY Zenon, <1>4, DropStep
  <2>2. Tx(n)' = None /\ Owed(n)' = None
    BY Zenon, <2>1 DEF Tx, Owed
  <2>3. outcome' = [outcome EXCEPT ![n] = Settled(n, "abandoned")]
    BY <1>4 DEF Drop
  <2> QED BY Zenon, <1>2, <1>3, <2>1, <2>2, <2>3 DEF Local
<1>5. CASE /\ ex'[n] # None /\ ex'[n].mrp.ack = None /\ ex'[n].mrp.tx = ex[n].mrp.tx
           /\ \A k \in Ends \ {n} : ex'[k] = ex[k]
           /\ outcome' = outcome
  <2>1. Tx(n)' = Tx(n) /\ Owed(n)' = None
    BY Zenon, <1>5 DEF Tx, Owed
  <2> QED BY Zenon, <1>2, <1>3, <1>5, <2>1 DEF Local
<1> QED BY Zenon, <1>1, <1>4, <1>5

\* Every step is a submission, a receive, or Local.
LEMMA Forms ==
    ASSUME TypeOK, Wins, Next
    PROVE  /\ TypeOK' /\ Wins'
           /\ \E n \in Ends :
                \/ \E b \in Bodies, reliable \in BOOLEAN : Sending(n, b, reliable)
                \/ Local(n)
                \/ \E m \in net : Receive(n, m)
<1>1. PICK n \in Ends :
        \/ \E b \in Bodies, reliable \in BOOLEAN : Send(n, b, reliable)
        \/ SendBusy(n)
        \/ Acknowledge(n)
        \/ Close(n)
        \/ \E m \in net : Receive(n, m)
        \/ PollAcknowledge(n)
        \/ PollRetransmit(n)
        \/ PollAbandoned(n)
  BY DEF Next
<1>2. rx' = rx => Wins'
  BY DEF Wins
<1>3. ASSUME NEW b \in Bodies, NEW reliable \in BOOLEAN, Send(n, b, reliable)
      PROVE  TypeOK' /\ Wins' /\ Sending(n, b, reliable)
  BY Zenon, <1>2, <1>3, SendStep, SendForm DEF Send
<1>4. CASE SendBusy(n)
  <2>1. /\ TypeOK' /\ rx' = rx /\ handed' = handed /\ ex[n] # None /\ net' = net /\ outcome' = outcome
        /\ ex'[n] # None /\ ex'[n].mrp.ack = None /\ ex'[n].mrp.tx = ex[n].mrp.tx
        /\ \A k \in Ends \ {n} : ex'[k] = ex[k]
    BY Zenon, <1>4, SendBusyStep DEF SendBusy
  <2>2. Tx(n)' = Tx(n) /\ Owed(n)' = None
    BY Zenon, <2>1 DEF Tx, Owed
  <2>3. \A k \in Ends : next[k] <= next'[k]
    BY Zenon, <1>4, Counting DEF SendBusy
  <2> QED BY Zenon, <1>2, <2>1, <2>2, <2>3 DEF Local
<1>5. CASE Acknowledge(n)
  <2>1. ex[n] # None /\ AcknowledgeWith(n, ex[n].mrp)
    BY <1>5 DEF Acknowledge
  <2>2. ex[n].mrp \in Mrps
    BY <2>1, Typed
  <2> QED BY Zenon, <1>2, <2>1, <2>2, AcknowledgeStep, AcknowledgeForm DEF AcknowledgeWith
<1>6. CASE Close(n) \/ PollAbandoned(n)
  <2>1. /\ ex[n] # None /\ Drop(n)
        /\ next' = next /\ rx' = rx /\ net' = net /\ handed' = handed
    BY <1>6 DEF Close, PollAbandoned
  <2>2. ex'[n] = None /\ \A k \in Ends \ {n} : ex'[k] = ex[k]
    BY Zenon, <2>1, DropStep
  <2>3. Tx(n)' = None /\ Owed(n)' = None
    BY <2>2 DEF Tx, Owed
  <2>4. outcome' = [outcome EXCEPT ![n] = Settled(n, "abandoned")]
    BY <2>1 DEF Drop
  <2>5. Local(n)
    <3>1. \A k \in Ends : next[k] <= next'[k]
      BY <2>1, Counting
    <3> QED BY Zenon, <2>1, <2>2, <2>3, <2>4, <3>1 DEF Local
  <2>6. TypeOK'
    BY <2>1, CloseStep
  <2> QED BY <1>2, <2>1, <2>5, <2>6
<1>7. ASSUME NEW m \in net, Receive(n, m) PROVE TypeOK' /\ Wins'
  BY <1>7, ReceiveStep
<1>8. CASE PollAcknowledge(n)
  <2> DEFINE m == OnAckTimeout(ex[n].mrp)
  <2>1. ex[n] # None /\ AcknowledgeWith(n, m)
    BY <1>8 DEF PollAcknowledge
  <2>2. ex[n].mrp \in Mrps
    BY Zenon, <2>1, Typed
  <2>3. m \in Mrps /\ m.tx = ex[n].mrp.tx /\ m.ack = None
    BY <2>2, Piggybacks
  <2> HIDE DEF m
  <2>4. TypeOK' /\ Local(n)
    BY Zenon, <2>1, <2>3, AcknowledgeStep, AcknowledgeForm
  <2> QED BY Zenon, <1>2, <2>4 DEF Local
<1>9. CASE PollRetransmit(n)
  <2>1. /\ TypeOK' /\ rx' = rx /\ handed' = handed /\ ex[n] # None /\ net' = net /\ outcome' = outcome
        /\ ex'[n] # None /\ ex'[n].mrp.ack = ex[n].mrp.ack
        /\ ex[n].mrp.tx # None
        /\ ex'[n].mrp.tx # None /\ ex'[n].mrp.tx.counter = ex[n].mrp.tx.counter
        /\ \A k \in Ends \ {n} : ex'[k] = ex[k]
    BY Zenon, <1>9, RetransmitStep DEF PollRetransmit, IsAwaitingAck
  <2>2. Tx(n)' # None /\ Tx(n) # None /\ Tx(n)'.counter = Tx(n).counter /\ Owed(n)' = Owed(n)
    BY Zenon, <2>1 DEF Tx, Owed
  <2>3. \A k \in Ends : next[k] <= next'[k]
    BY <1>9, Counting DEF PollRetransmit
  <2> QED BY Zenon, <1>2, <2>1, <2>2, <2>3 DEF Local
<1> QED BY Zenon, <1>1, <1>3, <1>4, <1>5, <1>6, <1>7, <1>8, <1>9

-----------------------------------------------------------------------------
(* The wire and the upper layers' view of it                                *)

\* A body on the wire or handed up was submitted, each body is on the wire once, and when a
\* message is submitted those before it have been, none of them pending if it is reliable.
Submitted ==
    /\ \A m \in net : m.body # None => outcome[m.from][m.body] # "unsent"
    /\ \A n \in Ends : \A b \in Range(handed[n]) : outcome[n][b] # "unsent"
BodyOnce ==
    \A m, o \in net : m.from = o.from /\ m.body = o.body /\ m.body # None => m = o
Ordered ==
    \A n \in Ends : \A b, c \in Bodies :
        b < c /\ outcome[n][c] # "unsent" =>
            /\ outcome[n][b] # "unsent"
            /\ outcome[n][c] # "unreliable" => outcome[n][b] # "pending"
Wire(n) ==
    /\ Tx(n) # None <=> Pending(n) # {}
    /\ Pending(n) # {} => \E m \in net :
        m.from = n /\ m.counter = Tx(n).counter /\ m.reliable /\ Pending(n) = {m.body}

WireInv ==
    /\ TypeOK /\ Wins /\ OneDatagramPerCounter /\ Submitted /\ BodyOnce /\ Ordered
    /\ \A n \in Ends : Wire(n)

\* Wire is PendingIsOnTheWire.
LEMMA WireMeans == (\A n \in Ends : Wire(n)) => PendingIsOnTheWire
BY Zenon DEF Wire, Tx, PendingIsOnTheWire, IsAwaitingAck

\* What a step may do to the outcomes when nothing is submitted
Kept ==
    \A k \in Ends, b \in Bodies :
        /\ outcome'[k][b] = "unsent" <=> outcome[k][b] = "unsent"
        /\ outcome'[k][b] = "unreliable" <=> outcome[k][b] = "unreliable"
        /\ outcome'[k][b] = "pending" => outcome[k][b] = "pending"

\* Settling the pending message.
LEMMA Settling ==
    ASSUME TypeOK, NEW n \in Ends, NEW how \in {"confirmed", "abandoned"},
           outcome' = [outcome EXCEPT ![n] = Settled(n, how)]
    PROVE  /\ Kept /\ Pending(n)' = {}
           /\ \A k \in Ends \ {n} : outcome'[k] = outcome[k]
           /\ \A b \in Bodies : outcome'[n][b] = IF outcome[n][b] = "pending" THEN how
                                                 ELSE outcome[n][b]
<1>1. outcome \in [Ends -> [Bodies -> Promised]]
  BY Zenon DEF TypeOK
<1>2. \A k \in Ends \ {n} : outcome'[k] = outcome[k]
  BY <1>1
<1>3. \A b \in Bodies : outcome'[n][b] = IF outcome[n][b] = "pending" THEN how ELSE outcome[n][b]
  BY <1>1 DEF Settled
<1>4. Kept
  BY <1>2, <1>3 DEF Kept
<1>5. Pending(n)' = {}
  BY <1>3 DEF Pending
<1> QED BY <1>2, <1>3, <1>4, <1>5

\* What a Local step leaves of the outcomes and of the wire.
LEMMA LocalWire ==
    ASSUME WireInv, TypeOK', NEW n \in Ends, Local(n)
    PROVE  Kept /\ \A k \in Ends : Wire(k)'
<1>1. TypeOK /\ \A k \in Ends : Wire(k)
  BY DEF WireInv
<1>2. net \subseteq net'
  BY Zenon DEF Local, Wrote
<1>3. CASE /\ outcome' = outcome
           /\ Tx(n)' # None <=> Tx(n) # None
           /\ Tx(n) # None => Tx(n)'.counter = Tx(n).counter
  <2>1. Kept
    BY Zenon, <1>3 DEF Kept
  <2>2. ASSUME NEW k \in Ends PROVE Wire(k)'
    <3>1. Pending(k)' = Pending(k)
      BY ZenonT(40), <1>3 DEF Pending
    <3>2. (Tx(k)' # None <=> Tx(k) # None) /\ (Tx(k) # None => Tx(k)'.counter = Tx(k).counter)
      BY <1>3 DEF Local, Tx
    <3> QED BY <1>1, <1>2, <3>1, <3>2 DEF Wire
  <2> QED BY <2>1, <2>2
<1>4. CASE Tx(n)' = None /\ outcome' = [outcome EXCEPT ![n] = Settled(n, "abandoned")]
  <2>1. /\ Kept /\ Pending(n)' = {}
        /\ \A k \in Ends \ {n} : outcome'[k] = outcome[k]
    BY Zenon, <1>1, <1>4, Settling
  <2>2. Wire(n)'
    BY Zenon, <1>4, <2>1 DEF Wire
  <2>3. ASSUME NEW k \in Ends \ {n} PROVE Wire(k)'
    <3>1. Pending(k)' = Pending(k)
      BY <2>1 DEF Pending
    <3>2. Tx(k)' = Tx(k)
      BY Zenon DEF Local, Tx
    <3> QED BY SMTT(30), <1>1, <1>2, <3>1, <3>2 DEF Wire
  <2> QED BY Zenon, <2>1, <2>2, <2>3
<1> QED BY Zenon, <1>3, <1>4 DEF Local

\* The same of Messaging::receive.
LEMMA ReceiveWire ==
    ASSUME WireInv, NEW n \in Ends, NEW m \in net, Receive(n, m)
    PROVE  Kept /\ \A k \in Ends : Wire(k)'
<1>1. TypeOK /\ Wins /\ \A k \in Ends : Wire(k)
  BY DEF WireInv
<1>2. net' = net /\ (Ignored(n, m) \/ Processed(n, m))
  BY Zenon, <1>1, ReceiveStep
<1>3. CASE Ignored(n, m)
  <2>1. ex' = ex /\ outcome' = outcome
    BY <1>3 DEF Ignored
  <2>2. Kept
    BY Zenon, <2>1 DEF Kept
  <2>3. ASSUME NEW k \in Ends PROVE Wire(k)'
    <3>1. Pending(k)' = Pending(k) /\ Tx(k)' = Tx(k)
      BY Zenon, <2>1 DEF Pending, Tx
    <3> QED BY Zenon, <1>1, <1>2, <3>1 DEF Wire
  <2> QED BY <2>2, <2>3
<1>4. CASE Processed(n, m) /\ Tx(n)' = Tx(n) /\ outcome' = outcome
  <2>1. Kept
    BY <1>4 DEF Kept
  <2>2. ASSUME NEW k \in Ends PROVE Wire(k)'
    <3>1. Pending(k)' = Pending(k)
      BY <1>4 DEF Pending
    <3>2. Tx(k)' = Tx(k)
      <4>1. CASE k = n
        BY <1>4, <4>1
      <4>2. CASE k # n
        BY Zenon, <1>4, <4>2 DEF Processed, Tx
      <4> QED BY <4>1, <4>2
    <3> QED BY Zenon, <1>1, <1>2, <3>1, <3>2 DEF Wire
  <2> QED BY <2>1, <2>2
<1>5. CASE Processed(n, m) /\ Tx(n)' = None
           /\ outcome' = [outcome EXCEPT ![n] = Settled(n, "confirmed")]
  <2>1. /\ Kept /\ Pending(n)' = {}
        /\ \A k \in Ends \ {n} : outcome'[k] = outcome[k]
    BY Zenon, <1>1, <1>5, Settling
  <2>2. Wire(n)'
    BY Zenon, <1>5, <2>1 DEF Wire
  <2>3. ASSUME NEW k \in Ends \ {n} PROVE Wire(k)'
    <3>1. Pending(k)' = Pending(k)
      BY <2>1 DEF Pending
    <3>2. Tx(k)' = Tx(k)
      BY Zenon, <1>5 DEF Processed, Tx
    <3> QED BY Zenon, <1>1, <1>2, <3>1, <3>2 DEF Wire
  <2> QED BY <2>1, <2>2, <2>3
<1> QED BY Zenon, <1>2, <1>3, <1>4, <1>5 DEF Processed

\* The elements of a sequence after an append.
LEMMA RangeAppend ==
    ASSUME NEW s \in Seq(Bodies), NEW b \in Bodies
    PROVE  Range(Append(s, b)) = Range(s) \cup {b}
<1>1. Append(s, b) \in Seq(Bodies) /\ Len(Append(s, b)) = Len(s) + 1 /\ Len(s) \in Nat
  OBVIOUS
<1>2. /\ Append(s, b)[Len(s) + 1] = b
      /\ \A i \in 1 .. Len(s) : Append(s, b)[i] = s[i]
  OBVIOUS
<1>3. DOMAIN s = 1 .. Len(s) /\ DOMAIN Append(s, b) = 1 .. Len(s) + 1
  BY <1>1
<1>4. \A i \in 1 .. Len(s) + 1 : i = Len(s) + 1 \/ i \in 1 .. Len(s)
  BY <1>1
<1>5. 1 .. Len(s) \subseteq 1 .. Len(s) + 1 /\ Len(s) + 1 \in 1 .. Len(s) + 1
  BY <1>1
<1>6. ASSUME NEW x \in Range(Append(s, b)) PROVE x \in Range(s) \cup {b}
  <2>1. PICK i \in 1 .. Len(s) + 1 : x = Append(s, b)[i]
    BY <1>3, <1>6 DEF Range
  <2> QED BY <1>2, <1>3, <1>4, <2>1 DEF Range
<1>7. ASSUME NEW x \in Range(s) PROVE x \in Range(Append(s, b))
  <2>1. PICK i \in 1 .. Len(s) : x = s[i]
    BY <1>3, <1>7 DEF Range
  <2>2. i \in 1 .. Len(s) + 1 /\ x = Append(s, b)[i]
    BY <1>2, <1>5, <2>1
  <2> QED BY <1>3, <2>2 DEF Range
<1>8. b \in Range(Append(s, b))
  BY <1>2, <1>3, <1>5 DEF Range
<1> QED BY <1>6, <1>7, <1>8

\* What a receive hands up.
LEMMA HandedUp ==
    ASSUME TypeOK, Wins, NEW n \in Ends, NEW m \in net, Receive(n, m)
    PROVE  /\ handed'[n] = handed[n]
           /\ \/ handed' = handed
              \/ /\ m.body \in Bodies /\ Verdict(rx[n], m.counter) # "Duplicate" /\ Processed(n, m)
                 /\ handed'[Other(n)] = Append(handed[Other(n)], m.body)
                 /\ Range(handed'[Other(n)]) = Range(handed[Other(n)]) \cup {m.body}
<1>1. m.from = Other(n) /\ (Ignored(n, m) \/ Processed(n, m))
  BY Zenon, ReceiveStep
<1>2. Other(n) \in Ends /\ Other(n) # n
  BY Typed
<1>3. handed \in [Ends -> Seq(Bodies)] /\ m.body \in {None} \cup Bodies
  BY DEF TypeOK, Datagrams
<1>4. CASE Verdict(rx[n], m.counter) # "Duplicate" /\ m.body # None /\ Processed(n, m)
  <2>1. handed' = [handed EXCEPT ![m.from] = Append(@, m.body)]
    BY Zenon, <1>4 DEF Processed
  <2>2. handed'[n] = handed[n] /\ handed'[Other(n)] = Append(handed[Other(n)], m.body)
    BY <1>1, <1>2, <1>3, <2>1
  <2>3. Range(handed'[Other(n)]) = Range(handed[Other(n)]) \cup {m.body}
    BY Zenon, <1>2, <1>3, <1>4, <2>2, RangeAppend
  <2> QED BY <1>3, <1>4, <2>2, <2>3
<1>5. CASE ~(Verdict(rx[n], m.counter) # "Duplicate" /\ m.body # None /\ Processed(n, m))
  BY Zenon, <1>1, <1>5 DEF Ignored, Processed
<1> QED BY Zenon, <1>4, <1>5

\* A datagram written has a counter, and a body if any, that no other datagram has.
LEMMA WroteUnique ==
    ASSUME WireInv, NEW n \in Ends, NEW b \in {None} \cup Bodies, Wrote(n, b),
           b = None \/ outcome[n][b] = "unsent"
    PROVE  OneDatagramPerCounter' /\ BodyOnce'
<1>1. PICK d \in Datagrams :
        net' = net \cup {d} /\ d.from = n /\ d.counter = next[n] /\ d.body = b
  BY Zenon DEF Wrote
<1>2. \A m \in net : m.from = n => m.counter # next[n]
  <2>1. TAKE m \in net
  <2>2. m.counter < next[m.from] /\ m.counter \in Int
    BY SMTT(30), CounterAssumption DEF WireInv, TypeOK, Datagrams, Counters
  <2>3. next[n] \in Int
    BY DEF WireInv, TypeOK
  <2> QED BY <2>2, <2>3
<1>3. \A m \in net : m.from = n /\ m.body # None => m.body # b
  BY DEF WireInv, Submitted
<1>4. OneDatagramPerCounter'
  BY <1>1, <1>2 DEF WireInv, OneDatagramPerCounter
<1>5. BodyOnce'
  BY <1>1, <1>3 DEF WireInv, BodyOnce
<1> QED BY <1>4, <1>5

\* A submission.
LEMMA SendingWire ==
    ASSUME WireInv, TypeOK', Wins', NEW n \in Ends, NEW b \in Bodies, NEW reliable \in BOOLEAN,
           Sending(n, b, reliable)
    PROVE  WireInv'
<1> DEFINE how == IF reliable THEN "pending" ELSE "unreliable"
<1>1. TypeOK /\ Submitted /\ Ordered /\ \A k \in Ends : Wire(k)
  BY DEF WireInv
<1>2. outcome \in [Ends -> [Bodies -> Promised]] /\ net \subseteq Datagrams
  BY Zenon, <1>1 DEF TypeOK
<1>3. outcome' = [outcome EXCEPT ![n][b] = how] /\ outcome[n][b] = "unsent"
      /\ \A c \in Bodies : c < b => outcome[n][c] # "unsent"
  BY DEF Sending
<1>4. \A k \in Ends, c \in Bodies : outcome'[k][c] = IF k = n /\ c = b THEN how ELSE outcome[k][c]
  BY <1>2, <1>3
<1>5. how # "unsent" /\ how \in {"pending", "unreliable"}
  OBVIOUS
<1>6. OneDatagramPerCounter' /\ BodyOnce'
  BY <1>3, WroteUnique DEF Sending
<1>7. PICK d \in Datagrams : net' = net \cup {d} /\ d.from = n /\ d.counter = next[n] /\ d.body = b
  BY Zenon DEF Sending, Wrote
<1>8. Submitted'
  <2>1. ASSUME NEW m \in net', m.body # None PROVE outcome'[m.from][m.body] # "unsent"
    <3>1. m.from \in Ends /\ m.body \in Bodies
      BY ZenonT(60), <1>2, <1>7, <2>1 DEF Datagrams
    <3> QED BY Zenon, <1>1, <1>4, <1>5, <1>7, <2>1, <3>1 DEF Submitted
  <2>2. ASSUME NEW k \in Ends, NEW c \in Range(handed'[k]) PROVE outcome'[k][c] # "unsent"
    <3>1. handed' = handed /\ handed[k] \in Seq(Bodies)
      BY Zenon, <1>1 DEF Sending, TypeOK
    <3>2. c \in Bodies
      BY SMTT(30), <2>2, <3>1 DEF Range
    <3> QED BY <1>1, <1>4, <1>5, <2>2, <3>1, <3>2 DEF Submitted
  <2> QED BY Zenon, <2>1, <2>2 DEF Submitted
<1>9. \A k \in Ends \ {n} : Pending(k)' = Pending(k) /\ Tx(k)' = Tx(k)
  BY <1>4 DEF Pending, Sending, Tx
<1>10. Wire(n)'
  <2>1. CASE reliable
    <3>1. Tx(n) = None /\ Tx(n)' # None /\ Tx(n)'.counter = next[n]
      BY <2>1 DEF Sending
    <3>2. Pending(n) = {}
      BY Zenon, <1>1, <3>1 DEF Wire
    <3>3. Pending(n)' = {b}
      BY <1>4, <2>1, <3>2 DEF Pending
    <3>4. \E m \in net' : m.from = n /\ m.counter = next[n] /\ m.body = b /\ m.reliable
      BY <2>1 DEF Sending
    <3> QED BY Zenon, <3>1, <3>3, <3>4 DEF Wire
  <2>2. CASE ~reliable
    <3>1. Tx(n)' = Tx(n)
      BY <2>2 DEF Sending
    <3>2. Pending(n)' = Pending(n)
      BY <1>3, <1>4, <2>2 DEF Pending
    <3> QED BY <1>1, <1>7, <3>1, <3>2 DEF Wire
  <2> QED BY <2>1, <2>2
<1>11. \A k \in Ends : Wire(k)'
  <2>1. ASSUME NEW k \in Ends \ {n} PROVE Wire(k)'
    BY <1>1, <1>7, <1>9 DEF Wire
  <2> QED BY SMTT(30), <1>10, <2>1
<1>12. Ordered'
  <2> SUFFICES ASSUME NEW k \in Ends, NEW a \in Bodies, NEW c \in Bodies,
                      a < c, outcome'[k][c] # "unsent"
               PROVE  /\ outcome'[k][a] # "unsent"
                      /\ outcome'[k][c] # "unreliable" => outcome'[k][a] # "pending"
    BY DEF Ordered
  <2>1. a # c /\ ~(c < a)
    <3>1. a \in Nat /\ c \in Nat
      BY ExchangeAssumption
    <3> QED BY <3>1
  <2>2. CASE k # n
    BY <1>1, <1>4, <2>2 DEF Ordered
  <2>3. CASE k = n /\ c = b
    <3>1. outcome'[k][a] = outcome[k][a] /\ outcome[k][a] # "unsent"
      BY <1>3, <1>4, <2>1, <2>3
    <3>2. outcome'[k][c] = how
      BY Zenon, <1>4, <2>3
    <3>3. reliable => outcome[k][a] # "pending"
      <4>1. reliable => Pending(n) = {}
        BY Zenon, <1>1 DEF Sending, Wire
      <4> QED BY Zenon, <2>3, <4>1 DEF Pending
    <3> QED BY Zenon, <3>1, <3>2, <3>3
  <2>4. CASE k = n /\ c # b
    <3>1. outcome'[k][c] = outcome[k][c]
      BY Zenon, <1>4, <2>4
    <3>2. outcome[k][a] # "unsent"
      BY Zenon, <1>1, <3>1 DEF Ordered
    <3>3. a # b
      BY <1>3, <2>4, <3>2
    <3>4. outcome'[k][a] = outcome[k][a]
      BY Zenon, <1>4, <3>3
    <3> QED BY Zenon, <1>1, <3>1, <3>2, <3>4 DEF Ordered
  <2> QED BY Zenon, <2>2, <2>3, <2>4
<1> QED BY <1>6, <1>8, <1>11, <1>12 DEF WireInv

\* A step that submits nothing keeps order and what was submitted.
LEMMA KeptOrder ==
    ASSUME WireInv, TypeOK', Kept,
           \A m \in net' : m \in net \/ m.body = None,
           \A k \in Ends : \A b \in Range(handed'[k]) :
              b \in Range(handed[k]) \/ \E m \in net : m.from = k /\ m.body = b
    PROVE  Submitted' /\ Ordered'
<1>1. TypeOK /\ Submitted /\ Ordered
  BY Zenon DEF WireInv
<1>2. Ordered'
  BY SMTT(30), <1>1 DEF Ordered, Kept
<1>3. ASSUME NEW m \in net', m.body # None PROVE outcome'[m.from][m.body] # "unsent"
  <2>1. m \in net /\ m.from \in Ends /\ m.body \in Bodies
    BY Zenon, <1>1, <1>3 DEF TypeOK, Datagrams
  <2> QED BY <1>1, <1>3, <2>1 DEF Submitted, Kept
<1>4. ASSUME NEW k \in Ends, NEW b \in Range(handed'[k]) PROVE outcome'[k][b] # "unsent"
  <2>1. handed'[k] \in Seq(Bodies)
    BY Zenon DEF TypeOK
  <2>2. b \in Bodies
    BY <1>4, <2>1 DEF Range
  <2>3. b # None
    BY Zenon, <2>2, NoneIsApart
  <2> QED BY <1>1, <1>4, <2>2, <2>3 DEF Submitted, Kept
<1> QED BY Zenon, <1>2, <1>3, <1>4 DEF Submitted

\* Every step keeps WireInv.
LEMMA WireStep == WireInv /\ [Next]_vars => WireInv'
<1> SUFFICES ASSUME WireInv, [Next]_vars PROVE WireInv'
  OBVIOUS
<1>1. TypeOK /\ Wins
  BY DEF WireInv
<1>2. CASE Next
  <2>1. TypeOK' /\ Wins'
    BY <1>1, <1>2, Forms
  <2>2. PICK n \in Ends :
          \/ \E b \in Bodies, reliable \in BOOLEAN : Sending(n, b, reliable)
          \/ Local(n)
          \/ \E m \in net : Receive(n, m)
    BY <1>1, <1>2, Forms
  <2>3. ASSUME NEW b \in Bodies, NEW reliable \in BOOLEAN, Sending(n, b, reliable) PROVE WireInv'
    BY <2>1, <2>3, SendingWire
  <2>4. CASE Local(n)
    <3>1. Kept /\ \A k \in Ends : Wire(k)'
      BY <2>1, <2>4, LocalWire
    <3>2. handed' = handed /\ (net' = net \/ Wrote(n, None))
      BY Zenon, <2>4 DEF Local
    <3>3. \A m \in net' : m \in net \/ m.body = None
      BY Zenon, <3>2 DEF Wrote
    <3>4. Submitted' /\ Ordered'
      BY Zenon, <2>1, <3>1, <3>2, <3>3, KeptOrder
    <3>5. OneDatagramPerCounter' /\ BodyOnce'
      <4>1. CASE net' = net
        BY <4>1 DEF WireInv, OneDatagramPerCounter, BodyOnce
      <4>2. CASE Wrote(n, None)
        BY <4>2, WroteUnique
      <4> QED BY <3>2, <4>1, <4>2
    <3> QED BY <2>1, <3>1, <3>4, <3>5 DEF WireInv
  <2>5. ASSUME NEW m \in net, Receive(n, m) PROVE WireInv'
    <3>1. Kept /\ \A k \in Ends : Wire(k)'
      BY <2>5, ReceiveWire
    <3>2. net' = net /\ m.from = Other(n)
      BY Zenon, <1>1, <2>5, ReceiveStep
    <3>3. \A k \in Ends : k = n \/ k = Other(n)
      BY Zenon, <1>1, Typed
    <3>4. \A k \in Ends : \A b \in Range(handed'[k]) :
              b \in Range(handed[k]) \/ \E o \in net : o.from = k /\ o.body = b
      <4>1. handed'[n] = handed[n]
        BY Zenon, <1>1, <2>5, HandedUp
      <4>2. \/ handed' = handed
            \/ Range(handed'[Other(n)]) = Range(handed[Other(n)]) \cup {m.body}
        BY Zenon, <1>1, <2>5, HandedUp
      <4> QED BY Zenon, <3>2, <3>3, <4>1, <4>2
    <3>5. Submitted' /\ Ordered'
      BY Zenon, <2>1, <3>1, <3>2, <3>4, KeptOrder
    <3>6. OneDatagramPerCounter' /\ BodyOnce'
      BY Zenon, <3>2 DEF WireInv, OneDatagramPerCounter, BodyOnce
    <3> QED BY <2>1, <3>1, <3>5, <3>6 DEF WireInv
  <2> QED BY <2>2, <2>3, <2>4, <2>5
<1>3. CASE UNCHANGED vars
  <2>1. ex' = ex /\ next' = next /\ rx' = rx /\ net' = net /\ outcome' = outcome /\ handed' = handed
    BY <1>3 DEF vars
  <2>2. TypeOK' /\ Wins'
    BY Zenon, <1>1, <2>1 DEF TypeOK, Wins
  <2>3. OneDatagramPerCounter' /\ Submitted' /\ BodyOnce' /\ Ordered'
    BY Zenon, <2>1 DEF WireInv, OneDatagramPerCounter, Submitted, BodyOnce, Ordered
  <2>4. \A n \in Ends : Pending(n)' = Pending(n) /\ Tx(n)' = Tx(n)
    BY Zenon, <2>1 DEF Tx, Pending
  <2>5. \A n \in Ends : Wire(n)'
    BY <2>1, <2>4 DEF WireInv, Wire
  <2> QED BY <2>2, <2>3, <2>5 DEF WireInv
<1> QED BY <1>2, <1>3

\* The initial state.
LEMMA WireStart == Init => WireInv
<1> SUFFICES ASSUME Init PROVE WireInv
  OBVIOUS
<1>1. \A n \in Ends : MaxCounter[n] \in Nat
  BY ExchangeAssumption, CounterAssumption DEF Counters
<1>2. NewExchange(FALSE) \in Entries /\ NewExchange(FALSE).mrp.tx = None
  BY Zenon DEF NewExchange, NewMrp, Entries, Mrps
<1>3. FreshWindow("SecureUnicast") \in Secure /\ FreshWindow("SecureUnicast").max = 0
  BY CounterAssumption DEF FreshWindow, Secure, Windows, Kinds, Counters
<1>4. /\ ex \in [Ends -> {None} \cup Entries] /\ net = {}
      /\ next \in [Ends -> Nat] /\ \A n \in Ends : next[n] \in 1 .. MaxCounter[n] + 1
  <2>1. ex \in [Ends -> {None} \cup Entries]
    BY Zenon, <1>2 DEF Init
  <2>2. net = {} /\ next \in [Ends -> Nat] /\ \A n \in Ends : next[n] = 1
    BY DEF Init
  <2> QED BY <1>1, <2>1, <2>2
<1>5. rx \in [Ends -> Windows] /\ Wins
  BY <1>3 DEF Init, Wins, Secure
<1>6. outcome \in [Ends -> [Bodies -> Promised]] /\ handed \in [Ends -> Seq(Bodies)]
  BY DEF Init, Promised
<1>7. \A n \in Ends : Tx(n) = None /\ Pending(n) = {} /\ Range(handed[n]) = {}
  <2>1. \A n \in Ends : ex[n] \in {None, NewExchange(FALSE)}
    BY DEF Init
  <2>2. \A n \in Ends : Tx(n) = None
    BY Zenon, <1>2, <2>1 DEF Tx
  <2>3. \A n \in Ends : Pending(n) = {}
    BY DEF Init, Pending
  <2>4. \A n \in Ends : Range(handed[n]) = {}
    BY DEF Init, Range
  <2> QED BY <2>2, <2>3, <2>4
<1>8. Ordered
  BY DEF Init, Ordered
<1>9. Submitted /\ BodyOnce /\ OneDatagramPerCounter /\ \A n \in Ends : Wire(n)
  BY Zenon, <1>4, <1>7 DEF Submitted, BodyOnce, OneDatagramPerCounter, Wire
<1> QED BY Zenon, <1>4, <1>5, <1>6, <1>8, <1>9 DEF WireInv, TypeOK

\* Every variable has its type, for every number of messages, transmissions and counters.
THEOREM ExchangeTypes == Spec => []TypeOK
<1>1. WireInv => TypeOK
  BY DEF WireInv
<1> QED BY <1>1, WireStart, WireStep, PTL DEF Spec

\* No end puts two datagrams on the wire under one counter: send and acknowledge take a
\* counter each, and poll sends the same bytes again.
THEOREM OneDatagram == Spec => []OneDatagramPerCounter
<1>1. WireInv => OneDatagramPerCounter
  BY DEF WireInv
<1> QED BY <1>1, WireStart, WireStep, PTL DEF Spec

\* The table entry and the upper layer's view agree on what is waited for, and it was sent.
THEOREM PendingOnTheWire == Spec => []PendingIsOnTheWire
<1>1. WireInv => PendingIsOnTheWire
  BY WireMeans DEF WireInv
<1> QED BY <1>1, WireStart, WireStep, PTL DEF Spec

-----------------------------------------------------------------------------
(* Delivery: an acknowledgement names a datagram that was handed up. Stated *)
(* for a receiver whose exchange table has room: a full one takes a message *)
(* for seen that it hands to nobody.                                        *)

\* The receiver has m for a duplicate; it has gone on for more than a window past m
Judged(m) == Verdict(rx[Other(m.from)], m.counter) = "Duplicate"
Late(m) == rx[Other(m.from)].max > m.counter + WindowSize
Fine(m) == m.body = None \/ m.body \in Range(handed[m.from]) \/ Late(m)

\* The datagram counter c names to end k, which received it
Named(k, c) == \E m \in net : m.from = Other(k) /\ m.counter = c /\ Fine(m)

\* No window is ahead of its sender
Fresh == \A k \in Ends : rx[k].max < next[Other(k)]
\* What an end that still answers takes for a duplicate was handed up or is late
Duplicates ==
    \A m \in net :
        Judged(m) /\ (Other(m.from) = "responder" \/ ex[Other(m.from)] # None) => Fine(m)
\* So is what it owes an acknowledgement for, and what it has acknowledged
Owing == \A k \in Ends : Owed(k) # None => Named(k, Owed(k).counter)
Acked == \A a \in net : a.ack # None => Named(a.from, a.ack)
\* What was handed up is a duplicate from then on
HandedIsJudged == \A m \in net : m.body # None /\ m.body \in Range(handed[m.from]) => Judged(m)

DeliveryInv ==
    /\ Fresh /\ Duplicates /\ Owing /\ Acked /\ HandedIsJudged
    /\ ConfirmedWasHanded /\ ConfirmedInOrder

\* What was handed up holds bodies.
LEMMA Elements ==
    ASSUME NEW S, NEW s \in Seq(S), NEW i \in 1 .. Len(s)
    PROVE  s[i] \in S
OBVIOUS

\* An entry of a sequence is among its entries.
LEMMA InRange ==
    ASSUME NEW S, NEW s \in Seq(S), NEW i \in 1 .. Len(s)
    PROVE  s[i] \in Range(s)
BY SMTT(30) DEF Range

\* What a step may do to windows, wire and what was handed up: nothing is taken back.
Onward ==
    /\ net \subseteq net'
    /\ \A k \in Ends : Range(handed[k]) \subseteq Range(handed'[k])
    /\ \A k \in Ends : rx[k].max <= rx'[k].max

\* A datagram's parts.
LEMMA Datagram ==
    ASSUME TypeOK, Wins, NEW m \in net
    PROVE  /\ m.from \in Ends /\ Other(m.from) \in Ends /\ m.counter \in Counters /\ m.counter \in Nat
           /\ m.body \in {None} \cup Bodies
           /\ rx[Other(m.from)] \in Secure /\ rx[Other(m.from)].max \in Nat
           /\ rx[Other(m.from)].primed \/ rx[Other(m.from)].max = 0
<1>1. m.from \in Ends /\ m.counter \in Counters /\ m.body \in {None} \cup Bodies
  BY DEF TypeOK, Datagrams
<1>2. Other(m.from) \in Ends
  BY <1>1, Typed
<1>3. rx[Other(m.from)] \in Secure /\ (rx[Other(m.from)].primed \/ rx[Other(m.from)].max = 0)
  BY <1>2 DEF Wins
<1>4. rx[Other(m.from)].max \in Counters
  BY <1>3 DEF Secure, Windows
<1> QED BY <1>1, <1>2, <1>3, <1>4, CounterAssumption DEF Counters

\* What is late is a duplicate.
LEMMA LateIsJudged ==
    ASSUME TypeOK, Wins, NEW m \in net, Late(m)
    PROVE  Judged(m)
<1> DEFINE w == rx[Other(m.from)]
<1>1. w \in Secure /\ m.counter \in Counters /\ m.counter \in Nat /\ w.max \in Nat
      /\ (w.primed \/ w.max = 0)
  BY Datagram
<1>2. w.max > m.counter + WindowSize /\ WindowSize \in Nat
  BY CounterAssumption DEF Late
<1> HIDE DEF w
<1>3. w.primed /\ m.counter <= w.max /\ w.max - m.counter > WindowSize
  BY SMTT(30), <1>1, <1>2
<1>4. Verdict(w, m.counter) = "Duplicate"
  BY <1>1, <1>3, DuplicateMeans
<1> QED BY <1>4 DEF Judged, w

\* Being late, being fine and being named are for ever.
LEMMA Lasting ==
    ASSUME TypeOK, Wins, TypeOK', Wins', Onward
    PROVE  /\ \A m \in net : (Late(m) => Late(m)') /\ (Fine(m) => Fine(m)')
           /\ \A k \in Ends : \A c : Named(k, c) => Named(k, c)'
           /\ \A k \in Ends : Overtaken(k) \subseteq Overtaken(k)'
<1>1. ASSUME NEW m \in net PROVE (Late(m) => Late(m)') /\ (Fine(m) => Fine(m)')
  <2> DEFINE o == Other(m.from)
  <2>1. m.from \in Ends /\ o \in Ends /\ m.counter \in Nat
    BY Datagram
  <2>2. rx[o].max \in Nat /\ rx'[o].max \in Nat
    <3>1. rx[o] \in Secure /\ rx'[o] \in Secure
      BY <2>1 DEF Wins
    <3> QED BY <3>1, CounterAssumption DEF Secure, Windows, Counters
  <2>3. rx[o].max <= rx'[o].max
    BY SMTT(30), <2>1 DEF Onward
  <2>4. Late(m) => Late(m)'
    <3> HIDE DEF o
    <3>1. Late(m) <=> rx[o].max > m.counter + WindowSize
      BY DEF Late, o
    <3>2. Late(m)' <=> rx'[o].max > m.counter + WindowSize
      BY SMTT(30) DEF Late, o
    <3> QED BY SMTT(30), <2>1, <2>2, <2>3, <3>1, <3>2, CounterAssumption
  <2> QED BY <2>1, <2>4 DEF Fine, Onward
<1>2. \A k \in Ends : \A c : Named(k, c) => Named(k, c)'
  BY SMTT(30), <1>1 DEF Named, Onward
<1>3. ASSUME NEW k \in Ends, NEW b \in Overtaken(k) PROVE b \in Overtaken(k)'
  <2>1. PICK m \in net : m.from = k /\ m.body # None /\ b = m.body /\ Late(m)
    BY Zenon, <1>3 DEF Overtaken, Late
  <2>2. m \in net' /\ Late(m)'
    BY <1>1, <2>1 DEF Onward
  <2> QED BY <2>1, <2>2 DEF Overtaken, Late
<1> QED BY SMTT(30), <1>1, <1>2, <1>3

\* Every step goes onward.
LEMMA GoesOnward ==
    ASSUME WireInv, NEW n \in Ends,
           \/ \E b \in Bodies, reliable \in BOOLEAN : Sending(n, b, reliable)
           \/ Local(n)
           \/ \E m \in net : Receive(n, m)
    PROVE  Onward
<1>1. TypeOK /\ Wins
  BY DEF WireInv
<1>2. \A k \in Ends : rx[k].max \in Nat
  <2>1. \A k \in Ends : rx[k].max \in Counters
    BY <1>1 DEF Wins, Secure, Windows
  <2> QED BY <2>1, CounterAssumption DEF Counters
<1>3. ASSUME net \subseteq net', rx' = rx, handed' = handed PROVE Onward
  <2>1. \A x \in Nat : x <= x
    BY SMT
  <2> QED BY Zenon, <1>2, <1>3, <2>1 DEF Onward
<1>4. ASSUME NEW b \in Bodies, NEW reliable \in BOOLEAN, Sending(n, b, reliable) PROVE Onward
  BY Zenon, <1>3, <1>4 DEF Sending, Wrote
<1>5. CASE Local(n)
  BY ZenonT(60), <1>3, <1>5 DEF Local, Wrote
<1>6. ASSUME NEW m \in net, Receive(n, m) PROVE Onward
  <2>1. /\ net' = net /\ m.from = Other(n)
        /\ rx'[n] = Accept(rx[n], m.counter) /\ \A k \in Ends \ {n} : rx'[k] = rx[k]
    BY Zenon, <1>1, <1>6, ReceiveStep
  <2>2. rx[n] \in Secure /\ (rx[n].primed \/ rx[n].max = 0) /\ m.counter \in Counters
        /\ m.counter \in Nat
    BY Zenon, <1>1, Datagram DEF Wins
  <2>3. rx[n].max <= rx'[n].max
    <3>1. rx'[n].max >= rx[n].max \/ ~rx[n].primed
      BY Zenon, <2>1, <2>2, AcceptTypes
    <3>2. rx'[n].max \in {rx[n].max, m.counter}
      BY Zenon, <2>1, <2>2, AcceptTypes
    <3>3. \A x, y \in Nat : \A z \in {x, y} : z >= x \/ x = 0 => x <= z
      BY SMT
    <3> QED BY Zenon, <1>2, <2>2, <3>1, <3>2, <3>3
  <2>4. \A k \in Ends : rx[k].max <= rx'[k].max
    <3>1. \A x \in Nat : x <= x
      BY SMT
    <3> QED BY Zenon, <1>2, <2>1, <2>3, <3>1
  <2>5. \A k \in Ends : k = n \/ k = Other(n)
    BY Zenon, <1>1, Typed
  <2>6. \A k \in Ends : Range(handed[k]) \subseteq Range(handed'[k])
    BY Zenon, <1>1, <1>6, <2>5, HandedUp
  <2> QED BY Zenon, <2>1, <2>4, <2>6 DEF Onward
<1> QED BY <1>4, <1>5, <1>6

\* A step that receives nothing keeps DeliveryInv: what it writes no window has judged, and
\* what it acknowledges was owed.
LEMMA QuietDelivery ==
    ASSUME WireInv, WireInv', DeliveryInv, NEW n \in Ends, Onward,
           rx' = rx, handed' = handed, ex[n] # None, \A k \in Ends \ {n} : ex'[k] = ex[k],
           \A k \in Ends : next[k] <= next'[k],
           Owed(n)' \in {None, Owed(n)},
           NEW b \in {None} \cup Bodies, b = None \/ outcome[n][b] = "unsent",
           net' = net \/ Wrote(n, b),
           \A k \in Ends, c \in Bodies :
              /\ outcome'[k][c] = "confirmed" => outcome[k][c] = "confirmed"
              /\ outcome[k][c] # "unsent" =>
                    (outcome'[k][c] = "unreliable" <=> outcome[k][c] = "unreliable")
    PROVE  DeliveryInv'
<1>1. /\ TypeOK /\ Wins /\ Submitted /\ TypeOK' /\ Wins'
      /\ Fresh /\ Duplicates /\ Owing /\ Acked /\ HandedIsJudged
      /\ ConfirmedWasHanded /\ ConfirmedInOrder
  BY Zenon DEF WireInv, DeliveryInv
<1>2. \A k \in Ends : Other(k) \in Ends /\ rx[k].max \in Int /\ next[k] \in Int /\ next'[k] \in Int
  <2>1. \A k \in Ends : Other(k) \in Ends
    BY Zenon, <1>1, Typed
  <2>2. \A k \in Ends : next[k] \in Int /\ next'[k] \in Int
    <3>1. next \in [Ends -> Nat] /\ next' \in [Ends -> Nat]
      BY Zenon, <1>1 DEF TypeOK
    <3>2. \A x \in Nat : x \in Int
      BY SMT
    <3> QED BY Zenon, <3>1, <3>2
  <2>3. \A k \in Ends : rx[k].max \in Counters
    BY Zenon, <1>1 DEF Wins, Secure, Windows
  <2>4. \A x \in Counters : x \in Int
    BY SMT, CounterAssumption DEF Counters
  <2> QED BY Zenon, <2>1, <2>2, <2>3, <2>4
<1>3. Fresh'
  <2>1. \A x, y, z \in Int : x < y /\ y <= z => x < z
    BY SMT
  <2> QED BY Zenon, <1>1, <1>2, <2>1 DEF Fresh
<1>4. \A m \in net : (Judged(m)' <=> Judged(m)) /\ (Late(m)' <=> Late(m)) /\ (Fine(m)' <=> Fine(m))
  BY Zenon DEF Judged, Late, Fine
<1>5. \A k \in Ends : \A c : Named(k, c) => Named(k, c)'
  BY ZenonT(60), <1>1, Lasting
<1>6. \A m \in net' : m \in net \/ (m.from = n /\ m.counter = next[n] /\ m.body = b
                        /\ (m.ack # None => Owed(n) # None /\ m.ack = Owed(n).counter))
  <2>1. CASE net' = net
    BY Zenon, <2>1
  <2>2. CASE Wrote(n, b)
    BY Zenon, <2>2 DEF Wrote
  <2> QED BY Zenon, <2>1, <2>2
<1>7. ASSUME NEW m \in net', m \notin net
      PROVE  ~Judged(m)' /\ (m.body = None \/ m.body \notin Range(handed'[m.from]))
  <2> DEFINE w == rx[Other(n)]
  <2>1. m.from = n /\ m.counter = next[n] /\ m.body = b
    BY Zenon, <1>6, <1>7
  <2>2. w \in Secure /\ m.counter \in Counters
    BY Zenon, <1>1, <1>2, Datagram, <2>1 DEF Wins, TypeOK, Datagrams
  <2>3. w.max < next[n]
    <3>1. Other(Other(n)) = n
      BY Zenon, <1>1, Typed
    <3> QED BY Zenon, <1>1, <1>2, <3>1 DEF Fresh
  <2>4. w.max \in Int /\ next[n] \in Int
    BY Zenon, <1>2
  <2> HIDE DEF w
  <2>5. Verdict(w, m.counter) # "Duplicate"
    BY <2>1, <2>2, <2>3, <2>4, DuplicateMeans
  <2>6. Judged(m)' <=> Verdict(w, m.counter) = "Duplicate"
    BY Zenon, <2>1 DEF Judged, w
  <2> QED BY ZenonT(60), <1>1, <2>1, <2>5, <2>6 DEF Submitted
<1>8. Duplicates'
  <2> SUFFICES ASSUME NEW m \in net', Judged(m)',
                      Other(m.from) = "responder" \/ ex'[Other(m.from)] # None
               PROVE  Fine(m)'
    BY Zenon DEF Duplicates
  <2>1. m \in net
    BY Zenon, <1>7
  <2>2. Other(m.from) \in Ends
    BY Zenon, <1>1, <2>1, Datagram
  <2>3. Other(m.from) = "responder" \/ ex[Other(m.from)] # None
    BY Zenon, <2>2
  <2> QED BY ZenonT(60), <1>1, <1>4, <2>1, <2>3 DEF Duplicates
<1>9. Owing'
  <2>1. \A k \in Ends \ {n} : Owed(k)' = Owed(k)
    BY Zenon DEF Owed
  <2>2. \A k \in Ends : Owed(k)' # None => Owed(k)' = Owed(k)
    BY Zenon, <2>1
  <2>3. \A k \in Ends : Owed(k) # None => Named(k, Owed(k).counter)
    BY Zenon, <1>1 DEF Owing
  <2>4. ASSUME NEW k \in Ends, Owed(k)' # None
        PROVE  Named(k, Owed(k).counter)'
    <3>1. Owed(k)' = Owed(k) /\ Named(k, Owed(k).counter)
      BY Zenon, <2>2, <2>3, <2>4
    <3>2. \A c : Named(k, c) => Named(k, c)'
      BY Zenon, <1>5
    <3>3. PICK c : c = Owed(k).counter
      BY Zenon
    <3>4. Named(k, c)' /\ c = Owed(k)'.counter
      BY Zenon, <3>1, <3>2, <3>3
    <3> QED BY Zenon, <3>4 DEF Named
  <2> QED BY Zenon, <2>4 DEF Owing
<1>10. Acked'
  <2> SUFFICES ASSUME NEW a \in net', a.ack # None PROVE Named(a.from, a.ack)'
    BY ZenonT(40) DEF Acked
  <2>1. CASE a \in net
    <3>1. a.from \in Ends /\ Named(a.from, a.ack)
      BY Zenon, <1>1, <2>1, Datagram DEF Acked
    <3> QED BY <1>5, <3>1
  <2>2. CASE a \notin net
    <3>1. a.from = n /\ Owed(n) # None /\ a.ack = Owed(n).counter
      BY <1>6, <2>2
    <3>2. Named(n, Owed(n).counter)
      BY ZenonT(60), <1>1, <3>1 DEF Owing
    <3> QED BY Zenon, <1>5, <3>1, <3>2
  <2> QED BY Zenon, <2>1, <2>2
<1>11. HandedIsJudged'
  BY Zenon, <1>1, <1>4, <1>7 DEF HandedIsJudged
<1>12. ConfirmedWasHanded'
  <2>1. \A k \in Ends : Overtaken(k) \subseteq Overtaken(k)'
    BY ZenonT(60), <1>1, Lasting
  <2> QED BY Zenon, <1>1, <2>1 DEF ConfirmedWasHanded
<1>13. ConfirmedInOrder'
  <2> SUFFICES ASSUME NEW k \in Ends, NEW i \in 1 .. Len(handed[k]), NEW j \in 1 .. Len(handed[k]),
                      i < j, handed[k][j] < handed[k][i],
                      outcome'[k][handed[k][i]] # "unreliable"
               PROVE  outcome'[k][handed[k][j]] # "confirmed"
    BY Zenon DEF ConfirmedInOrder
  <2>1. handed[k] \in Seq(Bodies)
    BY Zenon, <1>1 DEF TypeOK
  <2>2. handed[k][i] \in Bodies /\ handed[k][j] \in Bodies
    BY Zenon, <2>1, Elements
  <2>3. handed[k][i] \in Range(handed[k])
    BY ZenonT(60), <2>1, InRange
  <2>4. outcome[k][handed[k][i]] # "unsent"
    BY ZenonT(60), <1>1, <2>3 DEF Submitted
  <2>5. outcome[k][handed[k][i]] # "unreliable"
    BY ZenonT(60), <2>2, <2>4
  <2>6. outcome[k][handed[k][j]] # "confirmed"
    BY ZenonT(40), <1>1, <2>5 DEF ConfirmedInOrder
  <2> QED BY Zenon, <2>2, <2>6
<1> QED BY Zenon, <1>3, <1>8, <1>9, <1>10, <1>11, <1>12, <1>13 DEF DeliveryInv

\* The two forms of such steps.
LEMMA SendingDelivery ==
    ASSUME WireInv, WireInv', DeliveryInv, NEW n \in Ends, NEW b \in Bodies,
           NEW reliable \in BOOLEAN, Sending(n, b, reliable)
    PROVE  DeliveryInv'
<1>1. Onward
  BY Zenon, GoesOnward
<1>2. outcome \in [Ends -> [Bodies -> Promised]] /\ \A k \in Ends : next[k] \in Nat
  BY Zenon DEF WireInv, TypeOK
<1>3. outcome' = [outcome EXCEPT ![n][b] = IF reliable THEN "pending" ELSE "unreliable"]
      /\ outcome[n][b] = "unsent"
  BY DEF Sending
<1>4. \A k \in Ends, c \in Bodies :
          outcome'[k][c] = IF k = n /\ c = b THEN IF reliable THEN "pending" ELSE "unreliable"
                           ELSE outcome[k][c]
  BY <1>2, <1>3
<1>5. \A k \in Ends, c \in Bodies :
          /\ outcome'[k][c] = "confirmed" => outcome[k][c] = "confirmed"
          /\ outcome[k][c] # "unsent" =>
                (outcome'[k][c] = "unreliable" <=> outcome[k][c] = "unreliable")
  <2> SUFFICES ASSUME NEW k \in Ends, NEW c \in Bodies
               PROVE  /\ outcome'[k][c] = "confirmed" => outcome[k][c] = "confirmed"
                      /\ outcome[k][c] # "unsent" =>
                            (outcome'[k][c] = "unreliable" <=> outcome[k][c] = "unreliable")
    BY Zenon
  <2>1. CASE k = n /\ c = b
    <3>1. outcome'[k][c] # "confirmed" /\ outcome[k][c] = "unsent"
      <4>1. outcome'[k][c] = IF reliable THEN "pending" ELSE "unreliable"
        BY Zenon, <1>4, <2>1
      <4>2. outcome[k][c] = "unsent"
        BY Zenon, <1>3, <2>1
      <4>3. CASE reliable
        BY Zenon, <4>1, <4>2, <4>3
      <4>4. CASE ~reliable
        BY Zenon, <4>1, <4>2, <4>4
      <4> QED BY Zenon, <4>3, <4>4
    <3> QED BY Zenon, <3>1
  <2>2. CASE ~(k = n /\ c = b)
    <3>1. outcome'[k][c] = outcome[k][c]
      BY ZenonT(40), <1>4, <2>2
    <3> QED BY Zenon, <3>1
  <2> QED BY Zenon, <2>1, <2>2
<1>6. \A k \in Ends : next[k] <= next'[k]
  <2>1. next'[n] = next[n] + 1 /\ \A k \in Ends \ {n} : next'[k] = next[k]
    BY Zenon DEF Sending, Wrote
  <2>2. \A x \in Nat : x <= x /\ x <= x + 1
    OBVIOUS
  <2>3. next[n] <= next'[n]
    <3>1. PICK x \in Nat : x = next[n]
      BY Zenon, <1>2
    <3>2. next'[n] = x + 1
      BY Zenon, <2>1, <3>1
    <3> QED BY Zenon, <2>2, <3>1, <3>2
  <2>4. \A k \in Ends \ {n} : next[k] <= next'[k]
    BY Zenon, <1>2, <2>1, <2>2
  <2> QED BY Zenon, <2>3, <2>4
<1>7. /\ rx' = rx /\ handed' = handed /\ ex[n] # None /\ Owed(n)' = None /\ Wrote(n, b)
      /\ \A k \in Ends \ {n} : ex'[k] = ex[k]
  BY Zenon DEF Sending
<1> QED BY <1>1, <1>3, <1>5, <1>6, <1>7, QuietDelivery

\* Local steps among them.
LEMMA LocalDelivery ==
    ASSUME WireInv, WireInv', DeliveryInv, NEW n \in Ends, Local(n)
    PROVE  DeliveryInv'
<1>1. Onward /\ TypeOK /\ TypeOK'
  BY Zenon, GoesOnward DEF WireInv
<1>2. \A k \in Ends, c \in Bodies :
          /\ outcome'[k][c] = "confirmed" => outcome[k][c] = "confirmed"
          /\ outcome[k][c] # "unsent" =>
                (outcome'[k][c] = "unreliable" <=> outcome[k][c] = "unreliable")
  <2>1. CASE outcome' = outcome
    BY Zenon, <2>1
  <2>2. CASE outcome' = [outcome EXCEPT ![n] = Settled(n, "abandoned")]
    <3>1. /\ Kept /\ \A k \in Ends \ {n} : outcome'[k] = outcome[k]
          /\ \A b \in Bodies : outcome'[n][b] = IF outcome[n][b] = "pending" THEN "abandoned"
                                                ELSE outcome[n][b]
      BY ZenonT(60), <1>1, <2>2, Settling
    <3> QED BY <3>1 DEF Kept
  <2> QED BY Zenon, <2>1, <2>2 DEF Local
<1>3. /\ rx' = rx /\ handed' = handed /\ ex[n] # None /\ Owed(n)' \in {None, Owed(n)}
      /\ \A k \in Ends \ {n} : ex'[k] = ex[k]
      /\ \A k \in Ends : next[k] <= next'[k]
      /\ net' = net \/ Wrote(n, None)
  BY Zenon DEF Local
<1> QED BY Zenon, <1>1, <1>2, <1>3, QuietDelivery

\* A message confirmed by a receive was handed up or is late: the acknowledgement names it.
LEMMA Confirming ==
    ASSUME WireInv, DeliveryInv, NEW n \in Ends, NEW m \in net, m.from = Other(n),
           Tx(n) # None, m.ack = Tx(n).counter
    PROVE  /\ \E b \in Bodies : Pending(n) = {b}
           /\ Pending(n) \subseteq Range(handed[n]) \cup Overtaken(n)
<1>1. TypeOK /\ Wins /\ Wire(n) /\ OneDatagramPerCounter /\ Acked
  BY Zenon DEF WireInv, DeliveryInv
<1>2. PICK o \in net : o.from = n /\ o.counter = Tx(n).counter /\ Pending(n) = {o.body}
  BY Zenon, <1>1 DEF Wire
<1>3. o.counter \in Counters
  BY Zenon, <1>1, Datagram
<1>4. m.ack # None
  BY Zenon, <1>2, <1>3, NoneIsApart
<1>5. Other(Other(n)) = n
  BY Zenon, <1>1, Typed
<1>6. PICK p \in net : p.from = n /\ p.counter = m.ack /\ Fine(p)
  BY Zenon, <1>1, <1>4, <1>5 DEF Acked, Named
<1>7. p = o
  BY Zenon, <1>1, <1>2, <1>6 DEF OneDatagramPerCounter
<1>8. o.body \in Bodies
  BY Zenon, <1>2 DEF Pending
<1>9. o.body # None
  BY Zenon, <1>8, NoneIsApart
<1>10. Late(o) => o.body \in Overtaken(n)
  BY Zenon, <1>2, <1>9 DEF Overtaken, Late
<1>11. o.body \in Range(handed[n]) \cup Overtaken(n)
  BY Zenon, <1>2, <1>6, <1>7, <1>9, <1>10 DEF Fine
<1> QED BY Zenon, <1>2, <1>8, <1>11

\* A message handed up was neither handed up before nor late, hence not confirmed.
LEMMA NewlyHanded ==
    ASSUME WireInv, DeliveryInv, NEW n \in Ends, NEW m \in net, m.from = Other(n),
           m.body \in Bodies, Verdict(rx[n], m.counter) # "Duplicate"
    PROVE  /\ m.body \notin Range(handed[m.from]) \cup Overtaken(m.from)
           /\ outcome[m.from][m.body] \notin {"unsent", "confirmed"}
<1>1. TypeOK /\ Wins /\ BodyOnce /\ Submitted /\ HandedIsJudged /\ ConfirmedWasHanded
  BY Zenon DEF WireInv, DeliveryInv
<1>2. m.body # None
  BY Zenon, NoneIsApart
<1>3. ~Judged(m)
  <2>1. Other(m.from) = n
    BY Zenon, <1>1, Typed
  <2> QED BY Zenon, <2>1 DEF Judged
<1>4. m.body \notin Range(handed[m.from])
  BY Zenon, <1>1, <1>2, <1>3 DEF HandedIsJudged
<1>5. ASSUME m.body \in Overtaken(m.from) PROVE FALSE
  <2>1. PICK o \in net : o.from = m.from /\ o.body = m.body /\ Late(o)
    BY <1>5 DEF Overtaken, Late
  <2>2. o = m
    BY Zenon, <1>1, <1>2, <2>1 DEF BodyOnce
  <2> QED BY Zenon, <1>1, <1>3, <2>1, <2>2, LateIsJudged
<1>6. m.from \in Ends /\ outcome[m.from][m.body] # "unsent"
  BY Zenon, <1>1, <1>2, Datagram DEF Submitted
<1> QED BY Zenon, <1>1, <1>4, <1>5, <1>6 DEF ConfirmedWasHanded

\* Order through a receive: what is appended is not confirmed, and what is confirmed has no
\* reliable successor yet.
LEMMA ReceiveOrder ==
    ASSUME WireInv, WireInv', DeliveryInv, NEW n \in Ends, NEW m \in net, Receive(n, m)
    PROVE  ConfirmedInOrder'
<1>1. /\ TypeOK /\ Wins /\ Submitted /\ Ordered /\ ConfirmedInOrder
  BY Zenon DEF WireInv, DeliveryInv
<1>2. /\ m.from = Other(n) /\ (Ignored(n, m) \/ Processed(n, m))
  BY Zenon, <1>1, ReceiveStep
<1>3. Other(n) \in Ends /\ Other(n) # n /\ \A k \in Ends : k = n \/ k = Other(n)
  BY ZenonT(40), <1>1, Typed
<1>4. handed \in [Ends -> Seq(Bodies)] /\ outcome \in [Ends -> [Bodies -> Promised]]
  BY <1>1 DEF TypeOK
<1>5. Kept
  BY Zenon, ReceiveWire
<1>6. outcome'[Other(n)] = outcome[Other(n)]
  BY ZenonT(60), <1>2, <1>3, <1>4 DEF Ignored, Processed
<1>7. handed'[n] = handed[n]
  BY Zenon, <1>1, HandedUp
<1>8. ASSUME NEW i \in 1 .. Len(handed[n]), NEW j \in 1 .. Len(handed[n]),
             i < j, handed[n][j] < handed[n][i], outcome'[n][handed[n][i]] # "unreliable"
      PROVE  outcome'[n][handed[n][j]] # "confirmed"
  <2> DEFINE c == handed[n][i]
             b == handed[n][j]
  <2>1. c \in Bodies /\ b \in Bodies /\ c \in Range(handed[n])
    BY SMTT(20), <1>4 DEF Range
  <2>2. outcome[n][c] # "unsent" /\ outcome[n][c] # "unreliable"
    BY ZenonT(60), <1>1, <1>5, <1>8, <2>1 DEF Submitted, Kept
  <2>3. outcome[n][b] # "pending"
    BY <1>1, <1>8, <2>1, <2>2 DEF Ordered
  <2>4. outcome[n][b] # "confirmed"
    BY ZenonT(60), <1>1, <1>8, <2>2 DEF ConfirmedInOrder
  <2>5. outcome'[n][b] = outcome[n][b]
    <3> HIDE DEF b
    <3>1. CASE outcome' = outcome
      BY <3>1
    <3>2. CASE outcome' = [outcome EXCEPT ![n] = Settled(n, "confirmed")]
      BY ZenonT(60), <1>1, <2>1, <2>3, <3>2, Settling
    <3> QED BY Zenon, <1>2, <3>1, <3>2 DEF Ignored, Processed
  <2> QED BY Zenon, <2>4, <2>5
<1>9. ASSUME NEW i \in 1 .. Len(handed'[Other(n)]), NEW j \in 1 .. Len(handed'[Other(n)]),
             i < j, handed'[Other(n)][j] < handed'[Other(n)][i],
             outcome'[Other(n)][handed'[Other(n)][i]] # "unreliable"
      PROVE  outcome'[Other(n)][handed'[Other(n)][j]] # "confirmed"
  <2> DEFINE k == Other(n)
             s == handed[k]
  <2>1. s \in Seq(Bodies) /\ Len(s) \in Nat
    BY <1>3, <1>4
  <2>2. CASE handed' = handed
    BY Zenon, <1>1, <1>3, <1>6, <1>9, <2>2 DEF ConfirmedInOrder
  <2>3. CASE /\ m.body \in Bodies /\ Verdict(rx[n], m.counter) # "Duplicate"
             /\ handed'[k] = Append(s, m.body)
    <3>1. outcome[k][m.body] # "confirmed"
      BY Zenon, <1>2, <2>3, NewlyHanded
    <3>2. /\ Len(handed'[k]) = Len(s) + 1 /\ handed'[k][Len(s) + 1] = m.body
          /\ \A x \in 1 .. Len(s) : handed'[k][x] = s[x]
      BY SMTT(30), <2>1, <2>3
    <3>3. i \in 1 .. Len(s) /\ (j \in 1 .. Len(s) \/ j = Len(s) + 1)
      BY <1>9, <2>1, <3>2
    <3>4. CASE j = Len(s) + 1
      BY Zenon, <1>6, <3>1, <3>2, <3>4
    <3>5. CASE j \in 1 .. Len(s)
      <4>1. handed'[k][i] = handed[k][i] /\ handed'[k][j] = handed[k][j]
        BY <3>2, <3>3, <3>5
      <4> QED BY ZenonT(40), <1>1, <1>3, <1>6, <1>9, <3>3, <3>5, <4>1 DEF ConfirmedInOrder
    <3> QED BY ZenonT(60), <3>3, <3>4, <3>5
  <2> QED BY Zenon, <1>1, <2>2, <2>3, HandedUp
<1> QED BY ZenonT(60), <1>3, <1>7, <1>8, <1>9 DEF ConfirmedInOrder

\* Messaging::receive keeps DeliveryInv.
LEMMA ReceiveDelivery ==
    ASSUME ~CanBeFull, WireInv, WireInv', DeliveryInv, NEW n \in Ends, NEW m \in net, Receive(n, m)
    PROVE  DeliveryInv'
<1>1. /\ TypeOK /\ Wins /\ TypeOK' /\ Wins' /\ OneDatagramPerCounter /\ BodyOnce
      /\ Fresh /\ Duplicates /\ Owing /\ Acked /\ HandedIsJudged /\ ConfirmedWasHanded
  BY Zenon DEF WireInv, DeliveryInv
<1>2. /\ m.from = Other(n) /\ next' = next /\ net' = net
      /\ rx'[n] = Accept(rx[n], m.counter) /\ \A k \in Ends \ {n} : rx'[k] = rx[k]
      /\ Ignored(n, m) \/ Processed(n, m)
  BY Zenon, <1>1, ReceiveStep
<1>3. Other(n) \in Ends /\ Other(n) # n /\ Other(Other(n)) = n /\ \A k \in Ends : k = n \/ k = Other(n)
  BY <1>1, Typed
<1>4. Onward
  BY GoesOnward
<1>5. /\ \A o \in net : Fine(o) => Fine(o)'
      /\ \A k \in Ends : \A c : Named(k, c) => Named(k, c)'
      /\ \A k \in Ends : Overtaken(k) \subseteq Overtaken(k)'
  BY Zenon, <1>1, <1>4, Lasting
<1>6. rx[n] \in Secure /\ m.counter \in Counters
  BY ZenonT(40), <1>1, Datagram DEF Wins
<1>7. Judged(m) <=> Verdict(rx[n], m.counter) = "Duplicate"
  BY <1>2, <1>3 DEF Judged
<1>8. Fresh'
  <2>1. rx'[n].max \in {rx[n].max, m.counter}
    BY Zenon, <1>2, <1>6, AcceptTypes
  <2>2. m.counter < next[Other(n)]
    BY Zenon, <1>1, <1>2 DEF TypeOK
  <2>3. rx'[n].max < next'[Other(n)]
    BY Zenon, <1>1, <1>2, <2>1, <2>2 DEF Fresh
  <2> QED BY Zenon, <1>1, <1>2, <2>3 DEF Fresh
<1>9. n = "responder" \/ ex'[n] # None => Fine(m)'
  <2>1. CASE Judged(m)
    <3>1. n = "responder" \/ ex'[n] # None => n = "responder" \/ ex[n] # None
      BY <1>2 DEF Ignored, Processed
    <3> QED BY ZenonT(60), <1>1, <1>2, <1>3, <1>5, <2>1, <3>1 DEF Duplicates
  <2>2. CASE ~Judged(m) /\ Ignored(n, m)
    BY Zenon, <1>7, <2>2 DEF Ignored
  <2>3. CASE ~Judged(m) /\ Processed(n, m)
    <3>1. CASE m.body = None
      BY <3>1 DEF Fine
    <3>2. CASE m.body # None
      <4>1. handed' = [handed EXCEPT ![m.from] = Append(@, m.body)]
        BY Zenon, <1>7, <2>3, <3>2 DEF Processed
      <4>2. handed \in [Ends -> Seq(Bodies)] /\ m.body \in Bodies
        BY Zenon, <1>1, <3>2, Datagram DEF TypeOK
      <4>3. handed'[m.from] = Append(handed[m.from], m.body)
        BY Zenon, <1>2, <1>3, <4>1, <4>2
      <4>4. m.body \in Range(handed'[m.from])
        <5>1. handed[m.from] \in Seq(Bodies)
          BY Zenon, <1>2, <1>3, <4>2
        <5>2. Range(Append(handed[m.from], m.body)) = Range(handed[m.from]) \cup {m.body}
          BY ZenonT(60), <4>2, <5>1, RangeAppend
        <5> QED BY Zenon, <4>3, <5>2
      <4> QED BY Zenon, <4>4 DEF Fine
    <3> QED BY Zenon, <3>1, <3>2
  <2> QED BY Zenon, <1>2, <2>1, <2>2, <2>3
<1>10. ASSUME NEW o \in net PROVE o.from = n => (Judged(o)' <=> Judged(o))
  BY <1>2, <1>3 DEF Judged
<1>11. ASSUME NEW o \in net, o.from = Other(n)
       PROVE  /\ Judged(o)' => o = m \/ Judged(o) \/ Late(o)'
              /\ Judged(o) => Judged(o)'
              /\ o = m => Judged(o)'
  <2>1. o.counter \in Counters /\ o.counter \in Int
    <3>1. o.counter \in Counters /\ o.counter \in Nat
      BY Zenon, <1>1, Datagram
    <3>2. \A x \in Nat : x \in Int
      BY SMT
    <3> QED BY Zenon, <3>1, <3>2
  <2>2. /\ Judged(o) <=> Verdict(rx[n], o.counter) = "Duplicate"
        /\ Judged(o)' <=> Verdict(rx'[n], o.counter) = "Duplicate"
        /\ Late(o)' <=> rx'[n].max > o.counter + WindowSize
    BY Zenon, <1>3, <1>11 DEF Judged, Late
  <2>3. rx'[n].max \in Int /\ WindowSize \in Int
    <3>1. rx'[n].max \in Counters
      BY Zenon, <1>1 DEF Wins, Secure, Windows
    <3>2. WindowSize \in Int /\ \A x \in Counters : x \in Int
      BY SMT, CounterAssumption DEF Counters
    <3> QED BY Zenon, <3>1, <3>2
  <2>4. rx'[n].max - o.counter > WindowSize => Late(o)'
    <3>1. \A x, c, w \in Int : x - c > w => x > c + w
      BY SMTT(30)
    <3> QED BY Zenon, <2>1, <2>2, <2>3, <3>1
  <2>5. o.counter = m.counter => o = m
    BY <1>1, <1>2, <1>11 DEF OneDatagramPerCounter
  <2>6. /\ Verdict(rx'[n], o.counter) = "Duplicate" =>
              \/ o.counter = m.counter \/ Verdict(rx[n], o.counter) = "Duplicate"
              \/ rx'[n].max - o.counter > WindowSize
        /\ Verdict(rx[n], o.counter) = "Duplicate" => Verdict(rx'[n], o.counter) = "Duplicate"
        /\ Verdict(rx'[n], m.counter) = "Duplicate"
    <3> DEFINE w == rx[n]
    <3>1. w \in Secure /\ m.counter \in Counters /\ o.counter \in Counters
      BY Zenon, <1>6, <2>1
    <3> HIDE DEF w
    <3>2. /\ Verdict(Accept(w, m.counter), o.counter) = "Duplicate" =>
                \/ o.counter = m.counter \/ Verdict(w, o.counter) = "Duplicate"
                \/ Accept(w, m.counter).max - o.counter > WindowSize
          /\ Verdict(w, o.counter) = "Duplicate" =>
                Verdict(Accept(w, m.counter), o.counter) = "Duplicate"
          /\ Verdict(Accept(w, m.counter), m.counter) = "Duplicate"
      BY ONLY ZenonT(60), <3>1, AcceptJudges
    <3>3. rx'[n] = Accept(w, m.counter)
      BY <1>2 DEF w
    <3> QED BY <3>2, <3>3, Zenon DEF w
  <2>7. Judged(o)' => o = m \/ Judged(o) \/ Late(o)'
    BY <2>2, <2>4, <2>5, <2>6, Zenon
  <2>8. Judged(o) => Judged(o)'
    BY ZenonT(60), <2>2, <2>6, Zenon
  <2>9. o = m => Judged(o)'
    <3>1. o = m => o.counter = m.counter
      OBVIOUS
    <3> QED BY <2>2, <2>6, <3>1
  <2> QED BY Zenon, <2>7, <2>8, <2>9
<1>12. Duplicates'
  <2> SUFFICES ASSUME NEW o \in net, Judged(o)',
                      Other(o.from) = "responder" \/ ex'[Other(o.from)] # None
               PROVE  Fine(o)'
    BY <1>2 DEF Duplicates
  <2>1. o.from \in Ends
    BY ZenonT(60), <1>1, Datagram
  <2>2. CASE o.from = n
    <3>1. Judged(o)
      BY ZenonT(60), <1>10, <2>2
    <3>2. ex'[Other(n)] = ex[Other(n)]
      BY Zenon, <1>2, <1>3 DEF Ignored, Processed
    <3> QED BY Zenon, <1>1, <1>5, <2>2, <3>1, <3>2 DEF Duplicates
  <2>3. CASE o.from = Other(n)
    <3>1. n = "responder" \/ ex'[n] # None
      BY Zenon, <1>3, <2>3
    <3>2. n = "responder" \/ ex[n] # None
      BY ZenonT(60), <1>2, <3>1 DEF Ignored, Processed
    <3>3. Judged(o) => Fine(o)'
      BY ZenonT(60), <1>1, <1>3, <1>5, <2>3, <3>2 DEF Duplicates
    <3>4. Late(o)' => Fine(o)'
      BY DEF Fine
    <3> QED BY Zenon, <1>9, <1>11, <2>3, <3>1, <3>3, <3>4
  <2> QED BY ZenonT(60), <1>3, <2>1, <2>2, <2>3
<1>13. Owing'
  <2> SUFFICES ASSUME NEW k \in Ends, Owed(k)' # None PROVE Named(k, Owed(k).counter)'
    BY ZenonT(60) DEF Owing
  <2>1. CASE Owed(k)' = Owed(k)
    <3>1. Named(k, Owed(k).counter)
      BY <1>1, <2>1 DEF Owing
    <3>2. Named(k, Owed(k)'.counter)
      BY <2>1, <3>1
    <3> QED BY Zenon, <1>2, <1>5, <3>2 DEF Named
  <2>2. CASE Owed(k)' # Owed(k)
    <3>1. k = n /\ Processed(n, m) /\ Owed(n)'.counter = m.counter
      BY Zenon, <1>2, <1>3, <2>2 DEF Ignored, Processed, Owed
    <3>2. ex'[n] # None
      BY <2>2, <3>1 DEF Owed
    <3>3. Fine(m)'
      BY Zenon, <1>9, <3>2
    <3> QED BY Zenon, <1>2, <3>1, <3>3 DEF Named
  <2> QED BY <2>1, <2>2
<1>14. Acked'
  <2>1. \A a \in net : a.from \in Ends
    BY <1>1, Datagram
  <2> QED BY ZenonT(60), <1>1, <1>2, <1>5, <2>1 DEF Acked
<1>15. HandedIsJudged'
  <2> SUFFICES ASSUME NEW o \in net, o.body # None, o.body \in Range(handed'[o.from])
               PROVE  Judged(o)'
    BY <1>2 DEF HandedIsJudged
  <2>1. o.from \in Ends
    BY ZenonT(60), <1>1, Datagram
  <2>2. CASE o.from = n
    <3>1. handed'[n] = handed[n]
      BY Zenon, <1>1, HandedUp
    <3> QED BY <1>1, <1>10, <2>2, <3>1 DEF HandedIsJudged
  <2>3. CASE o.from = Other(n)
    <3>1. o.body \in Range(handed[o.from]) \/ o.body = m.body
      <4>1. \/ handed' = handed
            \/ Range(handed'[Other(n)]) = Range(handed[Other(n)]) \cup {m.body}
        BY Zenon, <1>1, HandedUp
      <4> QED BY Zenon, <2>3, <4>1
    <3>2. o.body = m.body => o = m
      BY Zenon, <1>1, <1>2, <2>3 DEF BodyOnce
    <3>3. o.body \in Range(handed[o.from]) => Judged(o)
      BY Zenon, <1>1 DEF HandedIsJudged
    <3> QED BY ZenonT(60), <1>11, <2>3, <3>1, <3>2, <3>3
  <2> QED BY ZenonT(60), <1>3, <2>1, <2>2, <2>3
<1>16. ConfirmedWasHanded'
  <2> SUFFICES ASSUME NEW k \in Ends, NEW b \in Bodies, outcome'[k][b] = "confirmed"
               PROVE  b \in Range(handed'[k]) \cup Overtaken(k)'
    BY Zenon DEF ConfirmedWasHanded
  <2>1. Range(handed[k]) \subseteq Range(handed'[k]) /\ Overtaken(k) \subseteq Overtaken(k)'
    BY Zenon, <1>4, <1>5 DEF Onward
  <2>2. CASE outcome[k][b] = "confirmed"
    BY <1>1, <2>1, <2>2 DEF ConfirmedWasHanded
  <2>3. CASE outcome[k][b] # "confirmed"
    <3>1. /\ Tx(n) # None /\ m.ack = Tx(n).counter
          /\ outcome' = [outcome EXCEPT ![n] = Settled(n, "confirmed")]
      BY Zenon, <1>2, <2>3 DEF Ignored, Processed
    <3>2. k = n /\ b \in Pending(n)
      <4>1. /\ \A e \in Ends \ {n} : outcome'[e] = outcome[e]
            /\ \A c \in Bodies : outcome'[n][c] = IF outcome[n][c] = "pending" THEN "confirmed"
                                                ELSE outcome[n][c]
        BY Zenon, <1>1, <3>1, Settling
      <4>2. k = n
        BY Zenon, <2>3, <4>1
      <4>3. outcome[n][b] = "pending"
        BY ZenonT(60), <2>3, <4>1, <4>2
      <4> QED BY Zenon, <4>2, <4>3 DEF Pending
    <3>3. Pending(n) \subseteq Range(handed[n]) \cup Overtaken(n)
      BY Zenon, <1>2, <3>1, Confirming
    <3> QED BY Zenon, <2>1, <3>2, <3>3
  <2> QED BY <2>2, <2>3
<1>17. ConfirmedInOrder'
  BY ZenonT(60), ReceiveOrder
<1> QED BY Zenon, <1>8, <1>12, <1>13, <1>14, <1>15, <1>16, <1>17 DEF DeliveryInv

\* The inductive invariant.
ExchangeInv == WireInv /\ (~CanBeFull => DeliveryInv)

\* It holds at the start.
LEMMA ExchangeStart == Init => ExchangeInv
<1> SUFFICES ASSUME Init PROVE DeliveryInv
  BY Zenon, WireStart DEF ExchangeInv
<1>1. net = {} /\ \A k \in Ends : rx[k].max = 0 /\ next[k] = 1 /\ handed[k] = <<>>
  BY DEF Init, FreshWindow
<1>2. \A k \in Ends : Other(k) \in Ends
  BY DEF Ends, Other
<1>3. Fresh
  BY <1>1, <1>2 DEF Fresh
<1>4. \A k \in Ends : Owed(k) = None
  BY DEF Init, Owed, NewExchange, NewMrp
<1>5. ConfirmedWasHanded
  BY ZenonT(40) DEF Init, ConfirmedWasHanded
<1>6. ConfirmedInOrder
  BY <1>1 DEF ConfirmedInOrder
<1> QED BY <1>1, <1>3, <1>4, <1>5, <1>6 DEF DeliveryInv, Duplicates, Owing, Acked, HandedIsJudged

\* Every step keeps it.
LEMMA ExchangeStep == ExchangeInv /\ [Next]_vars => ExchangeInv'
<1> SUFFICES ASSUME ExchangeInv, [Next]_vars, ~CanBeFull PROVE DeliveryInv'
  BY WireStep DEF ExchangeInv
<1>1. WireInv /\ DeliveryInv /\ WireInv' /\ TypeOK /\ Wins
  BY Zenon, WireStep DEF ExchangeInv, WireInv
<1>2. CASE Next
  <2>1. PICK n \in Ends :
          \/ \E b \in Bodies, reliable \in BOOLEAN : Sending(n, b, reliable)
          \/ Local(n)
          \/ \E m \in net : Receive(n, m)
    BY Zenon, <1>1, <1>2, Forms
  <2> QED BY Zenon, <1>1, <2>1, SendingDelivery, LocalDelivery, ReceiveDelivery
<1>3. CASE UNCHANGED vars
  <2>1. ex' = ex /\ next' = next /\ rx' = rx /\ net' = net /\ outcome' = outcome /\ handed' = handed
    BY Zenon, <1>3 DEF vars
  <2>2. \A m : (Judged(m)' <=> Judged(m)) /\ (Fine(m)' <=> Fine(m))
    BY <2>1 DEF Judged, Fine, Late
  <2>3. \A k, c : Named(k, c)' <=> Named(k, c)
    BY <2>1, <2>2 DEF Named
  <2>4. \A k \in Ends : Owed(k)' = Owed(k) /\ Overtaken(k)' = Overtaken(k)
    BY Zenon, <2>1 DEF Owed, Overtaken
  <2>5. Fresh' /\ Duplicates' /\ HandedIsJudged' /\ ConfirmedInOrder'
    BY ZenonT(60), <1>1, <2>1, <2>2 DEF DeliveryInv, Fresh, Duplicates, HandedIsJudged, ConfirmedInOrder
  <2>6. Owing' /\ Acked' /\ ConfirmedWasHanded'
    BY Zenon, <1>1, <2>1, <2>3, <2>4 DEF DeliveryInv, Owing, Acked, ConfirmedWasHanded
  <2> QED BY Zenon, <2>5, <2>6 DEF DeliveryInv
<1> QED BY <1>2, <1>3

\* Whatever is confirmed to its sender was handed up at the other end, or was overtaken by
\* more than a window: Messaging::receive and Mrp::on_ack, where the table has room.
THEOREM ConfirmedHanded == ASSUME ~CanBeFull PROVE Spec => []ConfirmedWasHanded
<1>1. ExchangeInv => ConfirmedWasHanded
  BY DEF ExchangeInv, DeliveryInv
<1> QED BY <1>1, ExchangeStart, ExchangeStep, PTL DEF Spec

\* A confirmed message was not handed up after a reliable one submitted later: on_send
\* refuses a second message while one is pending.
THEOREM ConfirmedOrder == ASSUME ~CanBeFull PROVE Spec => []ConfirmedInOrder
<1>1. ExchangeInv => ConfirmedInOrder
  BY ZenonT(60) DEF ExchangeInv, DeliveryInv
<1> QED BY <1>1, ExchangeStart, ExchangeStep, PTL DEF Spec

-----------------------------------------------------------------------------
(* Refinement                                                               *)

\* A message is overtaken for ever, and only after it was submitted.
LEMMA OvertakenSteps ==
    ASSUME WireInv, WireInv', DeliveryInv, NEW n \in Ends, Onward,
           \/ \E b \in Bodies, reliable \in BOOLEAN : Sending(n, b, reliable)
           \/ Local(n)
           \/ \E m \in net : Receive(n, m),
           NEW e \in Ends
    PROVE  /\ Overtaken(e) \subseteq Overtaken(e)'
           /\ \A b \in Overtaken(e)' \ Overtaken(e) : outcome[e][b] # "unsent"
<1>1. TypeOK /\ Wins /\ TypeOK' /\ Wins' /\ Submitted /\ Fresh
  BY DEF WireInv, DeliveryInv
<1>2. Overtaken(e) \subseteq Overtaken(e)'
  BY <1>1, Lasting
<1>3. ASSUME NEW b \in Overtaken(e)' PROVE outcome[e][b] # "unsent"
  <2>1. PICK o \in net' : o.from = e /\ o.body # None /\ o.body = b
                          /\ rx'[Other(e)].max > o.counter + WindowSize
    BY Zenon, <1>3 DEF Overtaken
  <2>2. CASE o \in net
    BY ZenonT(60), <1>1, <2>1, <2>2 DEF Submitted
  <2>3. CASE o \notin net
    <3>1. rx' = rx /\ o.from = n /\ o.counter = next[n]
      <4>1. ~\E m \in net : Receive(n, m)
        BY Zenon, <1>1, <2>3, ReceiveStep
      <4> QED BY ZenonT(60), <2>1, <2>3, <4>1 DEF Sending, Local, Wrote
    <3>2. rx[Other(n)].max < next[n]
      <4>1. Other(n) \in Ends /\ Other(Other(n)) = n
        BY Zenon, <1>1, Typed
      <4> QED BY Zenon, <1>1, <4>1 DEF Fresh
    <3>3. rx[Other(n)].max \in Int /\ next[n] \in Int /\ WindowSize \in Nat
      <4>1. Other(n) \in Ends /\ next[n] \in Nat
        BY Zenon, <1>1, Typed
      <4>2. rx[Other(n)].max \in Counters
        BY Zenon, <1>1, <4>1 DEF Wins, Secure, Windows
      <4>3. Counters \subseteq Int /\ Nat \subseteq Int /\ WindowSize \in Nat
        BY CounterAssumption DEF Counters
      <4> QED BY Zenon, <4>1, <4>2, <4>3
    <3>4. rx[Other(n)].max > next[n] + WindowSize
      BY Zenon, <2>1, <3>1
    <3>5. \A a, c \in Int, w \in Nat : ~(a < c /\ a > c + w)
      BY SMT
    <3> QED BY Zenon, <3>2, <3>3, <3>4, <3>5
  <2> QED BY Zenon, <2>2, <2>3
<1> QED BY Zenon, <1>2, <1>3

\* Settling, as ReliableTransfer has it: the one pending message, or no change.
LEMMA SettlesOne ==
    ASSUME TypeOK, NEW n \in Ends, NEW how \in {"confirmed", "abandoned"},
           outcome' = [outcome EXCEPT ![n] = Settled(n, how)]
    PROVE  /\ Pending(n) = {} => outcome' = outcome
           /\ \A b \in Bodies : Pending(n) = {b} => outcome' = [outcome EXCEPT ![n][b] = how]
<1>1. outcome \in [Ends -> [Bodies -> Promised]]
  BY Zenon DEF TypeOK
<1>2. Settled(n, how) = [b \in Bodies |-> IF b \in Pending(n) THEN how ELSE outcome[n][b]]
  BY DEF Settled, Pending
<1>3. ASSUME Pending(n) = {} PROVE outcome' = outcome
  <2>1. Settled(n, how) = outcome[n]
    BY Zenon, <1>1, <1>2, <1>3
  <2> QED BY Zenon, <1>1, <2>1
<1>4. ASSUME NEW b \in Bodies, Pending(n) = {b} PROVE outcome' = [outcome EXCEPT ![n][b] = how]
  <2>1. Settled(n, how) = [outcome[n] EXCEPT ![b] = how]
    BY Zenon, <1>1, <1>2, <1>4
  <2> QED BY Zenon, <1>1, <2>1
<1> QED BY ZenonT(60), <1>3, <1>4

\* Every step of the exchange is a step of what it promises.
LEMMA PromiseStep ==
    ASSUME ~CanBeFull, ExchangeInv, ExchangeInv', Next
    PROVE  Promise!Next
<1> DEFINE Over == \A e \in Ends :
                     /\ Overtaken(e) \subseteq Overtaken(e)'
                     /\ \A b \in Overtaken(e)' \ Overtaken(e) : outcome[e][b] # "unsent"
<1>1. WireInv /\ WireInv' /\ DeliveryInv /\ DeliveryInv' /\ TypeOK /\ Wins
  BY DEF ExchangeInv, WireInv
<1>2. PICK n \in Ends :
        \/ \E b \in Bodies, reliable \in BOOLEAN : Sending(n, b, reliable)
        \/ Local(n)
        \/ \E m \in net : Receive(n, m)
  BY Zenon, <1>1, Forms
<1>3. Over
  BY ZenonT(60), <1>1, <1>2, GoesOnward, OvertakenSteps
<1>4. Promise!Next <=>
        /\ \/ \E e \in Ends, b \in Bodies :
                \/ Promise!Submit(e, b)
                \/ Promise!Settle(e, b) /\ UNCHANGED handed
                \/ Promise!Hand(e, b) /\ UNCHANGED outcome
                \/ \E d \in Ends \ {e}, c \in Bodies : Promise!Hand(e, b) /\ Promise!Settle(d, c)
           \/ UNCHANGED <<outcome, handed>>
        /\ Over
  BY DEF Promise!Next
<1> HIDE DEF Over
<1>5. ASSUME NEW b \in Bodies, NEW reliable \in BOOLEAN, Sending(n, b, reliable)
      PROVE  Promise!Submit(n, b)
  <2>1. reliable => \A c \in Bodies : outcome[n][c] # "pending"
    <3>1. reliable => Pending(n) = {}
      BY Zenon, <1>1, <1>5 DEF WireInv, Wire, Sending
    <3> QED BY Zenon, <3>1 DEF Pending
  <2>2. /\ outcome[n][b] = "unsent" /\ handed' = handed
        /\ outcome' = [outcome EXCEPT ![n][b] = IF reliable THEN "pending" ELSE "unreliable"]
    BY Zenon, <1>5 DEF Sending
  <2>3. CASE reliable
    <3>1. outcome' = [outcome EXCEPT ![n][b] = "pending"]
      BY <2>2, <2>3
    <3> QED BY Zenon, <2>1, <2>2, <2>3, <3>1 DEF Promise!Submit
  <2>4. CASE ~reliable
    <3>1. outcome' = [outcome EXCEPT ![n][b] = "unreliable"]
      BY Zenon, <2>2, <2>4
    <3> QED BY Zenon, <2>2, <3>1 DEF Promise!Submit
  <2> QED BY Zenon, <2>3, <2>4
<1>6. ASSUME Local(n)
      PROVE  handed' = handed /\ (outcome' = outcome \/ \E b \in Bodies : Promise!Settle(n, b))
  <2>1. handed' = handed /\ (outcome' = outcome
                              \/ outcome' = [outcome EXCEPT ![n] = Settled(n, "abandoned")])
    BY <1>6 DEF Local
  <2>2. CASE outcome' = [outcome EXCEPT ![n] = Settled(n, "abandoned")]
    <3>1. Pending(n) = {} \/ \E b \in Bodies : Pending(n) = {b}
      <4>1. Wire(n)
        BY SMTT(30), <1>1 DEF WireInv
      <4>2. Pending(n) \subseteq Bodies
        BY DEF Pending
      <4> QED BY <4>1, <4>2 DEF Wire
    <3>2. ASSUME NEW b \in Bodies, Pending(n) = {b} PROVE Promise!Settle(n, b)
      <4>1. outcome' = [outcome EXCEPT ![n][b] = "abandoned"]
        BY Zenon, <1>1, <2>2, <3>2, SettlesOne
      <4>2. outcome[n][b] = "pending"
        BY <3>2 DEF Pending
      <4> QED BY <4>1, <4>2 DEF Promise!Settle
    <3> QED BY ZenonT(60), <1>1, <2>1, <2>2, <3>1, <3>2, SettlesOne
  <2> QED BY ZenonT(60), <2>1, <2>2
<1>7. ASSUME NEW m \in net, Receive(n, m)
      PROVE  /\ handed' = handed \/ (m.body \in Bodies /\ Promise!Hand(Other(n), m.body))
             /\ outcome' = outcome \/ \E c \in Bodies : Promise!Settle(n, c)
  <2>1. m.from = Other(n) /\ (Ignored(n, m) \/ Processed(n, m))
    BY ZenonT(30), <1>1, <1>7, ReceiveStep
  <2>2. handed' = handed \/ (m.body \in Bodies /\ Promise!Hand(Other(n), m.body))
    <3>1. CASE handed' # handed
      <4>1. /\ m.body \in Bodies /\ Verdict(rx[n], m.counter) # "Duplicate" /\ m.body # None
            /\ handed' = [handed EXCEPT ![Other(n)] = Append(@, m.body)]
        BY ZenonT(60), <1>1, <2>1, <3>1, Datagram DEF Ignored, Processed
      <4>2. /\ m.body \notin Range(handed[Other(n)]) \cup Overtaken(Other(n))
            /\ outcome[Other(n)][m.body] # "unsent"
        BY ZenonT(60), <1>1, <2>1, <4>1, NewlyHanded
      <4>3. Other(n) \in Ends
        BY <1>1, Typed
      <4>4. [k \in Ends |-> Overtaken(k)][Other(n)] = Overtaken(Other(n))
        BY ZenonT(60), <4>3
      <4>5. Promise!Hand(Other(n), m.body)
        BY Zenon, <4>1, <4>2, <4>4 DEF Promise!Hand, Promise!Range, Range
      <4> QED BY <4>1, <4>5
    <3> QED BY <3>1
  <2>3. outcome' = outcome \/ \E c \in Bodies : Promise!Settle(n, c)
    <3>1. CASE outcome' # outcome
      <4>1. /\ Tx(n) # None /\ m.ack = Tx(n).counter
            /\ outcome' = [outcome EXCEPT ![n] = Settled(n, "confirmed")]
        BY ZenonT(60), <2>1, <3>1 DEF Ignored, Processed
      <4>2. PICK c \in Bodies : Pending(n) = {c}
        BY Zenon, <1>1, <2>1, <4>1, Confirming
      <4>3. outcome' = [outcome EXCEPT ![n][c] = "confirmed"]
        BY Zenon, <1>1, <4>1, <4>2, SettlesOne
      <4>4. outcome[n][c] = "pending"
        BY Zenon, <4>2 DEF Pending
      <4>5. outcome'[n][c] = "confirmed"
        BY Zenon, <1>1, <4>3 DEF TypeOK
      <4>6. c \in Range(handed'[n]) \cup Overtaken(n)'
        BY Zenon, <1>1, <4>5 DEF DeliveryInv, ConfirmedWasHanded
      <4>7. [k \in Ends |-> Overtaken(k)]'[n] = Overtaken(n)'
        OBVIOUS
      <4>8. Promise!Settle(n, c)
        BY ZenonT(60), <4>3, <4>4, <4>6, <4>7 DEF Promise!Settle, Promise!Range, Range
      <4> QED BY <4>8
    <3> QED BY <3>1
  <2> QED BY ZenonT(40), <2>2, <2>3
<1>8. Other(n) \in Ends /\ n \in Ends \ {Other(n)}
  BY <1>1, Typed
<1> QED BY Zenon, <1>2, <1>3, <1>4, <1>5, <1>6, <1>7, <1>8

\* The exchange implements what it promises its two upper layers.
THEOREM ExchangeImplements == ASSUME ~CanBeFull PROVE Spec => Implements
<1>1. Init => Promise!Init
  <2> SUFFICES ASSUME Init PROVE Promise!Init
    BY Zenon
  <2>1. \A n \in Ends : Overtaken(n) = {}
    BY DEF Init, Overtaken
  <2> QED BY <2>1 DEF Init, Promise!Init
<1>2. ExchangeInv /\ ExchangeInv' /\ [Next]_vars => [Promise!Next]_(Promise!vars)
  <2> SUFFICES ASSUME ExchangeInv, ExchangeInv', [Next]_vars PROVE [Promise!Next]_(Promise!vars)
    OBVIOUS
  <2>1. CASE Next
    BY Zenon, <2>1, PromiseStep
  <2>2. CASE UNCHANGED vars
    BY <2>2 DEF vars, Promise!vars, Overtaken
  <2> QED BY <2>1, <2>2
<1> QED BY <1>1, <1>2, ExchangeStart, ExchangeStep, PTL DEF Spec, Implements, Promise!Spec
=============================================================================
