-------------------------- MODULE ReplayProtection --------------------------
(***************************************************************************)
(* One counter space end to end: a sender taking counters from its         *)
(* MessageCounter, a network that delays, reorders, duplicates and loses   *)
(* messages, and a receiver judging each arrival with its CounterWindow    *)
(* (SecureSession::next_counter and accept_counter).                       *)
(*                                                                         *)
(* Every message ever sent may arrive at any time, any number of times.    *)
(* The one assumption, for the rollover kind only, is that an arrival is   *)
(* less than half the counter range away from the newest one accepted.     *)
(***************************************************************************)
EXTENDS CounterWindow, Sequences

CONSTANTS
    Spaces,        \* the kinds of counter space considered
    MaxSent        \* bound on the number of messages sent

ASSUME ReplayAssumption == Spaces \subseteq Kinds /\ MaxSent \in Nat

VARIABLES
    counter,       \* the sender's MessageCounter
    sent,          \* the counters of the messages sent, in order
    window,        \* the receiver's CounterWindow
    times,         \* how often each message (an index into sent) was handed up
    newest         \* index of the message whose counter is window.max; 0 before the first

replayVars == <<counter, sent, window, times, newest>>

Messages == 1 .. MaxSent

ReplayInit ==
    /\ counter \in InitialCounters
    /\ sent = <<>>
    /\ window \in {FreshWindow(kind) : kind \in Spaces}
    /\ times = [m \in Messages |-> 0]
    /\ newest = 0

\* SecureSession::next_counter, or a group sender's counter, which rolls over
NextCounter ==
    /\ Len(sent) < MaxSent
    /\ window.kind = "SecureUnicast" => ~counter.exhausted
    /\ sent' = Append(sent, counter.next)
    /\ counter' = IF window.kind = "SecureUnicast" THEN Take(counter) ELSE TakeWithRollover(counter)
    /\ UNCHANGED <<window, times, newest>>

\* The environment assumption for free-running counters
Recent(m) ==
    (window.kind = "Rollover" /\ newest # 0) =>
        /\ 2 * (m - newest) < WordSize
        /\ 2 * (newest - m) < WordSize

\* SecureSession::accept_counter; only a New message is handed up
AcceptCounter(m) ==
    /\ m <= Len(sent)
    /\ Recent(m)
    /\ window' = Accept(window, sent[m])
    /\ IF Verdict(window, sent[m]) = "New"
       THEN times' = [times EXCEPT ![m] = @ + 1]
       ELSE UNCHANGED times
    /\ newest' = IF window'.max # window.max \/ ~window.primed THEN m ELSE newest
    /\ UNCHANGED <<counter, sent>>

ReplayNext == NextCounter \/ \E m \in Messages : AcceptCounter(m)

ReplaySpec == ReplayInit /\ [][ReplayNext]_replayVars

-----------------------------------------------------------------------------
\* Every variable has its type
ReplayTypeOK ==
    /\ counter \in MessageCounters
    /\ sent \in Seq(Counters)
    /\ window \in Windows /\ window.kind \in Spaces
    /\ times \in [Messages -> Nat]
    /\ newest \in 0 .. MaxSent

\* No message is handed to the upper layer twice, whatever the network
\* duplicates or delays (CounterWindow::accept)
AtMostOnce == \A m \in Messages : times[m] <= 1

\* The window is exact: a message within WindowSize of the newest one is judged
\* a duplicate only if it was handed up, so reordering loses nothing
NoFalseDuplicate ==
    \A m \in 1 .. Len(sent) :
        (newest # 0 /\ m + WindowSize >= newest /\ Recent(m) /\ times[m] = 0)
            => Verdict(window, sent[m]) = "New"

\* A secure session's counter is a nonce: MessageCounter::take never hands the
\* same value out twice, the last one of the range included
NonceNeverReused ==
    window.kind = "SecureUnicast" =>
        \A m, n \in 1 .. Len(sent) : sent[m] = sent[n] => m = n
=============================================================================
