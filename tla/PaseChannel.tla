---------------------------- MODULE PaseChannel ----------------------------
(***************************************************************************)
(* The commissionee's side of PASE: the Channel that answers the handshake *)
(* (sc/channel.rs), the PaseResponder it drives (sc/pase.rs), the gate on  *)
(* new requests (commissioning/admission.rs), and what the device loop     *)
(* does to them (examples/light.rs), against commissioners whose messages  *)
(* are delayed and reordered.                                              *)
(*                                                                         *)
(* Each handshake is identified by its number. A commissioner sends each   *)
(* message of it once it has the answer to the one before; the message     *)
(* layer hands each up at most once (ReliableExchange).                    *)
(***************************************************************************)
EXTENDS Integers, Option

CONSTANTS
    Handshakes,     \* the handshakes commissioners may start
    Knows,          \* the handshakes whose commissioner has the right passcode
    MaxFailures     \* MAX_FAILED_ATTEMPTS, 20 in the code

\* The states a PaseResponder in the channel can be in; h is the handshake it answered
Responders ==
    [h : Handshakes, pake1 : Handshakes \cup {None},
     state : {"AwaitingPake1", "AwaitingPake3", "Established"}]

ASSUME PaseAssumption ==
    /\ Knows \subseteq Handshakes
    /\ MaxFailures \in Nat \ {0}
    /\ None \notin Handshakes /\ None \notin Responders

VARIABLES
    admission,      \* the gate's channel: Idle, Establishing, Late (its deadline has
                    \* passed, unnoticed) or Established
    failures,       \* failed attempts since the last reset
    pase,           \* the PaseResponder, or None
    local,          \* pase_local: the session id of the last handshake answered
    live,           \* the PASE sessions in the session table
    window,         \* whether the commissioning window is open
    armed,          \* whether the fail-safe is armed
    inbound,        \* messages on their way to the node
    answered        \* history: requests answered since the failures were last cleared

channelVars == <<admission, failures, pase, local, live>>
loopVars == <<window, armed>>
paseVars == <<channelVars, loopVars, inbound, answered>>

PaseMessage(kind, h) == [kind |-> kind, h |-> h]

\* A responder that answered the request of h, and what it has had since
PaseResponder(h, state, pake1) == [h |-> h, state |-> state, pake1 |-> pake1]

PaseInit ==
    /\ admission = "Idle" /\ failures = 0
    /\ pase = None /\ local = None
    /\ live = {}
    /\ window = FALSE /\ armed = FALSE
    /\ inbound = {PaseMessage("request", h) : h \in Handshakes}
    /\ answered = 0

-----------------------------------------------------------------------------
\* saturating_add on the u8, cut at the limit: no code tells larger values apart
Counted(n) == IF n < MaxFailures THEN n + 1 ELSE n

\* Channel::fail and PaseAdmission::failed, with n failures so far
Fail(n) ==
    /\ admission' = "Idle" /\ failures' = Counted(n)
    /\ pase' = None
    /\ window' = (window /\ Counted(n) < MaxFailures)
    /\ UNCHANGED <<local, live, armed, answered>>

Delivered(m) == m \in inbound /\ inbound' = inbound \ {m}
DeliveredFor(m, answer) == m \in inbound /\ inbound' = (inbound \ {m}) \cup {answer}

\* A mutant of ExpiredFailures: admit clears an overdue handshake without counting it
ExpiredUncounted == failures

\* PaseAdmission::expire, as admit calls it: what it leaves in the two fields
ExpiredFailures == IF admission = "Late" THEN Counted(failures) ELSE failures
ExpiredChannel == IF admission = "Late" THEN "Idle" ELSE admission

\* PaseAdmission::admit, which Channel always calls with commissionable = true
Admits == ExpiredFailures < MaxFailures /\ ExpiredChannel = "Idle"

\* Channel::pbkdf_param_request, refused as Busy or AttemptsExhausted
RequestRefused(h) ==
    /\ ~Admits
    /\ Delivered(PaseMessage("request", h))
    /\ admission' = ExpiredChannel /\ failures' = ExpiredFailures
    /\ UNCHANGED <<pase, local, live, loopVars, answered>>

\* Channel::pbkdf_param_request, admitted and answered
RequestAnswered(h) ==
    /\ Admits
    /\ DeliveredFor(PaseMessage("request", h), PaseMessage("pake1", h))
    /\ admission' = "Establishing" /\ failures' = ExpiredFailures
    /\ pase' = PaseResponder(h, "AwaitingPake1", None) /\ local' = h
    /\ answered' = answered + 1
    /\ UNCHANGED <<live, loopVars>>

\* Channel::pbkdf_param_request, admitted and found unacceptable
RequestRejected(h) ==
    /\ Admits
    /\ Delivered(PaseMessage("request", h))
    /\ Fail(ExpiredFailures)

\* Channel::pake1 and pake3 without a responder: no answer
Silence(m) ==
    /\ pase = None /\ m.kind # "request"
    /\ Delivered(m)
    /\ UNCHANGED <<channelVars, loopVars, answered>>

\* Channel::pake1, answered with Pake2
Pake1Answered(h) ==
    /\ pase # None /\ pase.state = "AwaitingPake1"
    /\ DeliveredFor(PaseMessage("pake1", h), PaseMessage("pake3", h))
    /\ pase' = PaseResponder(pase.h, "AwaitingPake3", h)
    /\ UNCHANGED <<admission, failures, local, live, loopVars, answered>>

\* Channel::pake1, out of turn or undecodable
Pake1Fails(h) ==
    /\ pase # None
    /\ Delivered(PaseMessage("pake1", h))
    /\ Fail(failures)

\* A mutant of Confirms: the confirmation is not compared
ConfirmsAny(h) == pase.state = "AwaitingPake3"

\* PaseResponder::on_pake3: the confirmation is over the transcript of both sides,
\* so one commissioner, with the passcode, sent every message of it
Confirms(h) == pase.state = "AwaitingPake3" /\ pase.h = h /\ pase.pake1 = h /\ h \in Knows

\* Channel::pake3, confirmed and installed
Pake3Establishes(h) ==
    /\ pase # None /\ Confirms(h)
    /\ Delivered(PaseMessage("pake3", h))
    /\ admission' = "Established" /\ failures' = 0
    /\ pase' = [pase EXCEPT !.state = "Established"]
    /\ live' = live \cup {local}
    /\ answered' = 0
    /\ UNCHANGED <<local, loopVars>>

\* Channel::pake3, not confirmed, or confirmed and not installed
Pake3Fails(h) ==
    /\ pase # None
    /\ Delivered(PaseMessage("pake3", h))
    /\ Fail(failures)

-----------------------------------------------------------------------------
\* Sixty seconds pass
Deadline ==
    /\ admission = "Establishing" /\ admission' = "Late"
    /\ UNCHANGED <<failures, pase, local, live, loopVars, inbound, answered>>

\* A mutant of Poll: the responder is dropped and the gate is not
PollKeepsGate ==
    /\ admission = "Late"
    /\ pase' = None
    /\ UNCHANGED <<admission, failures, local, live, loopVars, inbound, answered>>

\* Channel::poll, from the loop's deadline event
Poll == admission = "Late" /\ Fail(failures) /\ UNCHANGED inbound

\* Received::SessionClosed, handed to Channel::closed
PeerCloses(s) ==
    /\ live' = live \ {s}
    /\ IF s = local THEN admission' = "Idle" /\ pase' = None
                    ELSE UNCHANGED <<admission, pase>>
    /\ UNCHANGED <<failures, local, loopVars, inbound, answered>>

\* install_session evicts the session for another one; the channel is not told
Evict(s) ==
    /\ live' = live \ {s}
    /\ UNCHANGED <<admission, failures, pase, local, loopVars, inbound, answered>>

\* The window opens, and the loop sees the edge: Channel::reopen, PaseAdmission::reset
OpenWindow ==
    /\ ~window /\ window' = TRUE
    /\ admission' = "Idle" /\ failures' = 0 /\ answered' = 0
    /\ UNCHANGED <<pase, local, live, armed, inbound>>

\* The window is revoked or runs out
CloseWindow ==
    /\ window /\ window' = FALSE
    /\ UNCHANGED <<channelVars, armed, inbound, answered>>

\* The fail-safe is armed, and disarmed by its expiry or by CommissioningComplete
Arm ==
    /\ ~armed /\ armed' = TRUE
    /\ UNCHANGED <<channelVars, window, inbound, answered>>

Disarm ==
    /\ armed /\ armed' = FALSE
    /\ UNCHANGED <<channelVars, window, inbound, answered>>

\* What the top of the device loop acts on before it takes the next event
ReleaseDue == window /\ admission = "Established" /\ ~armed

\* A mutant of Release: the responder is dropped and the gate is not
ReleaseKeepsGate ==
    /\ ReleaseDue
    /\ pase' = None
    /\ UNCHANGED <<admission, failures, local, live, loopVars, inbound, answered>>

\* Channel::release
Release ==
    /\ ReleaseDue
    /\ admission' = "Idle" /\ pase' = None
    /\ UNCHANGED <<failures, local, live, loopVars, inbound, answered>>

Event ==
    \/ \E h \in Handshakes :
        \/ RequestRefused(h) \/ RequestAnswered(h) \/ RequestRejected(h)
        \/ Pake1Answered(h) \/ Pake1Fails(h)
        \/ Pake3Establishes(h) \/ Pake3Fails(h)
    \/ \E m \in inbound : Silence(m)
    \/ Deadline \/ Poll
    \/ \E s \in live : PeerCloses(s) \/ Evict(s)
    \/ OpenWindow \/ CloseWindow
    \/ Arm \/ Disarm

PaseNext == Release \/ (~ReleaseDue /\ Event)

\* Time passes, and channel.deadline() is one of the loop's wake-ups
Fairness == WF_paseVars(Deadline) /\ WF_paseVars(Poll)

PaseSpec == PaseInit /\ [][PaseNext]_paseVars /\ Fairness

-----------------------------------------------------------------------------
\* Every variable has its type
PaseTypeOK ==
    /\ admission \in {"Idle", "Establishing", "Late", "Established"}
    /\ failures \in 0 .. MaxFailures
    /\ pase \in Responders \cup {None}
    /\ local \in Handshakes \cup {None} /\ live \subseteq Handshakes
    /\ window \in BOOLEAN /\ armed \in BOOLEAN
    /\ inbound \subseteq [kind : {"request", "pake1", "pake3"}, h : Handshakes]
    /\ answered \in Nat

\* The gate and the responder agree: the channel is held only on behalf of the last
\* responder answered, which is still there, and Established only for one that is
HeldByResponder ==
    /\ admission # "Idle" => pase # None
    /\ pase # None => pase.h = local
    /\ admission = "Established" => pase.state = "Established"

\* Rule 1: once a request is answered, no other commissioner's request takes the
\* responder over before the handshake ends or its sixty seconds are up
NotTakenOver ==
    [][pase' # None /\ admission \in {"Establishing", "Established"}
        => pase'.h = pase.h]_paseVars

\* Rule 3: between two clearings of the failure count no more requests are answered
\* than the limit, however handshakes fail, expire, or are overtaken by the next one
AttemptsBounded == answered <= MaxFailures

\* A PASE session is live only for a commissioner that knew the passcode, whichever
\* other handshakes' messages reached the responder
SessionsAreProved == live \subseteq Knows

\* Rule 2: one unanswered request never holds the channel for good
EstablishmentEnds == admission = "Establishing" ~> admission \in {"Idle", "Established"}
=============================================================================
