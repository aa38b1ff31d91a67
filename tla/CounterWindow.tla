--------------------------- MODULE CounterWindow ---------------------------
(***************************************************************************)
(* The two halves of a Matter message counter, as pure operators:          *)
(* CounterWindow, the receiver's duplicate detection, and MessageCounter,  *)
(* the sender's supply (msg/counter.rs).                                   *)
(*                                                                         *)
(* The bitmap is the set of its set bits: bit k stands for the counter     *)
(* max - 1 - k.                                                            *)
(***************************************************************************)
EXTENDS Integers

CONSTANTS
    WordSize,      \* number of counter values, 2^32 in the code (u32)
    WindowSize,    \* MSG_COUNTER_WINDOW_SIZE, 32 in the code
    InitialMax     \* largest initial counter, 2^28 in the code

ASSUME CounterAssumption ==
    /\ WordSize \in Nat /\ WindowSize \in Nat /\ InitialMax \in Nat
    /\ 1 <= WindowSize /\ 2 * WindowSize < WordSize
    /\ 1 <= InitialMax /\ InitialMax < WordSize

Counters == 0 .. (WordSize - 1)
Bits == 0 .. (WindowSize - 1)
Kinds == {"SecureUnicast", "Rollover"}

\* u32::wrapping_sub on two counters
WrappingSub(a, b) == IF a >= b THEN a - b ELSE a - b + WordSize

Windows == [kind : Kinds, max : Counters, bitmap : SUBSET Bits, primed : BOOLEAN]

FreshWindow(kind) == [kind |-> kind, max |-> 0, bitmap |-> {}, primed |-> FALSE]

\* A counter greater than max, by the rule of the window's kind
Ahead(w, counter) ==
    IF w.kind = "SecureUnicast"
    THEN counter > w.max
    ELSE LET delta == WrappingSub(counter, w.max)
         IN  delta # 0 /\ 2 * delta < WordSize

\* Mutants of Slide: the old maximum is forgotten; the counters skipped over count as
\* seen
SlideForgetsMax(bitmap, shift) == {b \in Bits : b - shift \in bitmap}
SlideFillsGap(bitmap, shift) == {b \in Bits : b - shift \in bitmap \/ b <= shift - 1}

\* The history moved along by shift, with the old maximum recorded in it
Slide(bitmap, shift) == {b \in Bits : b - shift \in bitmap \/ b = shift - 1}

Verdict(w, counter) ==
    IF ~w.primed THEN "New"
    ELSE IF counter = w.max THEN "Duplicate"
    ELSE IF Ahead(w, counter) THEN "New"
    ELSE LET behind == WrappingSub(w.max, counter)
         IN  IF behind > WindowSize \/ behind - 1 \in w.bitmap
             THEN "Duplicate" ELSE "New"

\* CounterWindow::accept: the window after judging counter
Accept(w, counter) ==
    IF Verdict(w, counter) = "Duplicate" THEN w
    ELSE IF ~w.primed
         THEN [w EXCEPT !.primed = TRUE, !.max = counter, !.bitmap = {}]
    ELSE IF Ahead(w, counter)
         THEN [w EXCEPT !.max = counter,
                        !.bitmap = Slide(w.bitmap, WrappingSub(counter, w.max))]
    ELSE [w EXCEPT !.bitmap = @ \cup {WrappingSub(w.max, counter) - 1}]

-----------------------------------------------------------------------------
\* MessageCounter: next to hand out, and whether the last one has been
MessageCounters == [next : Counters, exhausted : BOOLEAN]

\* initial_counter and MessageCounter::new
InitialCounters == {[next |-> c, exhausted |-> FALSE] : c \in 1 .. InitialMax}

\* Mutant of Take: the last value is handed out again and again
TakeSaturates(mc) == [mc EXCEPT !.next = IF @ = WordSize - 1 THEN @ ELSE @ + 1]

\* MessageCounter::take, enabled when not exhausted; it hands out mc.next
Take(mc) ==
    IF mc.next = WordSize - 1 THEN [mc EXCEPT !.exhausted = TRUE]
                              ELSE [mc EXCEPT !.next = @ + 1]

\* MessageCounter::take_with_rollover
TakeWithRollover(mc) ==
    [next |-> IF mc.next = WordSize - 1 THEN 0 ELSE mc.next + 1, exhausted |-> FALSE]
=============================================================================
