----------------------------- MODULE RetryAfter -----------------------------
(***************************************************************************)
(* parseRetryAfter in src/internal/CurierRetry.cpp: the header is scanned  *)
(* character by character as a number of seconds, in 64 bits; a character  *)
(* that is no digit turns it into an HTTP date; the seconds become a delay *)
(* in milliseconds of at most maxDelayMs.                                  *)
(*                                                                         *)
(* The text is not a variable: each character is chosen when the loop      *)
(* reads it.  A header of more than 64 characters never gets here          *)
(* (handleHttpEvent drops it).                                             *)
(***************************************************************************)
EXTENDS CivilDate

CONSTANTS
    Digits,      \* the digits that occur
    Dates,       \* the dates that occur, accepted ones and others
    Nows,        \* what the clock may have read
    MaxDelays,   \* values of CurierRetryConfig::maxDelayMs
    Max64,       \* the largest 64-bit number
    MaxLength    \* the longest header kept, 64 in the code

ASSUME TextAssumption ==
    /\ Digits \subseteq 0..9
    /\ Dates \subseteq [year : Int, month : Int, day : Int,
                        hour : Int, minute : Int, second : Int]
    /\ MaxLength \in Nat

ASSUME WidthAssumption ==
    /\ Max64 \in Nat
    /\ Max64 >= 9
    /\ MaxDelays \subseteq 0..Max64
    /\ Nows \subseteq 0..Max64

\* Dates whose seconds fit the width, as every int year does in the code.
ASSUME DatesAssumption ==
    \A t \in Dates :
        IsHttpDate(t.year, t.month, t.day, t.hour, t.minute, t.second) =>
            EpochSeconds(t.year, t.month, t.day, t.hour, t.minute, t.second) \in 0..Max64

VARIABLES
    phase,        \* scan, number, date or done
    length,       \* characters read
    seconds,
    delayMs,
    accepted,     \* the result of the function
    maxDelayMs, now,
    wanted        \* history: the seconds the header asks for, in full

vars == <<phase, length, seconds, delayMs, accepted, maxDelayMs, now, wanted>>

Init ==
    /\ phase = "scan"
    /\ length = 0
    /\ seconds = 0
    /\ delayMs = 0
    /\ accepted = FALSE
    /\ maxDelayMs \in MaxDelays
    /\ now \in Nows
    /\ wanted = 0

-----------------------------------------------------------------------------
(* Helpers *)

\* Slip: the digit is left out of the test.
OverflowsByTenfold(d) == seconds > Max64 \div 10

Overflows(d) == seconds > (Max64 - d) \div 10

\* Slip: no saturation.
MillisecondsWrapped == (seconds * 1000) % (Max64 + 1)

Milliseconds == IF seconds > Max64 \div 1000 THEN Max64 ELSE seconds * 1000

ClampDelay(value, maximum) == IF value > maximum THEN maximum ELSE value

-----------------------------------------------------------------------------

\* A digit.  When the number no longer fits the loop stops, and whatever
\* follows in the header is not read.
ReadDigit(d) ==
    /\ phase = "scan"
    /\ length < MaxLength
    /\ length' = length + 1
    /\ wanted' = wanted * 10 + d
    /\ IF Overflows(d)
       THEN seconds' = Max64 /\ phase' = "number"
       ELSE seconds' = seconds * 10 + d /\ phase' = "scan"
    /\ UNCHANGED <<delayMs, accepted, maxDelayMs, now>>

ReadOther ==
    /\ phase = "scan"
    /\ length < MaxLength
    /\ phase' = "date"
    /\ UNCHANGED <<length, seconds, delayMs, accepted, maxDelayMs, now, wanted>>

\* The end of the header; an empty one is refused.
ReadEnd ==
    /\ phase = "scan"
    /\ phase' = IF length = 0 THEN "done" ELSE "number"
    /\ UNCHANGED <<length, seconds, delayMs, accepted, maxDelayMs, now, wanted>>

\* The text is an HTTP date.
ParseDate(t) ==
    LET target == EpochSeconds(t.year, t.month, t.day, t.hour, t.minute, t.second) IN
    /\ phase = "date"
    /\ IsHttpDate(t.year, t.month, t.day, t.hour, t.minute, t.second)
    /\ DaysFromCivil(t.year, t.month, t.day) >= 0
    /\ seconds' = IF target > now THEN target - now ELSE 0
    /\ wanted' = IF target > now THEN target - now ELSE 0
    /\ phase' = "number"
    /\ UNCHANGED <<length, delayMs, accepted, maxDelayMs, now>>

\* The text is no date, or one that is out of range.
RefuseDate ==
    /\ phase = "date"
    /\ phase' = "done"
    /\ UNCHANGED <<length, seconds, delayMs, accepted, maxDelayMs, now, wanted>>

Convert ==
    /\ phase = "number"
    /\ delayMs' = ClampDelay(Milliseconds, maxDelayMs)
    /\ accepted' = TRUE
    /\ phase' = "done"
    /\ UNCHANGED <<length, seconds, maxDelayMs, now, wanted>>

Next ==
    \/ \E d \in Digits : ReadDigit(d)
    \/ ReadOther
    \/ ReadEnd
    \/ \E t \in Dates : ParseDate(t)
    \/ RefuseDate
    \/ Convert

Spec == Init /\ [][Next]_vars

-----------------------------------------------------------------------------
(* Properties *)

\* Every variable keeps its range; no 64-bit number overflows.
TypeOK ==
    /\ phase \in {"scan", "number", "date", "done"}
    /\ length \in 0..MaxLength
    /\ seconds \in 0..Max64
    /\ delayMs \in 0..Max64
    /\ accepted \in BOOLEAN
    /\ maxDelayMs \in MaxDelays
    /\ now \in Nows
    /\ wanted \in Nat

\* The delay is the time the header asks for, as long as it is at most
\* maxDelayMs and maxDelayMs otherwise, however long the number is and however
\* far the date: neither the sum, nor the product, nor the conversion to
\* milliseconds ever makes a long delay a short one.
DelayIsTheHeaders ==
    accepted => delayMs = ClampDelay(wanted * 1000, maxDelayMs)
=============================================================================
