------------------------------ MODULE RetryWait ------------------------------
(***************************************************************************)
(* The delay before a retry: waitForRetry() of src/Curier.cpp on the worker *)
(* task, the tick counter of FreeRTOS under it, and the senders and end()   *)
(* that notify the worker meanwhile.  CurierRuntime has the same wait       *)
(* without time; here is what it makes of the ticks.                        *)
(*                                                                         *)
(* The tick counter and the subtraction of two readings wrap at TickModulus,*)
(* 2^32 in the code.  Time that passes while the worker is ready but not    *)
(* running is counted in busy, and is what may lengthen a delay.            *)
(*                                                                         *)
(* An operator commented "Slip:" is the operator after it with a plausible  *)
(* mistake in it; nothing uses it.                                          *)
(***************************************************************************)
EXTENDS Integers

CONSTANTS
    Delays,             \* milliseconds that a retry decision may ask for
    TickRate,           \* configTICK_RATE_HZ
    MsPerSecond,        \* 1000
    TickModulus,        \* one more than the greatest TickType_t
    ConversionModulus,  \* the width of the product in pdMS_TO_TICKS
    MaxWork,            \* bound: sends that notify the worker during a delay
    MaxBusy             \* bound: ticks for which the ready worker is kept waiting

ASSUME DelaysAssumption == Delays \subseteq Nat

ASSUME TicksAssumption ==
    /\ {TickRate, MsPerSecond, ConversionModulus} \subseteq Nat \ {0}
    /\ TickModulus \in Nat /\ TickModulus > 1
    /\ {MaxWork, MaxBusy} \subseteq Nat

Ticks == 0..(TickModulus - 1)
Forever == TickModulus - 1      \* portMAX_DELAY
NotRead == -1
MaxPassed == TickModulus + MaxBusy      \* where the history stops counting

Work == "Work"                  \* kNotificationWork
Stop == "Stop"                  \* kNotificationStop

VARIABLES
    phase,          \* where the worker stands in waitForRetry()
    delay,          \* delayMs
    remaining, started,
    left,           \* ticks until the kernel wakes the blocked worker
    got,            \* the notification that xTaskNotifyWait() has returned
    result,         \* what waitForRetry() returns
    notification,   \* the notification bits of the worker that are pending
    stopping,       \* lifecycle is Stopping
    tick,           \* the tick counter
    workLeft,       \* notifications of accepted sends that may still come
    passed, busy,   \* history: all ticks of this delay, and those lost in it
    told            \* history: Stop has been notified

workerVars == <<delay, remaining, started, left, got, result>>
vars == <<phase, workerVars, notification, stopping, tick, workLeft, passed, busy, told>>

-----------------------------------------------------------------------------
(* Helpers *)

\* Only the low bits of a product and of a quotient are kept.
MsToTicks(ms) ==
    (((ms * TickRate) % ConversionModulus) \div MsPerSecond) % TickModulus

\* Slip: a delay below one tick becomes none.
TicksForTimeoutRounded(ms) == MsToTicks(ms)

TicksForTimeout(ms) ==
    IF ms > 0 /\ MsToTicks(ms) = 0 THEN 1 ELSE MsToTicks(ms)

\* Slip: the start is taken once, before the loop.
StartOnce == IF started = NotRead THEN tick ELSE started

Start == tick

\* Slip: the readings are subtracted without their width.
ElapsedUnwrapped == tick - started

Elapsed == (tick - started) % TickModulus

\* Slip: exactly over.
DelayIsOverExactly == Elapsed = remaining

DelayIsOver == Elapsed >= remaining

\* Slip: the word is compared with the bit, and nothing else is looked at.
StopSeenAlone == got = {Stop}

StopSeen == Stop \in got \/ stopping

\* The kernel has made the worker ready.
Wakes == phase = "blocked" /\ (notification # {} \/ left = 0)

-----------------------------------------------------------------------------

\* process() calls waitForRetry(); a notification of a send that was accepted
\* before may be pending.
Init ==
    /\ phase = "begin"
    /\ delay \in Delays
    /\ remaining = 0 /\ started = NotRead /\ left = 0
    /\ got = {} /\ result = FALSE
    /\ notification \in {{}, {Work}}
    /\ stopping = FALSE
    /\ tick \in Ticks
    /\ workLeft = MaxWork
    /\ passed = 0 /\ busy = 0 /\ told = FALSE

(* The worker *)

Begin ==
    /\ phase = "begin"
    /\ remaining' = TicksForTimeout(delay)
    /\ phase' = IF delay = 0 THEN "returning" ELSE "loop"
    /\ UNCHANGED <<delay, started, left, got, result, notification, stopping,
                   tick, workLeft, passed, busy, told>>

\* The head of the loop, and the reading of the counter.
ReadStart ==
    /\ phase = "loop"
    /\ IF remaining > 0
       THEN started' = Start /\ phase' = "read"
       ELSE started' = started /\ phase' = "returning"
    /\ UNCHANGED <<delay, remaining, left, got, result, notification, stopping,
                   tick, workLeft, passed, busy, told>>

\* xTaskNotifyWait() is called: it returns at once if a bit is pending.
StartWait ==
    /\ phase = "read"
    /\ left' = remaining
    /\ phase' = "blocked"
    /\ UNCHANGED <<delay, remaining, started, got, result, notification, stopping,
                   tick, workLeft, passed, busy, told>>

\* It returns.  A bit that comes after the timeout and before the worker runs
\* again counts as a notification; all bits are taken.
EndWait ==
    /\ Wakes
    /\ got' = notification
    /\ notification' = {}
    /\ phase' = IF notification = {} THEN "returning" ELSE "notified"
    /\ UNCHANGED <<delay, remaining, started, left, result, stopping,
                   tick, workLeft, passed, busy, told>>

CheckStop ==
    /\ phase = "notified"
    /\ IF StopSeen
       THEN result' = FALSE /\ phase' = "done"
       ELSE result' = result /\ phase' = "checked"
    /\ UNCHANGED <<delay, remaining, started, left, got, notification, stopping,
                   tick, workLeft, passed, busy, told>>

\* The second reading of the counter.
TakeElapsed ==
    /\ phase = "checked"
    /\ IF DelayIsOver
       THEN remaining' = remaining /\ phase' = "returning"
       ELSE remaining' = (remaining - Elapsed) % TickModulus /\ phase' = "loop"
    /\ UNCHANGED <<delay, started, left, got, result, notification, stopping,
                   tick, workLeft, passed, busy, told>>

\* return !stopping()
Return ==
    /\ phase = "returning"
    /\ result' = ~ stopping
    /\ phase' = "done"
    /\ UNCHANGED <<delay, remaining, started, left, got, notification, stopping,
                   tick, workLeft, passed, busy, told>>

(* Its surroundings *)

\* A tick.  The kernel counts it against the timeout of a blocked worker.
Tick ==
    /\ phase # "done"
    /\ tick' = (tick + 1) % TickModulus
    /\ passed' = IF passed < MaxPassed THEN passed + 1 ELSE passed
    /\ IF phase = "blocked" /\ ~ Wakes
       THEN left' = (IF left = Forever THEN left ELSE left - 1) /\ busy' = busy
       ELSE left' = left /\ busy < MaxBusy /\ busy' = busy + 1
    /\ UNCHANGED <<phase, delay, remaining, started, got, result, notification,
                   stopping, workLeft, told>>

\* xTaskNotify() of a send().  The worker takes nothing off the queue here, so
\* no more come than there are free places and sends already accepted.
NotifyWork ==
    /\ phase # "done" /\ workLeft > 0
    /\ workLeft' = workLeft - 1
    /\ notification' = notification \cup {Work}
    /\ UNCHANGED <<phase, workerVars, stopping, tick, passed, busy, told>>

\* end() publishes Stopping and notifies after the unlock; it may be repeated.
PublishStop ==
    /\ phase # "done" /\ ~ stopping
    /\ stopping' = TRUE
    /\ UNCHANGED <<phase, workerVars, notification, tick, workLeft, passed, busy, told>>

NotifyStop ==
    /\ phase # "done" /\ stopping
    /\ notification' = notification \cup {Stop}
    /\ told' = TRUE
    /\ UNCHANGED <<phase, workerVars, stopping, tick, workLeft, passed, busy>>

WorkerStep ==
    \/ Begin \/ ReadStart \/ StartWait \/ EndWait
    \/ CheckStop \/ TakeElapsed \/ Return

Next ==
    \/ Begin
    \/ ReadStart
    \/ StartWait
    \/ EndWait
    \/ CheckStop
    \/ TakeElapsed
    \/ Return
    \/ Tick
    \/ NotifyWork
    \/ PublishStop
    \/ NotifyStop

Spec == Init /\ [][Next]_vars

\* The ready worker runs and the tick interrupt keeps coming.
FairSpec == Spec /\ WF_vars(WorkerStep) /\ WF_vars(Tick)

-----------------------------------------------------------------------------
(* Properties *)

Phases ==
    {"begin", "loop", "read", "blocked", "notified", "checked", "returning", "done"}

\* Every variable keeps its range: a remainder never wraps to a long delay, and
\* the loop is never left by its condition with a delay half done.
TypeOK ==
    /\ phase \in Phases
    /\ delay \in Delays
    /\ remaining \in 0..TicksForTimeout(delay)
    /\ phase \in {"loop", "read", "blocked", "notified", "checked"} => remaining > 0
    /\ started \in Ticks \cup {NotRead}
    /\ left \in 0..TicksForTimeout(delay)
    /\ {got, notification} \subseteq SUBSET {Work, Stop}
    /\ {result, stopping, told} \subseteq BOOLEAN
    /\ tick \in Ticks
    /\ workLeft \in 0..MaxWork
    /\ passed \in 0..MaxPassed /\ busy \in 0..MaxBusy

\* The delay in whole ticks, at least one; as long as the conversion does not
\* leave its width.
Converts == delay * TickRate < ConversionModulus
Wanted ==
    LET ticks == (delay * TickRate) \div MsPerSecond
    IN  IF delay > 0 /\ ticks = 0 THEN 1 ELSE ticks

\* A retry is not early: however often a send interrupts the delay, and wherever
\* the counter wraps, waitForRetry() returns true only after the whole delay.
WaitIsFull ==
    phase = "done" /\ result /\ Converts /\ Wanted \in Ticks => passed >= Wanted

\* Nor is it late by more than the ticks in which the worker was kept from
\* running: an interruption does not start the delay again.  As long as a
\* difference of two readings fits the counter.
WaitIsNotStretched ==
    TicksForTimeout(delay) # Forever /\ TicksForTimeout(delay) + busy < TickModulus
        => passed <= TicksForTimeout(delay) + busy

\* docs/concurrency.md: "Retry waits use task notifications and wake immediately
\* for shutdown."  The worker never sleeps on a Stop it was sent: the bit is not
\* taken off the word and forgotten.
StopIsNotSlept ==
    phase = "blocked" /\ told => Wakes

\* The delay ends, whatever notifications come, unless its ticks are
\* portMAX_DELAY, which the kernel takes for no timeout at all; then only a
\* notification ends the sleep, and a Stop ends the delay.
WaitEnds ==
    (TicksForTimeout(delay) # Forever \/ Stop \in notification) ~> (phase = "done")
==============================================================================
