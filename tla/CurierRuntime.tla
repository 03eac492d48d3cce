--------------------------- MODULE CurierRuntime ---------------------------
(***************************************************************************)
(* The concurrent core of Curier (src/Curier.cpp): application tasks that  *)
(* call init(), send(), end() and the destructor, the worker task that     *)
(* drains the ring queue, retries deliveries and runs the callbacks, and   *)
(* the FreeRTOS objects between them: the runtime mutex, the lifecycle     *)
(* mutex, the task notification word and the shutdown semaphore.           *)
(*                                                                         *)
(* A critical section of the runtime mutex is one action.  The lifecycle   *)
(* mutex is explicit, because end() blocks on the semaphore while it holds *)
(* it.  A call that leaves the state alone (a refused send(), initialized()*)
(* and diagnostics()) is a stuttering step.                                *)
(*                                                                         *)
(* An operator commented "Slip:" is the operator after it with a plausible *)
(* mistake in it; nothing uses it.  PROJECT.json names the property that   *)
(* fails when the mistake is made.                                         *)
(***************************************************************************)
EXTENDS Integers, Sequences, FiniteSets

CONSTANTS
    Callers,       \* application tasks
    Worker,        \* the task init() creates; its callbacks may call the API
    Nobody,        \* no owner of the lifecycle mutex, no destroyer
    QueueSize,     \* CurierConfig::queueSize
    MaxRetries,    \* CurierRetryConfig::maxRetries
    CallbackApi,   \* the API calls that callbacks make
    MaxSends,      \* bound: accepted sends in a behaviour
    MaxSessions    \* bound: successful init() calls in a behaviour

Apis == {"send", "init", "end"}

ASSUME TasksAssumption ==
    /\ Callers # {}
    /\ Worker \notin Callers
    /\ Nobody \notin Callers \cup {Worker}

\* validateConfig: queueSize in 1..kMaxQueueSize, maxRetries at most
\* kMaxConfiguredRetries.  The upper limits matter to no proof.
ASSUME ConfigAssumption ==
    /\ QueueSize \in Nat \ {0}
    /\ MaxRetries \in Nat
    /\ CallbackApi \subseteq Apis

ASSUME BoundsAssumption == MaxSends \in Nat /\ MaxSessions \in Nat

Tasks == Callers \cup {Worker}

NoJob == 0    \* an empty queue slot; accepted jobs are numbered from 1
NoTask == 0   \* a null TaskHandle_t; worker tasks are numbered from 1

VARIABLES
    (* CurierImpl, read and written under the runtime mutex *)
    lifecycle,       \* Uninitialized, Running or Stopping
    allocated,       \* which owned resources exist
    queue,           \* the ring: a job number or NoJob per slot
    queueHead, queueTail, queueCount,
    inFlight,        \* accepted and not yet completed
    diag,            \* the counters of CurierDiagnostics
    (* FreeRTOS objects *)
    lifecycleOwner,  \* the task holding lifecycleMutex across steps
    task,            \* the worker task that CurierImpl::task owns
    created,         \* how many worker tasks have been created
    notification,    \* bits pending in the worker's notification word
    signal,          \* workerReadySignal has been given and not taken
    (* the worker task *)
    wpc,             \* where run() is
    job,             \* the job it holds
    attempts,        \* attemptCount of process()
    status,          \* the status of the result it will report
    delivered,       \* the push service answered 2xx for this job
    (* the API calls in progress *)
    pc,              \* where each task is in its API call
    handle,          \* the TaskHandle_t that call captured
    destroyer,       \* the task running ~Curier
    (* history *)
    accepted,        \* how many sends were accepted
    called           \* the jobs whose callback was invoked, in order

queueVars == <<queue, queueHead, queueTail, queueCount>>
implVars == <<lifecycle, allocated, queueVars, inFlight, diag>>
taskVars == <<task, created>>
rtosVars == <<lifecycleOwner, taskVars, notification, signal>>
jobVars == <<job, attempts, status, delivered>>
workerVars == <<wpc, jobVars>>
callVars == <<pc, handle, destroyer>>
ghostVars == <<accepted, called>>
allButCalls == <<implVars, rtosVars, workerVars, ghostVars>>
vars == <<allButCalls, callVars>>

Lifecycles == {"Uninitialized", "Running", "Stopping"}
Resources == {"config", "crypto", "queue", "jwtCache", "signal"}
Statuses == {"None", "Ok", "Failed", "Cancelled", "InternalError"}
Callbacks == {"callback", "drainCallback"}
WorkerSteps == {"none", "loop", "pop", "wait", "attempt", "deliver", "decide",
                "delay", "finish", "drain", "final", "parked"} \cup Callbacks
EndSteps == {"endNotify", "endWait", "endReset", "endRelease"}
CallSteps == {"idle", "notify", "init", "end", "gone"} \cup EndSteps

EmptyQueue == [i \in 0 .. QueueSize - 1 |-> NoJob]
ZeroDiag == [enqueued |-> 0, completed |-> 0, succeeded |-> 0, failed |-> 0,
             cancelled |-> 0, retried |-> 0]

Init ==
    /\ lifecycle = "Uninitialized"
    /\ allocated = {}
    /\ queue = EmptyQueue
    /\ queueHead = 0 /\ queueTail = 0 /\ queueCount = 0
    /\ inFlight = 0
    /\ diag = ZeroDiag
    /\ lifecycleOwner = Nobody
    /\ task = NoTask
    /\ created = 0
    /\ notification = {}
    /\ signal = FALSE
    /\ wpc = "none"
    /\ job = NoJob
    /\ attempts = 0
    /\ status = "None"
    /\ delivered = FALSE
    /\ pc = [t \in Tasks |-> "idle"]
    /\ handle = [t \in Tasks |-> NoTask]
    /\ destroyer = Nobody
    /\ accepted = 0
    /\ called = << >>

-----------------------------------------------------------------------------
(* Helpers *)

Stopping == lifecycle = "Stopping"

\* Slip: the index does not wrap.
NextIndexUnwrapped(i) == i + 1

NextIndex(i) == (i + 1) % QueueSize

\* Slip: the job the worker holds is not counted.
HasCapacityQueuedOnly == queueCount < QueueSize

HasCapacity == inFlight < QueueSize /\ queueCount < QueueSize

\* A task may enter the API when it is in no call.  The worker does so from a
\* callback only; an application task never once the destructor has begun.
MayCall(t, api) ==
    /\ pc[t] = "idle"
    /\ IF t = Worker THEN wpc \in Callbacks /\ api \in CallbackApi
                     ELSE destroyer = Nobody

Goto(t, step) == pc' = [pc EXCEPT ![t] = step]

\* Slip: the slot still holds the popped job.
SlotsAfterCopy == queue

SlotsAfterPop == [queue EXCEPT ![queueHead] = NoJob]

\* popJob() on a non-empty queue: the slot is moved from.
PopJob ==
    /\ queueCount > 0
    /\ job' = queue[queueHead]
    /\ queue' = SlotsAfterPop
    /\ queueHead' = NextIndex(queueHead)
    /\ queueCount' = queueCount - 1
    /\ UNCHANGED queueTail

\* Slip: the last job is overlooked.
NothingToPopButOne == queueCount <= 1

NothingToPop == queueCount = 0

\* Slip: a job cancelled by a shutdown is dropped silently.
InvokeCallbackUnlessStopping(j) ==
    called' = IF Stopping THEN called ELSE Append(called, j)

InvokeCallback(j) == called' = Append(called, j)

CountIf(b) == IF b THEN 1 ELSE 0

\* Slip: a cancelled job keeps its place.
InFlightUnlessCancelled ==
    IF status = "Cancelled" THEN inFlight ELSE inFlight - 1

InFlightAfterJob == IF inFlight > 0 THEN inFlight - 1 ELSE inFlight

RecordCompletion ==
    /\ inFlight' = InFlightAfterJob
    /\ diag' = [enqueued |-> diag.enqueued,
                completed |-> diag.completed + 1,
                succeeded |-> diag.succeeded + CountIf(status = "Ok"),
                failed |-> diag.failed + CountIf(status # "Ok"),
                cancelled |-> diag.cancelled + CountIf(status = "Cancelled"),
                retried |-> diag.retried]

-----------------------------------------------------------------------------
(* send() *)

\* The runtime mutex's critical section of an accepted send, enqueueLocked()
\* included.  Every refusal returns before the first assignment.
SendAccepted(t) ==
    /\ MayCall(t, "send")
    /\ lifecycle = "Running"
    /\ {"config", "crypto", "queue"} \subseteq allocated
    /\ HasCapacity
    /\ accepted < MaxSends
    /\ accepted' = accepted + 1
    /\ queue' = [queue EXCEPT ![queueTail] = accepted + 1]
    /\ queueTail' = NextIndex(queueTail)
    /\ queueCount' = queueCount + 1
    /\ inFlight' = inFlight + 1
    /\ diag' = [diag EXCEPT !.enqueued = @ + 1]
    /\ handle' = [handle EXCEPT ![t] = task]
    /\ Goto(t, IF task = NoTask THEN "idle" ELSE "notify")
    /\ UNCHANGED <<lifecycle, allocated, queueHead, rtosVars, workerVars,
                   destroyer, called>>

\* xTaskNotify after the unlock.  When the captured task has been reclaimed,
\* the call writes into freed storage: it is lost, or it lands in the task
\* that reuses the storage.
SendNotify(t) ==
    /\ pc[t] = "notify"
    /\ \/ notification' = notification \cup {"work"} /\ task # NoTask
       \/ handle[t] # task /\ UNCHANGED notification
    /\ handle' = [handle EXCEPT ![t] = NoTask]
    /\ Goto(t, "idle")
    /\ UNCHANGED <<implVars, lifecycleOwner, taskVars, signal, workerVars,
                   destroyer, ghostVars>>

-----------------------------------------------------------------------------
(* init() *)

InitCall(t) ==
    /\ MayCall(t, "init")
    /\ Goto(t, "init")
    /\ UNCHANGED <<allButCalls, handle, destroyer>>

\* AlreadyInitialized while Running, Busy while Stopping.
InitRefused(t) ==
    /\ pc[t] = "init"
    /\ lifecycleOwner = Nobody
    /\ lifecycle # "Uninitialized"
    /\ Goto(t, "idle")
    /\ UNCHANGED <<allButCalls, handle, destroyer>>

\* init() returns to Uninitialized here, holding what it has acquired so far...
FailurePoints == {"crypto", "vapid", "signal", "task"}

AcquiredBefore(point) ==
    CASE point = "crypto" -> {"config"}
      [] point = "vapid"  -> {"config", "crypto"}
      [] point = "signal" -> {"config", "crypto", "queue", "jwtCache"}
      [] point = "task"   -> Resources

\* Slip: the semaphore outlives a failed task creation.
ReleasedButSignal(point) == AcquiredBefore(point) \ {"signal"}

\* ...and releases this before it returns.
ReleasedOnFailure(point) ==
    CASE point = "crypto" -> {"config"}
      [] point = "vapid"  -> {"crypto", "config"}
      [] point = "signal" -> {"jwtCache", "queue", "crypto", "config"}
      [] point = "task"   ->
           {"signal", "jwtCache", "queue", "crypto", "config"}

\* The indices, the counters and the diagnostics of a new session.
ResetCounters ==
    /\ queueHead' = 0
    /\ queueTail' = 0
    /\ queueCount' = 0
    /\ inFlight' = 0
    /\ diag' = ZeroDiag

InitFails(t, point) ==
    /\ pc[t] = "init"
    /\ lifecycleOwner = Nobody
    /\ lifecycle = "Uninitialized"
    /\ allocated' =
         (allocated \cup AcquiredBefore(point)) \ ReleasedOnFailure(point)
    /\ queue' = EmptyQueue
    /\ IF point = "task" THEN ResetCounters
       ELSE UNCHANGED <<queueHead, queueTail, queueCount, inFlight, diag>>
    /\ Goto(t, "idle")
    /\ UNCHANGED <<lifecycle, rtosVars, workerVars, handle, destroyer,
                   ghostVars>>

InitSucceeds(t) ==
    /\ pc[t] = "init"
    /\ lifecycleOwner = Nobody
    /\ lifecycle = "Uninitialized"
    /\ created < MaxSessions
    /\ allocated' = Resources
    /\ queue' = EmptyQueue
    /\ ResetCounters
    /\ lifecycle' = "Running"
    /\ created' = created + 1
    /\ task' = created + 1
    /\ notification' = {}
    /\ signal' = FALSE
    /\ wpc' = "loop"
    /\ Goto(t, "idle")
    /\ UNCHANGED <<lifecycleOwner, jobVars, handle, destroyer, ghostVars>>

-----------------------------------------------------------------------------
(* end() and ~Curier *)

EndCall(t) ==
    /\ MayCall(t, "end")
    /\ Goto(t, "end")
    /\ UNCHANGED <<allButCalls, handle, destroyer>>

\* The application destroys the object when no other task of its own is in a
\* call; the destructor aborts the program when the worker runs it.
DestroyCall(t) ==
    /\ t \in Callers
    /\ destroyer = Nobody
    /\ \A u \in Callers : pc[u] = "idle"
    /\ destroyer' = t
    /\ Goto(t, "end")
    /\ UNCHANGED <<allButCalls, handle>>

\* end() has returned success: the destructor leaves its loop.
AfterEnd(t) == IF destroyer = t THEN "gone" ELSE "idle"

\* Slip: a timeout is ignored and the worker is deleted where it stands.
AfterTimeoutReset(t) == "endReset"

\* Slip: the destructor gives up after one timeout.
AfterTimeoutGone(t) == IF destroyer = t THEN "gone" ELSE "idle"

\* end() has returned Timeout: the destructor calls it again.
AfterTimeout(t) == IF destroyer = t THEN "end" ELSE "idle"

\* Slip: the caller is not compared with the worker.
IsWorkerUnchecked(t) == FALSE

IsWorker(t) == t = Worker

EndNotInitialized(t) ==
    /\ pc[t] = "end"
    /\ lifecycleOwner = Nobody
    /\ lifecycle = "Uninitialized"
    /\ Goto(t, AfterEnd(t))
    /\ UNCHANGED <<allButCalls, handle, destroyer>>

EndBusy(t) ==
    /\ pc[t] = "end"
    /\ lifecycleOwner = Nobody
    /\ lifecycle # "Uninitialized"
    /\ IsWorker(t)
    /\ Goto(t, "idle")
    /\ UNCHANGED <<allButCalls, handle, destroyer>>

EndPublish(t) ==
    /\ pc[t] = "end"
    /\ lifecycleOwner = Nobody
    /\ lifecycle # "Uninitialized"
    /\ ~IsWorker(t)
    /\ lifecycle' = "Stopping"
    /\ lifecycleOwner' = t
    /\ handle' = [handle EXCEPT ![t] = task]
    /\ Goto(t, "endNotify")
    /\ UNCHANGED <<allocated, queueVars, inFlight, diag, taskVars,
                   notification, signal, workerVars, destroyer, ghostVars>>

\* Slip: no bit is set.
StopBitsMissing == {}

StopBits == {"stop"}

EndNotify(t) ==
    /\ pc[t] = "endNotify"
    /\ notification' = notification \cup StopBits
    /\ Goto(t, "endWait")
    /\ UNCHANGED <<implVars, lifecycleOwner, taskVars, signal, workerVars,
                   handle, destroyer, ghostVars>>

EndTake(t) ==
    /\ pc[t] = "endWait"
    /\ signal
    /\ signal' = FALSE
    /\ Goto(t, "endReset")
    /\ UNCHANGED <<implVars, lifecycleOwner, taskVars, notification,
                   workerVars, handle, destroyer, ghostVars>>

\* The semaphore was not given in time: Stopping and all state are kept.
EndTimeout(t) ==
    /\ pc[t] = "endWait"
    /\ ~signal
    /\ lifecycleOwner' = Nobody
    /\ handle' = [handle EXCEPT ![t] = NoTask]
    /\ Goto(t, AfterTimeout(t))
    /\ UNCHANGED <<implVars, taskVars, notification, signal, workerVars,
                   destroyer, ghostVars>>

\* task.reset() deletes the worker and its notification word, outside the
\* runtime mutex.
EndReset(t) ==
    /\ pc[t] = "endReset"
    /\ task' = NoTask
    /\ notification' = {}
    /\ wpc' = "none"
    /\ Goto(t, "endRelease")
    /\ UNCHANGED <<implVars, lifecycleOwner, created, signal, jobVars, handle,
                   destroyer, ghostVars>>

EndRelease(t) ==
    /\ pc[t] = "endRelease"
    /\ allocated' = allocated \ Resources
    /\ queue' = EmptyQueue
    /\ queueHead' = 0
    /\ queueTail' = 0
    /\ queueCount' = 0
    /\ inFlight' = 0
    /\ lifecycle' = "Uninitialized"
    /\ lifecycleOwner' = Nobody
    /\ handle' = [handle EXCEPT ![t] = NoTask]
    /\ Goto(t, AfterEnd(t))
    /\ UNCHANGED <<diag, taskVars, notification, signal, workerVars,
                   destroyer, ghostVars>>

-----------------------------------------------------------------------------
(* The worker: run() *)

WorkerCheck ==
    /\ wpc = "loop"
    /\ wpc' = IF Stopping THEN "drain" ELSE "pop"
    /\ UNCHANGED <<implVars, rtosVars, jobVars, callVars, ghostVars>>

WorkerPop ==
    /\ wpc = "pop"
    /\ PopJob
    /\ attempts' = 0
    /\ status' = "None"
    /\ delivered' = FALSE
    /\ wpc' = "attempt"
    /\ UNCHANGED <<lifecycle, allocated, inFlight, diag, rtosVars, callVars,
                   ghostVars>>

\* Slip: xTaskNotifyWait clears every bit on entry.
ClearOnEntryAll == {"work", "stop"}

ClearOnEntry == {}

WorkerIdle ==
    /\ wpc = "pop"
    /\ NothingToPop
    /\ notification' = notification \ ClearOnEntry
    /\ wpc' = "wait"
    /\ UNCHANGED <<implVars, lifecycleOwner, taskVars, signal, jobVars,
                   callVars, ghostVars>>

\* Slip: only Stop ends the wait.
AfterWaitForStop(bits) == IF "stop" \in bits THEN "drain" ELSE "wait"

AfterWait(bits) == IF "stop" \in bits THEN "drain" ELSE "loop"

\* xTaskNotifyWait(0, max, &notification, portMAX_DELAY): all bits are taken.
WorkerWake ==
    /\ wpc = "wait"
    /\ notification # {}
    /\ notification' = {}
    /\ wpc' = AfterWait(notification)
    /\ UNCHANGED <<implVars, lifecycleOwner, taskVars, signal, jobVars,
                   callVars, ghostVars>>

\* cancelQueued(): pop, and invoke the callback with Cancelled.
DrainJob ==
    /\ wpc = "drain"
    /\ PopJob
    /\ attempts' = 0
    /\ status' = "Cancelled"
    /\ delivered' = FALSE
    /\ InvokeCallback(queue[queueHead])
    /\ wpc' = "drainCallback"
    /\ UNCHANGED <<lifecycle, allocated, inFlight, diag, rtosVars, callVars,
                   accepted>>

DrainDone ==
    /\ wpc = "drain"
    /\ NothingToPop
    /\ wpc' = "final"
    /\ UNCHANGED <<implVars, rtosVars, jobVars, callVars, ghostVars>>

\* Slip: the semaphore is given only to an end() that is waiting for it.
SignalIfAwaited == \E t \in Tasks : pc[t] = "endWait"

SignalAtEnd == TRUE

\* workerReadySignal.give(), then suspendForever().
WorkerPublish ==
    /\ wpc = "final"
    /\ signal' = SignalAtEnd
    /\ wpc' = "parked"
    /\ UNCHANGED <<implVars, lifecycleOwner, taskVars, notification, jobVars,
                   callVars, ghostVars>>

-----------------------------------------------------------------------------
(* The worker: process() and invokeAndRelease() *)

\* Slip: one attempt short of the retries GiveUp and Retry allow.
LoopMayContinueShort == attempts < MaxRetries

LoopMayContinue == attempts <= MaxRetries

\* Slip: maxRetries is not consulted.
MayRetryForever == ~Stopping

MayRetry == attempts <= MaxRetries /\ ~Stopping

ReportAs(s) ==
    /\ status' = s
    /\ wpc' = "finish"

\* The head of the retry loop; falling out of the loop is an InternalError.
BeginAttempt ==
    /\ wpc = "attempt"
    /\ attempts' = IF LoopMayContinue THEN attempts + 1 ELSE 0
    /\ CASE ~LoopMayContinue -> ReportAs("InternalError")
         [] LoopMayContinue /\ Stopping -> ReportAs("Cancelled")
         [] OTHER -> wpc' = "deliver" /\ UNCHANGED status
    /\ UNCHANGED <<implVars, rtosVars, job, delivered, callVars, ghostVars>>

\* Clock, JWT, encryption and HTTP, without the runtime mutex.  A 2xx answer
\* and an encryption error end process(); every other failure is put to the
\* retry policy.
DeliverOk ==
    /\ wpc = "deliver"
    /\ delivered' = TRUE
    /\ ReportAs("Ok")
    /\ UNCHANGED <<implVars, rtosVars, job, attempts, callVars, ghostVars>>

EncryptFails ==
    /\ wpc = "deliver"
    /\ ReportAs("Failed")
    /\ UNCHANGED <<implVars, rtosVars, job, attempts, delivered, callVars,
                   ghostVars>>

DeliverFails ==
    /\ wpc = "deliver"
    /\ status' = "Failed"
    /\ wpc' = "decide"
    /\ UNCHANGED <<implVars, rtosVars, job, attempts, delivered, callVars,
                   ghostVars>>

Deliver == DeliverOk \/ EncryptFails \/ DeliverFails

\* No retry is allowed, or the policy declines one.
GiveUp ==
    /\ wpc = "decide"
    /\ wpc' = "finish"
    /\ UNCHANGED <<implVars, rtosVars, jobVars, callVars, ghostVars>>

\* The policy asks for a retry; retried is counted before the delay.
Retry ==
    /\ wpc = "decide"
    /\ MayRetry
    /\ diag' = [diag EXCEPT !.retried = @ + 1]
    /\ wpc' = "delay"
    /\ UNCHANGED <<lifecycle, allocated, queueVars, inFlight, rtosVars,
                   jobVars, callVars, ghostVars>>

\* waitForRetry() is woken: by Stop it returns FALSE, by Work it waits for
\* the rest of the delay.
RetryWake ==
    /\ wpc = "delay"
    /\ notification # {}
    /\ notification' = {}
    /\ IF "stop" \in notification \/ Stopping THEN ReportAs("Cancelled")
       ELSE UNCHANGED <<status, wpc>>
    /\ UNCHANGED <<implVars, lifecycleOwner, taskVars, signal, job, attempts,
                   delivered, callVars, ghostVars>>

\* The delay is zero or has passed: waitForRetry() returns !stopping().
RetryElapsed ==
    /\ wpc = "delay"
    /\ IF Stopping THEN ReportAs("Cancelled")
       ELSE wpc' = "attempt" /\ UNCHANGED status
    /\ UNCHANGED <<implVars, rtosVars, job, attempts, delivered, callVars,
                   ghostVars>>

\* run() after process(): any result becomes Cancelled once Stopping is
\* published; then the callback is invoked, without a mutex.
FinalStatus == IF Stopping THEN "Cancelled" ELSE status

Finish ==
    /\ wpc = "finish"
    /\ status' = FinalStatus
    /\ InvokeCallback(job)
    /\ wpc' = "callback"
    /\ UNCHANGED <<implVars, rtosVars, job, attempts, delivered, callVars,
                   accepted>>

\* The callback returns; the job is released and the completion recorded.
Release ==
    /\ wpc \in Callbacks
    /\ pc[Worker] = "idle"
    /\ job' = NoJob
    /\ RecordCompletion
    /\ wpc' = IF wpc = "drainCallback" THEN "drain" ELSE "loop"
    /\ UNCHANGED <<lifecycle, allocated, queueVars, rtosVars, attempts,
                   status, delivered, callVars, ghostVars>>

-----------------------------------------------------------------------------
WorkerStep ==
    \/ WorkerCheck \/ WorkerPop \/ WorkerIdle \/ WorkerWake
    \/ DrainJob \/ DrainDone \/ WorkerPublish
    \/ BeginAttempt \/ Deliver \/ GiveUp \/ Retry
    \/ RetryWake \/ RetryElapsed \/ Finish \/ Release

\* The steps of a call that has begun.
InCall(t) ==
    \/ SendNotify(t)
    \/ InitRefused(t)
    \/ \E point \in FailurePoints : InitFails(t, point)
    \/ InitSucceeds(t)
    \/ EndNotInitialized(t) \/ EndBusy(t) \/ EndPublish(t) \/ EndNotify(t)
    \/ EndTake(t) \/ EndTimeout(t) \/ EndReset(t) \/ EndRelease(t)

NewCall(t) == SendAccepted(t) \/ InitCall(t) \/ EndCall(t) \/ DestroyCall(t)

\* The object is gone; nothing of it may run any more.
Destroyed ==
    /\ destroyer # Nobody
    /\ pc[destroyer] = "gone"
    /\ UNCHANGED vars

Next ==
    \/ \E t \in Tasks : NewCall(t) \/ InCall(t)
    \/ WorkerStep
    \/ Destroyed

Spec == Init /\ [][Next]_vars

(***************************************************************************)
(* The scheduler runs every task that can run; delays and HTTP requests    *)
(* have timeouts; a callback returns.  No application task is obliged to   *)
(* begin a call.                                                           *)
(***************************************************************************)
Fairness == WF_vars(WorkerStep) /\ \A t \in Tasks : WF_vars(InCall(t))

FairSpec == Spec /\ Fairness
-----------------------------------------------------------------------------
(* Properties *)

Counters == [enqueued : Nat, completed : Nat, succeeded : Nat, failed : Nat,
             cancelled : Nat, retried : Nat]

\* Every variable has its type: the indices stay inside the ring, the handles
\* are task numbers and each step is one of the program's.
TypeOK ==
    /\ lifecycle \in Lifecycles
    /\ allocated \in SUBSET Resources
    /\ queue \in [0 .. QueueSize - 1 -> Nat]
    /\ queueHead \in 0 .. QueueSize - 1
    /\ queueTail \in 0 .. QueueSize - 1
    /\ queueCount \in Nat
    /\ inFlight \in Nat
    /\ diag \in Counters
    /\ lifecycleOwner \in Tasks \cup {Nobody}
    /\ task \in Nat
    /\ created \in Nat
    /\ notification \in SUBSET {"work", "stop"}
    /\ signal \in BOOLEAN
    /\ wpc \in WorkerSteps
    /\ job \in Nat
    /\ attempts \in Nat
    /\ status \in Statuses
    /\ delivered \in BOOLEAN
    /\ pc \in [Tasks -> CallSteps]
    /\ handle \in [Tasks -> Nat]
    /\ destroyer \in Callers \cup {Nobody}
    /\ accepted \in Nat
    /\ called \in Seq(Nat)

\* The ring holds the accepted jobs that have not been popped, each once, in
\* the order of acceptance from queueHead, and nothing else: what send() and
\* popJob() must keep between them while the indices wrap and sessions end.
QueueIsPendingSuffix ==
    /\ queueCount <= QueueSize
    /\ queueTail = (queueHead + queueCount) % QueueSize
    /\ \A i \in 0 .. QueueSize - 1 :
         queue[(queueHead + i) % QueueSize] =
           IF i < queueCount THEN accepted - queueCount + 1 + i ELSE NoJob

\* The worker has a job whose callback it has not invoked yet.
JobSteps == {"attempt", "deliver", "decide", "delay", "finish"}
Unreported == CountIf(wpc \in JobSteps)
Active == CountIf(wpc \in JobSteps \cup Callbacks)

\* docs/concurrency.md "accepted = queued + active": inFlight is the queued
\* jobs and the one the worker has, it never exceeds queueSize, the
\* diagnostics agree with it, and no accepted job is lost: one that was not
\* called back is in the queue or in the worker's hands.
WorkAccounting ==
    /\ inFlight = queueCount + Active
    /\ inFlight <= QueueSize
    /\ accepted = Len(called) + queueCount + Unreported
    /\ diag.enqueued = diag.completed + inFlight
    /\ diag.completed = diag.succeeded + diag.failed
    /\ diag.cancelled <= diag.failed

\* No job is called back twice, out of the order of acceptance or without
\* having been accepted, across sessions and shutdowns.
ExactlyOnceInOrder ==
    /\ called = [i \in 1 .. Len(called) |-> i]
    /\ wpc \in JobSteps => job = Len(called) + 1
    /\ wpc \in Callbacks => job = Len(called)

\* Who may touch the runtime.  The lifecycle mutex is held by the one task
\* that is shutting down, and only while Stopping; resources exist exactly
\* outside Uninitialized; a worker exists from init() to task.reset(), has
\* given the semaphore or not according to where it stands, and leaves no job
\* behind when it stops.  Ownership is inductive (CurierRuntimeProofs).
Ownership ==
    /\ lifecycle = "Uninitialized" =>
         /\ allocated = {} /\ lifecycleOwner = Nobody /\ task = NoTask
         /\ inFlight = 0
    /\ lifecycle # "Uninitialized" => allocated = Resources
    /\ lifecycle # "Uninitialized" /\ lifecycleOwner = Nobody => wpc # "none"
    /\ lifecycleOwner # Nobody => Stopping
    /\ lifecycleOwner # Worker
    /\ task = NoTask <=> wpc = "none"
    /\ \A t \in Tasks :
         /\ pc[t] \in EndSteps <=> lifecycleOwner = t
         /\ pc[t] \in {"endNotify", "endWait"} => wpc # "none"
         /\ pc[t] = "endReset" => wpc = "parked" /\ ~signal
         /\ pc[t] = "endRelease" => wpc = "none"
    /\ signal => wpc = "parked"
    /\ wpc \in {"drain", "drainCallback", "final", "parked"} => Stopping
    /\ wpc \in {"final", "parked", "none"} => queueCount = 0
    /\ wpc = "none" => notification = {}
    /\ "stop" \in notification => Stopping

\* The worker never runs without everything it dereferences, and its task is
\* never deleted before it has published its last step, whatever timeouts,
\* repeated end() calls and restarts came before.
WorkerOwnsRuntime ==
    /\ wpc \notin {"none", "parked"} => allocated = Resources /\ task # NoTask
    /\ (\E t \in Tasks : pc[t] = "endReset") => wpc = "parked"

\* While Uninitialized nothing is held: no resource survives a failed init()
\* or a successful end(), and no worker task.
OffHoldsNothing ==
    lifecycle = "Uninitialized" =>
        /\ allocated = {}
        /\ task = NoTask
        /\ wpc = "none"
        /\ inFlight = 0

\* A worker that sleeps with something to do has been notified or is about to
\* be: neither a send between the empty popJob() and xTaskNotifyWait nor a
\* Stop published during a retry delay is missed.
NoLostWakeup ==
    /\ wpc = "wait" /\ queueCount > 0 =>
         \/ notification # {}
         \/ \E t \in Tasks : pc[t] = "notify" /\ handle[t] = task
    /\ wpc \in {"wait", "delay"} /\ Stopping =>
         "stop" \in notification \/ \E t \in Callers : pc[t] = "endNotify"

\* What the callback is told is true: Ok only after a 2xx, Cancelled only
\* during a shutdown, and never the fall-through of the retry loop.
ReportIsHonest ==
    wpc \in Callbacks \cup {"finish"} =>
        /\ status = "Ok" => delivered
        /\ status = "Cancelled" => Stopping
        /\ status # "InternalError"

\* A delivered push is never sent again, and no job gets more than the
\* configured retries, Stop and Work notifications notwithstanding.
NoExtraAttempt ==
    /\ delivered => wpc \notin {"attempt", "deliver", "decide", "delay"}
    /\ attempts <= MaxRetries + 1
    /\ diag.retried <= MaxRetries * (diag.completed + Active)

\* Once the destructor has returned no task of the object exists and no call
\* into it is in progress.
DestroyedIsQuiet ==
    (\E t \in Callers : pc[t] = "gone") =>
        /\ lifecycle = "Uninitialized" /\ task = NoTask /\ allocated = {}
        /\ \A t \in Tasks : pc[t] \in {"idle", "gone"}

\* README "Every accepted job receives exactly one callback before a
\* successful end() returns": the step that ends a session finds every
\* callback made and no worker left.
EndIsBarrier ==
    [][lifecycle = "Stopping" /\ lifecycle' = "Uninitialized" =>
         Len(called) = accepted /\ inFlight = 0 /\ wpc = "none"]_vars

\* Once Stopping is published the worker reaches its publication point, even
\* from a retry delay and even if the end() that published it timed out.
StopReachesWorker == Stopping ~> wpc \in {"parked", "none"}

\* The destructor's loop of end(60000) calls comes to an end.
DestructorReturns ==
    \A t \in Callers : (destroyer = t) ~> (pc[t] = "gone")

\* The service that CurierService describes, over this module's state.
Service == INSTANCE CurierService
    WITH Capacity <- QueueSize, phase <- lifecycle, reported <- Len(called)

\* This module implements it: capacity is never exceeded, reports come one per
\* accepted push, and a session closes only when every push is reported.
ServicePromise == Service!Promise

\* Moreover every accepted push is eventually reported, whether the
\* application goes on, shuts down or does nothing more.
ServiceLivePromise == Service!LivePromise

-----------------------------------------------------------------------------
(* Claims of the documentation that the code does not keep *)

\* docs/concurrency.md "A successful end() therefore guarantees that the
\* worker and all Curier-owned runtime storage have been released": hence no
\* accepted send still holds a handle to that worker.
NoHandleToReleasedTask ==
    \A t \in Tasks : pc[t] = "notify" => handle[t] = task

\* docs/concurrency.md "end() detects the worker context and returns Busy":
\* it is not first made to wait for a shutdown that waits for this worker.
CallbackEndReturnsBusy == pc[Worker] = "end" => lifecycleOwner = Nobody
=============================================================================
