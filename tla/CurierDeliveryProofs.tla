------------------------ MODULE CurierDeliveryProofs ------------------------
(***************************************************************************)
(* More theorems about CurierRuntime, for every set of callers, every queue*)
(* size, every retry limit and every bound: the ring holds the jobs that   *)
(* are pending, callbacks come once and in order, what they report is true,*)
(* no wake-up is lost and no attempt is made too many, and nothing runs    *)
(* after the destructor.  RuntimeInv of CurierRuntimeProofs is used        *)
(* throughout.                                                             *)
(***************************************************************************)
EXTENDS CurierRuntimeProofs

\* A ring index that has gone round at most once, without the remainder.
LEMMA IndexOnce ==
    ASSUME NEW i \in Nat, i < 2 * QueueSize
    PROVE  i % QueueSize = IF i < QueueSize THEN i ELSE i - QueueSize
  <1>1. QueueSize \in Nat /\ QueueSize > 0
    BY ConfigAssumption
  <1>2. CASE i < QueueSize
    BY <1>1, <1>2
  <1>3. CASE i >= QueueSize
    BY <1>1, <1>3
  <1> QED
    BY <1>1, <1>2, <1>3

-----------------------------------------------------------------------------
(* The ring *)

\* How far a slot is from the head.
Offset(s) ==
    IF s >= queueHead THEN s - queueHead ELSE s - queueHead + QueueSize

\* QueueIsPendingSuffix slot by slot, without remainders.
RingInv ==
    /\ queueTail = IF queueHead + queueCount < QueueSize
                   THEN queueHead + queueCount
                   ELSE queueHead + queueCount - QueueSize
    /\ \A s \in 0 .. QueueSize - 1 :
         queue[s] = IF Offset(s) < queueCount
                    THEN accepted - queueCount + 1 + Offset(s) ELSE NoJob

\* Seen from the ring a step is an accepted send, a pop, a reset of a ring that
\* is empty, or none of its business.
RingReset ==
    /\ queueCount = 0 /\ queueCount' = 0 /\ queue' = EmptyQueue
    /\ \/ queueHead' = 0 /\ queueTail' = 0
       \/ UNCHANGED <<queueHead, queueTail>>
    /\ UNCHANGED accepted

RingMove ==
    \/ \E t \in Tasks : SendAccepted(t)
    \/ PopJob /\ UNCHANGED accepted
    \/ RingReset
    \/ UNCHANGED <<queueVars, accepted>>

\* Every step of the program is one of these.
LEMMA RingSteps == RuntimeInv /\ [Next]_vars => RingMove
  <1> SUFFICES ASSUME RuntimeInv, [Next]_vars PROVE RingMove
    OBVIOUS
  <1> USE DEF vars, allButCalls, implVars, queueVars, rtosVars, taskVars,
              workerVars, jobVars, callVars, ghostVars, RingReset
  <1>0. ASSUME NEW t \in Tasks, SendAccepted(t) PROVE RingMove
    BY <1>0 DEF RingMove
  <1>1. ASSUME NEW t \in Tasks, InitSucceeds(t) PROVE RingMove
    BY <1>1 DEF RingMove, InitSucceeds, ResetCounters, RuntimeInv, Ownership
  <1>2. ASSUME NEW t \in Tasks, NEW point \in FailurePoints,
               InitFails(t, point)
        PROVE  RingMove
    <2>1. queueCount = 0
      BY <1>2 DEF InitFails, RuntimeInv, Ownership
    <2> QED
      BY <1>2, <2>1 DEF RingMove, InitFails, ResetCounters
  <1>3. ASSUME NEW t \in Tasks, EndRelease(t) PROVE RingMove
    BY <1>3, EndReleaseState DEF RingMove, EndRelease
  <1>4. ASSUME NEW t \in Tasks,
               \/ SendNotify(t) \/ InitCall(t) \/ InitRefused(t)
               \/ EndCall(t) \/ DestroyCall(t) \/ EndNotInitialized(t)
               \/ EndBusy(t) \/ EndPublish(t) \/ EndNotify(t) \/ EndTake(t)
               \/ EndTimeout(t) \/ EndReset(t)
        PROVE  RingMove
    BY <1>4
    DEF RingMove, SendNotify, InitCall, InitRefused, EndCall, DestroyCall,
        EndNotInitialized, EndBusy, EndPublish, EndNotify, EndTake,
        EndTimeout, EndReset
  <1>5. CASE WorkerPop \/ DrainJob
    BY <1>5 DEF RingMove, WorkerPop, DrainJob
  <1>6. CASE \/ WorkerCheck \/ WorkerIdle \/ WorkerWake \/ DrainDone
             \/ WorkerPublish \/ BeginAttempt \/ DeliverOk \/ EncryptFails
             \/ DeliverFails \/ GiveUp \/ Retry \/ RetryWake
             \/ RetryElapsed \/ Finish \/ Release
    BY <1>6
    DEF RingMove, WorkerCheck, WorkerIdle, WorkerWake, DrainDone, WorkerPublish,
        BeginAttempt, DeliverOk, EncryptFails, DeliverFails, GiveUp, Retry,
        RetryWake, RetryElapsed, Finish, Release
  <1>7. CASE UNCHANGED vars
    BY <1>7 DEF RingMove
  <1> QED
    BY <1>0, <1>1, <1>2, <1>3, <1>4, <1>5, <1>6, <1>7
    DEF Next, NewCall, InCall, WorkerStep, Deliver, Destroyed

\* The ring is empty initially.
LEMMA RingInit == Init => RingInv
  BY ConfigAssumption DEF Init, RingInv, EmptyQueue, Offset

\* The arithmetic of an empty ring.
LEMMA EmptyRing ==
    ASSUME NEW q \in Int, NEW h \in Int, NEW c \in Int,
           0 <= h, h < q, c <= 0, c >= 0
    PROVE  /\ h + c < q /\ h + c = h
           /\ \A s \in Int : s >= h => ~(s - h < c)
           /\ \A s \in Int : s >= 0 => ~(s - h + q < c)
  OBVIOUS

\* Every step keeps the pending jobs in the ring.
LEMMA RingStep == RuntimeInv /\ RingInv /\ [Next]_vars => RingInv'
  <1> SUFFICES ASSUME RuntimeInv, RingInv, [Next]_vars PROVE RingInv'
    OBVIOUS
  <1>a. /\ QueueSize \in Nat /\ QueueSize > 0
        /\ queueHead \in 0 .. QueueSize - 1
        /\ queueTail \in 0 .. QueueSize - 1
        /\ queueCount \in 0 .. QueueSize /\ accepted \in Nat
        /\ queue \in [0 .. QueueSize - 1 -> Nat]
    <2>1. queueCount <= QueueSize
      BY AccountingTypes, ConfigAssumption DEF RuntimeInv, WorkAccounting
    <2> QED
      BY <2>1, ConfigAssumption DEF RuntimeInv, TypeOK
  <1>b. \A i \in 0 .. QueueSize - 1 :
          NextIndex(i) = IF i + 1 < QueueSize THEN i + 1 ELSE 0
    BY <1>a, IndexOnce DEF NextIndex
  <1>1. ASSUME NEW t \in Tasks, SendAccepted(t) PROVE RingInv'
    <2>1. /\ queueCount < QueueSize
          /\ accepted' = accepted + 1 /\ queueCount' = queueCount + 1
          /\ queue' = [queue EXCEPT ![queueTail] = accepted + 1]
          /\ queueTail' = IF queueTail + 1 < QueueSize THEN queueTail + 1 ELSE 0
          /\ queueHead' = queueHead
      BY <1>a, <1>b, <1>1 DEF SendAccepted, HasCapacity
    <2>2. ASSUME NEW s \in 0 .. QueueSize - 1
          PROVE  queue'[s] = IF Offset(s)' < queueCount'
                             THEN accepted' - queueCount' + 1 + Offset(s)'
                             ELSE NoJob
      <3>1. queue[s] = IF Offset(s) < queueCount
                       THEN accepted - queueCount + 1 + Offset(s) ELSE NoJob
        BY DEF RingInv
      <3>2. s = queueTail <=> Offset(s) = queueCount
        BY <1>a, <2>1 DEF RingInv, Offset
      <3>3. Offset(s)' = Offset(s) /\ Offset(s) \in Nat
        BY <1>a, <2>1 DEF Offset
      <3> QED
        BY <1>a, <2>1, <3>1, <3>2, <3>3
    <2>3. queueTail' = IF queueHead' + queueCount' < QueueSize
                       THEN queueHead' + queueCount'
                       ELSE queueHead' + queueCount' - QueueSize
      BY <1>a, <2>1 DEF RingInv
    <2> QED
      BY <2>2, <2>3 DEF RingInv
  <1>2. CASE PopJob /\ UNCHANGED accepted
    <2>1. /\ queueCount > 0
          /\ queueCount' = queueCount - 1
          /\ queue' = [queue EXCEPT ![queueHead] = NoJob]
          /\ queueHead' = IF queueHead + 1 < QueueSize THEN queueHead + 1 ELSE 0
          /\ UNCHANGED <<queueTail, accepted>>
      BY <1>a, <1>b, <1>2 DEF PopJob, SlotsAfterPop
    <2>2. ASSUME NEW s \in 0 .. QueueSize - 1
          PROVE  queue'[s] = IF Offset(s)' < queueCount'
                             THEN accepted' - queueCount' + 1 + Offset(s)'
                             ELSE NoJob
      <3>1. queue[s] = IF Offset(s) < queueCount
                       THEN accepted - queueCount + 1 + Offset(s) ELSE NoJob
        BY DEF RingInv
      <3>2. CASE s = queueHead
        <4>1. Offset(s)' = QueueSize - 1
          BY <1>a, <2>1, <3>2 DEF Offset
        <4> QED
          BY <1>a, <2>1, <3>2, <4>1
      <3>3. CASE s # queueHead
        <4>1. Offset(s)' = Offset(s) - 1 /\ Offset(s) \in Nat
          BY <1>a, <2>1, <3>3 DEF Offset
        <4> QED
          BY <1>a, <2>1, <3>1, <3>3, <4>1
      <3> QED
        BY <3>2, <3>3
    <2>3. queueTail' = IF queueHead' + queueCount' < QueueSize
                       THEN queueHead' + queueCount'
                       ELSE queueHead' + queueCount' - QueueSize
      BY <1>a, <2>1 DEF RingInv
    <2> QED
      BY <2>2, <2>3 DEF RingInv
  <1>3. CASE RingReset
    <2>1. /\ queueHead' \in Int /\ queueHead' >= 0 /\ queueHead' < QueueSize
          /\ queueCount' \in Int /\ queueCount' <= 0 /\ queueCount' >= 0
          /\ QueueSize \in Int
      BY <1>a, <1>3 DEF RingReset
    <2>2. queueTail' = queueHead'
      BY <1>a, <1>3 DEF RingInv, RingReset
    <2>3. /\ queueHead' + queueCount' < QueueSize
          /\ queueHead' + queueCount' = queueHead'
          /\ \A s \in Int : s >= queueHead' => ~(s - queueHead' < queueCount')
          /\ \A s \in Int :
               s >= 0 => ~(s - queueHead' + QueueSize < queueCount')
      BY ONLY <2>1, EmptyRing
    <2>4. ASSUME NEW s \in 0 .. QueueSize - 1
          PROVE  queue'[s] = NoJob /\ ~(Offset(s)' < queueCount')
      <3>1. queue'[s] = NoJob
        BY <1>3 DEF EmptyQueue, RingReset
      <3>2. CASE s >= queueHead'
        <4>1. Offset(s)' = s - queueHead'
          BY <3>2 DEF Offset
        <4> QED
          BY <2>3, <3>1, <3>2, <4>1
      <3>3. CASE ~(s >= queueHead')
        <4>1. Offset(s)' = s - queueHead' + QueueSize
          BY <3>3 DEF Offset
        <4> QED
          BY <2>3, <3>1, <4>1
      <3> QED
        BY <3>2, <3>3
    <2>5. queueTail' = IF queueHead' + queueCount' < QueueSize
                       THEN queueHead' + queueCount'
                       ELSE queueHead' + queueCount' - QueueSize
      BY <2>2, <2>3
    <2> QED
      BY <2>4, <2>5 DEF RingInv
  <1>4. CASE UNCHANGED <<queueVars, accepted>>
    BY <1>4 DEF queueVars, RingInv, Offset
  <1> QED
    BY <1>1, <1>2, <1>3, <1>4, RingSteps DEF RingMove

\* The ring invariant is the property: the slots counted from the head.
LEMMA RingIsSuffix == RuntimeInv /\ RingInv => QueueIsPendingSuffix
  <1> SUFFICES ASSUME RuntimeInv, RingInv PROVE QueueIsPendingSuffix
    OBVIOUS
  <1>1. /\ QueueSize \in Nat /\ QueueSize > 0
        /\ queueHead \in Nat /\ queueHead < QueueSize
        /\ queueCount \in Nat /\ queueCount <= QueueSize
    BY AccountingTypes, ConfigAssumption DEF RuntimeInv, WorkAccounting, TypeOK
  <1>2. queueTail = (queueHead + queueCount) % QueueSize
    <2>1. CASE queueHead + queueCount < 2 * QueueSize
      BY <1>1, <2>1, IndexOnce DEF RingInv
    <2> QED
      BY <1>1, <2>1
  <1>3. ASSUME NEW i \in 0 .. QueueSize - 1
        PROVE  queue[(queueHead + i) % QueueSize] =
                 IF i < queueCount THEN accepted - queueCount + 1 + i
                                   ELSE NoJob
    <2> DEFINE s == (queueHead + i) % QueueSize
    <2>1. s = IF queueHead + i < QueueSize THEN queueHead + i
              ELSE queueHead + i - QueueSize
      BY <1>1, IndexOnce
    <2> HIDE DEF s
    <2>2. s \in 0 .. QueueSize - 1 /\ Offset(s) = i
      BY <1>1, <2>1 DEF Offset
    <2>3. queue[s] = IF Offset(s) < queueCount
                     THEN accepted - queueCount + 1 + Offset(s) ELSE NoJob
      BY <2>2 DEF RingInv
    <2> QED
      BY <2>2, <2>3 DEF s
  <1> QED
    BY <1>1, <1>2, <1>3 DEF QueueIsPendingSuffix

\* RingInv is inductive over RuntimeInv.
LEMMA RingInvAlways == Spec => [](RuntimeInv /\ RingInv)
  BY RuntimeInvAlways, RingInit, RingStep, PTL DEF Spec

\* In every reachable state the ring holds the accepted jobs that have not been
\* popped, each once and in order, and nothing else.
THEOREM QueueIsPendingSuffixAlways == Spec => []QueueIsPendingSuffix
  BY RingInvAlways, RingIsSuffix, PTL

-----------------------------------------------------------------------------
(* One callback per job, in order *)

\* Appending the next number to an initial segment of the numbers.
LEMMA AppendNext ==
    ASSUME NEW c \in Seq(Nat), c = [i \in 1 .. Len(c) |-> i],
           NEW d, d = Append(c, Len(c) + 1)
    PROVE  d = [i \in 1 .. Len(d) |-> i] /\ Len(d) = Len(c) + 1
  <1>1. Len(c) \in Nat /\ Len(d) = Len(c) + 1 /\ d \in Seq(Nat)
    OBVIOUS
  <1>2. \A i \in 1 .. Len(d) : d[i] = i
    BY <1>1
  <1>3. d = [i \in 1 .. Len(d) |-> d[i]]
    BY <1>1
  <1> QED
    BY <1>1, <1>2, <1>3

\* The job at the head is the one after the last job called back, when the
\* worker has none.
LEMMA PopNext ==
    ASSUME RuntimeInv, RingInv, PopJob, wpc \notin JobSteps
    PROVE  queue[queueHead] = Len(called) + 1 /\ job' = Len(called) + 1
  <1>1. /\ QueueSize \in Nat /\ queueHead \in 0 .. QueueSize - 1
        /\ queueCount \in Nat /\ queueCount > 0
        /\ accepted \in Nat /\ Len(called) \in Nat
    BY AccountingTypes, ConfigAssumption DEF RuntimeInv, TypeOK, PopJob
  <1>2. accepted = Len(called) + queueCount
    <2>1. Unreported = 0
      BY DEF Unreported, CountIf
    <2> QED
      BY <1>1, <2>1 DEF RuntimeInv, WorkAccounting
  <1>3. Offset(queueHead) = 0
    BY <1>1 DEF Offset
  <1>4. queue[queueHead] = accepted - queueCount + 1 + 0
    BY <1>1, <1>3 DEF RingInv
  <1> QED
    BY <1>1, <1>2, <1>4 DEF PopJob

\* No callback has been made initially.
LEMMA OrderInit == Init => ExactlyOnceInOrder
  <1> SUFFICES ASSUME Init PROVE ExactlyOnceInOrder
    OBVIOUS
  <1>1. called = << >> /\ wpc = "none"
    BY DEF Init
  <1>2. called = [i \in 1 .. Len(called) |-> i]
    BY <1>1
  <1> QED
    BY <1>1, <1>2 DEF ExactlyOnceInOrder, JobSteps, Callbacks

\* A step that calls nothing back and hands the worker no job.
LEMMA OrderFrame ==
    ASSUME ExactlyOnceInOrder, UNCHANGED called,
           wpc' \in JobSteps => wpc \in JobSteps /\ UNCHANGED job,
           wpc' \in Callbacks => wpc \in Callbacks /\ UNCHANGED job
    PROVE  ExactlyOnceInOrder'
  BY DEF ExactlyOnceInOrder

\* A step that calls the next job back.
LEMMA OrderReport ==
    ASSUME RuntimeInv, ExactlyOnceInOrder, wpc' \in Callbacks,
           called' = Append(called, Len(called) + 1), job' = Len(called) + 1
    PROVE  ExactlyOnceInOrder'
  <1>1. /\ called' = [i \in 1 .. Len(called') |-> i]
        /\ Len(called') = Len(called) + 1
    BY AppendNext DEF RuntimeInv, TypeOK, ExactlyOnceInOrder
  <1> QED
    BY <1>1 DEF ExactlyOnceInOrder, JobSteps, Callbacks

\* Every step keeps the order.
LEMMA OrderStep ==
    RuntimeInv /\ RingInv /\ ExactlyOnceInOrder /\ [Next]_vars
      => ExactlyOnceInOrder'
  <1> SUFFICES ASSUME RuntimeInv, RingInv, ExactlyOnceInOrder, [Next]_vars
               PROVE  ExactlyOnceInOrder'
    OBVIOUS
  <1> USE DEF vars, allButCalls, implVars, queueVars, rtosVars, taskVars,
              workerVars, jobVars, callVars, ghostVars
  <1>1. CASE WorkerPop
    <2>1. /\ wpc = "pop" /\ PopJob /\ wpc' = "attempt" /\ UNCHANGED called
      BY <1>1 DEF WorkerPop
    <2>2. job' = Len(called) + 1
      BY <2>1, PopNext DEF JobSteps
    <2> QED
      BY <2>1, <2>2 DEF ExactlyOnceInOrder, JobSteps, Callbacks
  <1>2. CASE DrainJob
    <2>1. /\ wpc = "drain" /\ PopJob /\ wpc' = "drainCallback"
          /\ called' = Append(called, queue[queueHead])
      BY <1>2 DEF DrainJob, InvokeCallback
    <2>2. queue[queueHead] = Len(called) + 1 /\ job' = Len(called) + 1
      BY <2>1, PopNext DEF JobSteps
    <2> QED
      BY <2>1, <2>2, OrderReport DEF Callbacks
  <1>3. CASE Finish
    <2>1. /\ wpc = "finish" /\ wpc' = "callback" /\ UNCHANGED job
          /\ called' = Append(called, job)
      BY <1>3 DEF Finish, InvokeCallback
    <2>2. job = Len(called) + 1
      BY <2>1 DEF ExactlyOnceInOrder, JobSteps
    <2> QED
      BY <2>1, <2>2, OrderReport DEF Callbacks
  <1>4. CASE Release
    BY <1>4, OrderFrame DEF Release, JobSteps, Callbacks
  <1>5. CASE \/ WorkerCheck \/ WorkerIdle \/ WorkerWake \/ DrainDone
             \/ WorkerPublish \/ BeginAttempt \/ DeliverOk \/ EncryptFails
             \/ DeliverFails \/ GiveUp \/ Retry \/ RetryWake \/ RetryElapsed
    BY <1>5, OrderFrame
    DEF WorkerCheck, WorkerIdle, WorkerWake, AfterWait, DrainDone,
        WorkerPublish, BeginAttempt, DeliverOk, EncryptFails, DeliverFails,
        GiveUp, Retry, RetryWake, RetryElapsed, ReportAs, JobSteps, Callbacks
  <1>6. ASSUME NEW t \in Tasks, NewCall(t) \/ InCall(t)
        PROVE  ExactlyOnceInOrder'
    <2>1. UNCHANGED <<called, job>>
      BY <1>6
      DEF NewCall, InCall, SendAccepted, SendNotify, InitCall, InitRefused,
          InitFails, InitSucceeds, EndCall, DestroyCall, EndNotInitialized,
          EndBusy, EndPublish, EndNotify, EndTake, EndTimeout, EndReset,
          EndRelease
    <2>2. wpc' \in {wpc, "none", "loop"}
      BY <1>6
      DEF NewCall, InCall, SendAccepted, SendNotify, InitCall, InitRefused,
          InitFails, InitSucceeds, EndCall, DestroyCall, EndNotInitialized,
          EndBusy, EndPublish, EndNotify, EndTake, EndTimeout, EndReset,
          EndRelease
    <2> QED
      BY <2>1, <2>2, OrderFrame DEF JobSteps, Callbacks
  <1>7. CASE UNCHANGED vars
    BY <1>7, OrderFrame
  <1> QED
    BY <1>1, <1>2, <1>3, <1>4, <1>5, <1>6, <1>7
    DEF Next, WorkerStep, Deliver, Destroyed

\* In every reachable state the jobs called back are the first ones accepted,
\* each once and in order, across sessions and shutdowns.
THEOREM ExactlyOnceInOrderAlways == Spec => []ExactlyOnceInOrder
  <1>1. Init => ExactlyOnceInOrder
    BY OrderInit
  <1> QED
    BY <1>1, RingInvAlways, OrderStep, PTL DEF Spec
-----------------------------------------------------------------------------
(* What the worker reports, and after how many attempts *)

\* What a step of an API call may do to the worker: start it, or delete it once
\* it has parked.  A new session begins, and the diagnostics are cleared, only
\* when there is no worker.
LEMMA CallFrame ==
    ASSUME RuntimeInv, NEW t \in Tasks, NewCall(t) \/ InCall(t)
    PROVE  /\ UNCHANGED jobVars
           /\ \/ UNCHANGED wpc
              \/ wpc = "none" /\ wpc' = "loop"
              \/ wpc = "parked" /\ wpc' = "none"
           /\ Stopping => Stopping' \/ wpc = "none"
           /\ \/ /\ diag'.completed = diag.completed
                 /\ diag'.retried = diag.retried
              \/ wpc = "none" /\ diag' = ZeroDiag
  <1> USE DEF vars, allButCalls, implVars, queueVars, rtosVars, taskVars,
              workerVars, jobVars, callVars, ghostVars
  <1>a. diag \in Counters
    BY DEF RuntimeInv, TypeOK
  <1>1. CASE SendAccepted(t)
    BY <1>1, <1>a DEF SendAccepted, Counters, Stopping
  <1>2. CASE InitSucceeds(t)
    BY <1>2 DEF InitSucceeds, ResetCounters, RuntimeInv, Ownership, Stopping
  <1>3. ASSUME NEW point \in FailurePoints, InitFails(t, point)
        PROVE  /\ UNCHANGED <<jobVars, wpc, lifecycle>> /\ wpc = "none"
               /\ UNCHANGED diag \/ diag' = ZeroDiag
    BY <1>3 DEF InitFails, ResetCounters, RuntimeInv, Ownership
  <1>4. CASE EndReset(t)
    BY <1>4 DEF EndReset, RuntimeInv, Ownership, Stopping
  <1>5. CASE EndRelease(t)
    BY <1>5, EndReleaseState DEF EndRelease, Stopping
  <1>6. CASE EndPublish(t)
    BY <1>6 DEF EndPublish, Stopping
  <1>7. CASE \/ SendNotify(t) \/ InitCall(t) \/ InitRefused(t) \/ EndCall(t)
             \/ DestroyCall(t) \/ EndNotInitialized(t) \/ EndBusy(t)
             \/ EndNotify(t) \/ EndTake(t) \/ EndTimeout(t)
    BY <1>7
    DEF SendNotify, InitCall, InitRefused, EndCall, DestroyCall, Stopping,
        EndNotInitialized, EndBusy, EndNotify, EndTake, EndTimeout
  <1>8. (\E point \in FailurePoints : InitFails(t, point)) =>
          /\ UNCHANGED <<jobVars, wpc, lifecycle>> /\ wpc = "none"
          /\ UNCHANGED diag \/ diag' = ZeroDiag
    BY <1>3
  <1>9. CASE \E point \in FailurePoints : InitFails(t, point)
    BY <1>8, <1>9 DEF Stopping
  <1> QED
    BY <1>1, <1>2, <1>4, <1>5, <1>6, <1>7, <1>9 DEF NewCall, InCall

\* What the worker knows of its job.  The attempts that begin are within the
\* limit, so that the retry loop is never left by its condition; a failure is
\* a failure; a job on its way to another attempt is not delivered.
AttemptInv ==
    /\ attempts <= MaxRetries + 1
    /\ wpc \in {"attempt", "delay"} => attempts <= MaxRetries
    /\ wpc \in {"deliver", "decide"} => attempts > 0
    /\ wpc = "decide" => status = "Failed"
    /\ delivered => wpc \notin {"attempt", "deliver", "decide", "delay"}
    /\ ReportIsHonest

\* The retries of the job in the worker's hands that diag.retried has counted;
\* once it is finished, as many as it may have had.
RetriesOfJob ==
    IF wpc \in {"attempt", "delay"} THEN attempts
    ELSE IF wpc \in {"deliver", "decide"} THEN attempts - 1
    ELSE IF wpc \in {"finish"} \cup Callbacks THEN MaxRetries
    ELSE 0

RetriedInv == diag.retried <= MaxRetries * diag.completed + RetriesOfJob

\* No attempt has been made initially.
LEMMA AttemptInit == Init => AttemptInv
  BY ConfigAssumption DEF Init, AttemptInv, ReportIsHonest, Callbacks

\* Every step keeps the report honest and the attempts within the limit.
LEMMA AttemptStep == RuntimeInv /\ AttemptInv /\ [Next]_vars => AttemptInv'
  <1> SUFFICES ASSUME RuntimeInv, AttemptInv, [Next]_vars PROVE AttemptInv'
    OBVIOUS
  <1> USE DEF vars, allButCalls, implVars, queueVars, rtosVars, taskVars,
              workerVars, jobVars, callVars, ghostVars
  <1>a. attempts \in Nat /\ MaxRetries \in Nat
    BY ConfigAssumption DEF RuntimeInv, TypeOK
  <1>1. CASE WorkerPop
    BY <1>1, <1>a DEF WorkerPop, AttemptInv, ReportIsHonest, Callbacks
  <1>2. CASE DrainJob
    BY <1>2, <1>a
    DEF DrainJob, AttemptInv, ReportIsHonest, Callbacks, RuntimeInv, Ownership,
        Stopping
  <1>3. CASE BeginAttempt
    BY <1>3, <1>a
    DEF BeginAttempt, LoopMayContinue, ReportAs, AttemptInv, ReportIsHonest,
        Callbacks, Stopping
  <1>4. CASE Deliver
    BY <1>4
    DEF Deliver, DeliverOk, EncryptFails, DeliverFails, ReportAs, AttemptInv,
        ReportIsHonest, Callbacks
  <1>5. CASE GiveUp
    BY <1>5 DEF GiveUp, AttemptInv, ReportIsHonest, Callbacks
  <1>6. CASE Retry
    BY <1>6 DEF Retry, MayRetry, AttemptInv, ReportIsHonest, Callbacks
  <1>7. CASE RetryWake
    <2>1. "stop" \in notification => Stopping
      BY DEF RuntimeInv, Ownership
    <2> QED
      BY <1>7, <2>1
      DEF RetryWake, ReportAs, AttemptInv, ReportIsHonest, Callbacks, Stopping
  <1>8. CASE RetryElapsed
    BY <1>8
    DEF RetryElapsed, ReportAs, AttemptInv, ReportIsHonest, Callbacks, Stopping
  <1>9. CASE Finish
    BY <1>9
    DEF Finish, FinalStatus, AttemptInv, ReportIsHonest, Callbacks, Stopping
  <1>10. CASE \/ WorkerCheck \/ WorkerIdle \/ WorkerWake \/ DrainDone
              \/ WorkerPublish \/ Release
    BY <1>10
    DEF WorkerCheck, WorkerIdle, WorkerWake, AfterWait, DrainDone,
        WorkerPublish, Release, AttemptInv, ReportIsHonest, Callbacks
  <1>11. ASSUME NEW t \in Tasks, NewCall(t) \/ InCall(t) PROVE AttemptInv'
    BY <1>11, CallFrame DEF AttemptInv, ReportIsHonest, Callbacks
  <1>12. CASE UNCHANGED vars
    BY <1>12 DEF AttemptInv, ReportIsHonest, Callbacks, Stopping
  <1> QED
    BY <1>1, <1>2, <1>3, <1>4, <1>5, <1>6, <1>7, <1>8, <1>9, <1>10, <1>11,
       <1>12
    DEF Next, WorkerStep, Destroyed

\* AttemptInv is inductive over RuntimeInv.
LEMMA AttemptInvAlways == Spec => [](RuntimeInv /\ AttemptInv)
  BY RuntimeInvAlways, AttemptInit, AttemptStep, PTL DEF Spec

\* In every reachable state a callback is told Ok only after a 2xx answer,
\* Cancelled only during a shutdown, and never the fall-through of the loop.
THEOREM ReportIsHonestAlways == Spec => []ReportIsHonest
  <1>1. AttemptInv => ReportIsHonest
    BY DEF AttemptInv
  <1> QED
    BY <1>1, AttemptInvAlways, PTL
\* Initially no retry is counted.
LEMMA RetriedInit == Init => RetriedInv
  <1> SUFFICES ASSUME Init PROVE RetriedInv
    OBVIOUS
  <1>1. diag.retried = 0 /\ diag.completed = 0 /\ RetriesOfJob = 0
    BY DEF Init, ZeroDiag, RetriesOfJob, Callbacks
  <1>2. MaxRetries \in Nat
    BY ConfigAssumption
  <1> QED
    BY <1>1, <1>2 DEF RetriedInv

\* The limit for one more job.
LEMMA OneMoreJob ==
    ASSUME NEW m \in Nat, NEW c \in Nat
    PROVE  m * (c + 1) = m * c + m /\ m * c \in Nat
  OBVIOUS

\* A step that counts neither a retry nor a completion.
LEMMA RetriedFrame ==
    ASSUME RuntimeInv, RetriedInv, RetriesOfJob \in Nat, RetriesOfJob' \in Nat,
           RetriesOfJob <= RetriesOfJob',
           diag'.completed = diag.completed, diag'.retried = diag.retried
    PROVE  RetriedInv'
  <1> DEFINE limit == MaxRetries * diag.completed
  <1>1. limit \in Nat /\ diag.retried \in Nat
    BY ConfigAssumption, OneMoreJob DEF RuntimeInv, TypeOK, Counters
  <1>2. limit' = limit
    OBVIOUS
  <1>3. diag.retried <= limit + RetriesOfJob
    BY DEF RetriedInv
  <1> HIDE DEF limit
  <1>4. diag'.retried <= limit' + RetriesOfJob'
    BY <1>1, <1>2, <1>3
  <1> QED
    BY <1>4 DEF RetriedInv, limit

\* Every step keeps the count of the retries within the limit.
LEMMA RetriedStep ==
    RuntimeInv /\ AttemptInv /\ RetriedInv /\ [Next]_vars => RetriedInv'
  <1> SUFFICES ASSUME RuntimeInv, AttemptInv, RetriedInv, [Next]_vars
               PROVE  RetriedInv'
    OBVIOUS
  <1> USE DEF vars, allButCalls, implVars, queueVars, rtosVars, taskVars,
              workerVars, jobVars, callVars, ghostVars
  <1>a. /\ attempts \in Nat /\ MaxRetries \in Nat /\ diag \in Counters
        /\ diag.retried \in Nat /\ diag.completed \in Nat
    BY ConfigAssumption DEF RuntimeInv, TypeOK, Counters
  <1>b. attempts <= MaxRetries + 1
    BY DEF AttemptInv
  <1>c. RetriesOfJob \in Nat
    BY <1>a DEF RetriesOfJob, AttemptInv
  <1>d. diag.retried <= MaxRetries * diag.completed + RetriesOfJob
    BY DEF RetriedInv
  <1>1. CASE UNCHANGED diag /\ RetriesOfJob' \in Nat
             /\ RetriesOfJob <= RetriesOfJob'
    BY <1>1, <1>c, RetriedFrame
  <1>2. CASE WorkerPop \/ DrainJob
    <2>1. UNCHANGED diag /\ RetriesOfJob = 0 /\ RetriesOfJob' \in Nat
      BY <1>2, <1>a
      DEF WorkerPop, DrainJob, RetriesOfJob, Callbacks
    <2> QED
      BY <1>1, <2>1
  <1>3. CASE BeginAttempt
    <2>1. UNCHANGED diag /\ RetriesOfJob = attempts
      BY <1>3 DEF BeginAttempt, RetriesOfJob
    <2>2. attempts <= MaxRetries /\ attempts' = attempts + 1
      BY <1>3, <1>a DEF BeginAttempt, LoopMayContinue, AttemptInv
    <2>3. RetriesOfJob' = IF wpc' = "deliver" THEN attempts ELSE MaxRetries
      BY <1>3, <1>a, <2>2
      DEF BeginAttempt, LoopMayContinue, ReportAs, RetriesOfJob
    <2> QED
      BY <1>1, <1>a, <2>1, <2>2, <2>3
  <1>4. CASE Deliver \/ GiveUp \/ RetryWake \/ RetryElapsed \/ Finish
    <2>1. UNCHANGED <<diag, attempts>>
      BY <1>4
      DEF Deliver, DeliverOk, EncryptFails, DeliverFails, GiveUp, RetryWake,
          RetryElapsed, Finish
    <2>2. \/ wpc = "deliver" /\ wpc' \in {"decide", "finish"}
          \/ wpc = "decide" /\ wpc' = "finish"
          \/ wpc = "delay" /\ wpc' \in {"delay", "attempt", "finish"}
          \/ wpc = "finish" /\ wpc' = "callback"
      BY <1>4
      DEF Deliver, DeliverOk, EncryptFails, DeliverFails, GiveUp, RetryWake,
          RetryElapsed, Finish, ReportAs
    <2>3. /\ wpc \in {"deliver", "decide"} => attempts > 0
          /\ wpc = "delay" => attempts <= MaxRetries
      BY DEF AttemptInv
    <2>4. RetriesOfJob' \in Nat /\ RetriesOfJob <= RetriesOfJob'
      BY <1>a, <1>b, <2>1, <2>2, <2>3 DEF RetriesOfJob, Callbacks
    <2> QED
      BY <1>1, <2>1, <2>4
  <1>5. CASE Retry
    <2>1. /\ diag'.retried = diag.retried + 1
          /\ diag'.completed = diag.completed
      BY <1>5, <1>a DEF Retry, Counters
    <2>2. RetriesOfJob = attempts - 1 /\ RetriesOfJob' = attempts
      BY <1>5 DEF Retry, RetriesOfJob
    <2>3. MaxRetries * diag.completed \in Nat
      BY <1>a, OneMoreJob
    <2>4. diag'.retried <= MaxRetries * diag.completed + attempts
      BY <1>a, <1>d, <2>1, <2>2, <2>3
    <2> QED
      BY <2>1, <2>2, <2>4 DEF RetriedInv
  <1>6. CASE Release
    <2>1. RetriesOfJob = MaxRetries /\ RetriesOfJob' = 0
      BY <1>6 DEF Release, RetriesOfJob, Callbacks
    <2>2. /\ diag'.retried = diag.retried
          /\ diag'.completed = diag.completed + 1
      BY <1>6 DEF Release, RecordCompletion
    <2>3. MaxRetries * diag'.completed
            = MaxRetries * diag.completed + MaxRetries
      BY <1>a, <2>2, OneMoreJob
    <2>4. MaxRetries * diag.completed \in Nat
      BY <1>a, OneMoreJob
    <2>5. diag'.retried <= MaxRetries * diag'.completed + RetriesOfJob'
      BY <1>a, <1>d, <2>1, <2>2, <2>3, <2>4
    <2> QED
      BY <2>5 DEF RetriedInv
  <1>7. CASE \/ WorkerCheck \/ WorkerIdle \/ WorkerWake \/ DrainDone
             \/ WorkerPublish
    <2>1. UNCHANGED diag /\ RetriesOfJob = 0 /\ RetriesOfJob' = 0
      BY <1>7
      DEF WorkerCheck, WorkerIdle, WorkerWake, AfterWait, DrainDone,
          WorkerPublish, RetriesOfJob, Callbacks
    <2> QED
      BY <1>1, <2>1
  <1>8. ASSUME NEW t \in Tasks, NewCall(t) \/ InCall(t) PROVE RetriedInv'
    <2>1. RetriesOfJob' = RetriesOfJob
      BY <1>8, CallFrame DEF RetriesOfJob, Callbacks
    <2>2. CASE /\ diag'.completed = diag.completed
               /\ diag'.retried = diag.retried
      BY <1>c, <2>1, <2>2, RetriedFrame
    <2>3. CASE wpc = "none" /\ diag' = ZeroDiag
      <3>1. /\ diag'.retried = 0 /\ diag'.completed = 0
            /\ RetriesOfJob' = 0
        BY <2>1, <2>3 DEF ZeroDiag, RetriesOfJob, Callbacks
      <3> QED
        BY <1>a, <3>1 DEF RetriedInv
    <2> QED
      BY <1>8, <2>2, <2>3, CallFrame
  <1>9. CASE UNCHANGED vars
    BY <1>9 DEF RetriedInv, RetriesOfJob
  <1> QED
    BY <1>2, <1>3, <1>4, <1>5, <1>6, <1>7, <1>8, <1>9
    DEF Next, WorkerStep, Destroyed

\* A job has at most the configured retries, finished or not.
LEMMA RetriedIsBounded ==
    RuntimeInv /\ AttemptInv /\ RetriedInv => NoExtraAttempt
  <1> SUFFICES ASSUME RuntimeInv, AttemptInv, RetriedInv PROVE NoExtraAttempt
    OBVIOUS
  <1>a. /\ attempts \in Nat /\ MaxRetries \in Nat /\ diag.retried \in Nat
        /\ diag.completed \in Nat
    BY ConfigAssumption DEF RuntimeInv, TypeOK, Counters
  <1>b. /\ MaxRetries * diag.completed \in Nat
        /\ MaxRetries * (diag.completed + 1)
             = MaxRetries * diag.completed + MaxRetries
    BY <1>a, OneMoreJob
  <1>c. diag.retried <= MaxRetries * diag.completed + RetriesOfJob
    BY DEF RetriedInv
  <1>1. CASE wpc \in JobSteps \cup Callbacks
    <2>1. Active = 1
      BY <1>1 DEF Active, CountIf
    <2>2. RetriesOfJob \in Int /\ RetriesOfJob <= MaxRetries
      BY <1>a DEF RetriesOfJob, AttemptInv
    <2> QED
      BY <1>a, <1>b, <1>c, <2>1, <2>2 DEF NoExtraAttempt, AttemptInv
  <1>2. CASE wpc \notin JobSteps \cup Callbacks
    <2>1. Active = 0 /\ RetriesOfJob = 0
      BY <1>2 DEF Active, CountIf, RetriesOfJob, JobSteps, Callbacks
    <2>2. diag.completed + Active = diag.completed
      BY <1>a, <2>1
    <2>3. diag.retried <= MaxRetries * (diag.completed + Active)
      BY <1>a, <1>b, <1>c, <2>1, <2>2
    <2> QED
      BY <2>3 DEF NoExtraAttempt, AttemptInv
  <1> QED
    BY <1>1, <1>2

\* In every reachable state a delivered push is not on its way to another
\* attempt and no job has had more than the configured retries.
THEOREM NoExtraAttemptAlways == Spec => []NoExtraAttempt
  BY AttemptInvAlways, RetriedInit, RetriedStep, RetriedIsBounded, PTL DEF Spec
-----------------------------------------------------------------------------
(* No wake-up is lost *)

\* Somebody is about to notify the worker of an accepted job...
WorkOnItsWay == \E t \in Tasks : pc[t] = "notify" /\ handle[t] = task

\* ...or of the shutdown, or has done so.
StopOnItsWay ==
    "stop" \in notification \/ \E t \in Callers : pc[t] = "endNotify"

\* NoLostWakeup from the moment the worker has found nothing to do: a Stop
\* that comes between this and xTaskNotifyWait() waits for it in the word.
WakeInv ==
    /\ wpc = "wait" /\ queueCount > 0 => notification # {} \/ WorkOnItsWay
    /\ wpc \in {"pop", "wait", "delay"} /\ Stopping => StopOnItsWay

\* The worker is not there initially.
LEMMA WakeInit == Init => WakeInv
  BY DEF Init, WakeInv

\* Every step keeps the wake-up coming.
LEMMA WakeStep == RuntimeInv /\ WakeInv /\ [Next]_vars => WakeInv'
  <1> SUFFICES ASSUME RuntimeInv, WakeInv, [Next]_vars PROVE WakeInv'
    OBVIOUS
  <1> USE DEF vars, allButCalls, implVars, queueVars, rtosVars, taskVars,
              workerVars, jobVars, callVars, ghostVars
  <1>a. /\ pc \in [Tasks -> CallSteps] /\ handle \in [Tasks -> Nat]
        /\ Callers \subseteq Tasks /\ queueCount \in Nat
    BY DEF RuntimeInv, TypeOK, Tasks
  <1>b. /\ lifecycle = "Uninitialized" => wpc = "none"
        /\ wpc # "none" => task # NoTask
        /\ \A t \in Tasks : pc[t] = "endRelease" => wpc = "none"
        /\ \A t \in Tasks : pc[t] \in EndSteps => t # Worker
    BY DEF RuntimeInv, Ownership
  <1>c. \A t \in Tasks : t # Worker => t \in Callers
    BY DEF Tasks
  <1>1. ASSUME NEW t \in Tasks, SendAccepted(t) PROVE WakeInv'
    <2>1. /\ lifecycle = "Running"
          /\ UNCHANGED <<lifecycle, wpc, task>>
          /\ handle' = [handle EXCEPT ![t] = task]
          /\ task # NoTask => pc' = [pc EXCEPT ![t] = "notify"]
      BY <1>1 DEF SendAccepted, Goto
    <2>2. ASSUME wpc = "wait" PROVE WorkOnItsWay'
      <3>1. task # NoTask
        BY <1>b, <2>2
      <3> QED
        BY <1>a, <2>1, <3>1 DEF WorkOnItsWay
    <2> QED
      BY <2>1, <2>2 DEF WakeInv, Stopping
  <1>2. ASSUME NEW t \in Tasks, SendNotify(t) PROVE WakeInv'
    <2>1. /\ pc[t] = "notify" /\ UNCHANGED <<lifecycle, wpc, task, queueCount>>
          /\ handle' = [handle EXCEPT ![t] = NoTask]
          /\ pc' = [pc EXCEPT ![t] = "idle"]
          /\ \/ notification' = notification \cup {"work"}
             \/ handle[t] # task /\ UNCHANGED notification
      BY <1>2 DEF SendNotify, Goto
    <2>2. StopOnItsWay => StopOnItsWay'
      BY <1>a, <2>1 DEF StopOnItsWay
    <2>3. notification # {} \/ WorkOnItsWay
            => notification' # {} \/ WorkOnItsWay'
      BY <1>a, <2>1 DEF WorkOnItsWay
    <2> QED
      BY <2>1, <2>2, <2>3 DEF WakeInv, Stopping
  <1>3. ASSUME NEW t \in Tasks, EndNotify(t) PROVE WakeInv'
    <2>1. "stop" \in notification' /\ UNCHANGED <<wpc, queueCount>>
      BY <1>3 DEF EndNotify, StopBits
    <2> QED
      BY <2>1 DEF WakeInv, StopOnItsWay
  <1>4. ASSUME NEW t \in Tasks, EndPublish(t) PROVE WakeInv'
    <2>1. /\ pc[t] = "end" /\ t \in Callers
          /\ pc' = [pc EXCEPT ![t] = "endNotify"]
          /\ handle' = [handle EXCEPT ![t] = task]
          /\ UNCHANGED <<wpc, queueCount, task, notification>>
      BY <1>4, <1>c DEF EndPublish, Goto, IsWorker
    <2>2. StopOnItsWay'
      BY <1>a, <2>1 DEF StopOnItsWay
    <2>3. WorkOnItsWay => WorkOnItsWay'
      BY <1>a, <2>1 DEF WorkOnItsWay
    <2> QED
      BY <2>1, <2>2, <2>3 DEF WakeInv
  <1>5. ASSUME NEW t \in Tasks,
               \/ InitSucceeds(t) \/ EndReset(t) \/ EndRelease(t)
               \/ \E point \in FailurePoints : InitFails(t, point)
        PROVE  WakeInv'
    <2>1. wpc' \in {"loop", "none"}
      BY <1>5, <1>b DEF InitSucceeds, EndReset, EndRelease, InitFails
    <2> QED
      BY <2>1 DEF WakeInv
  <1>6. ASSUME NEW t \in Tasks,
               \/ InitCall(t) \/ InitRefused(t) \/ EndCall(t)
               \/ DestroyCall(t) \/ EndNotInitialized(t) \/ EndBusy(t)
               \/ EndTake(t) \/ EndTimeout(t)
        PROVE  WakeInv'
    <2>1. /\ pc[t] \notin {"notify", "endNotify"}
          /\ UNCHANGED <<lifecycle, wpc, queueCount, task, notification>>
          /\ \A u \in Tasks \ {t} : pc'[u] = pc[u] /\ handle'[u] = handle[u]
      BY <1>6, <1>a
      DEF InitCall, InitRefused, EndCall, DestroyCall, EndNotInitialized,
          EndBusy, EndTake, EndTimeout, MayCall, Goto
    <2>2. StopOnItsWay => StopOnItsWay'
      BY <1>a, <2>1 DEF StopOnItsWay
    <2>3. WorkOnItsWay => WorkOnItsWay'
      BY <2>1 DEF WorkOnItsWay
    <2> QED
      BY <2>1, <2>2, <2>3 DEF WakeInv, Stopping
  <1>7. CASE WorkerCheck \/ Retry
    <2>1. wpc' \notin {"wait", "none"} /\ UNCHANGED lifecycle
          /\ (wpc' \in {"pop", "delay"} => ~Stopping)
      BY <1>7 DEF WorkerCheck, Retry, MayRetry
    <2> QED
      BY <2>1 DEF WakeInv, Stopping
  <1>8. CASE WorkerIdle
    BY <1>8
    DEF WorkerIdle, ClearOnEntry, NothingToPop, WakeInv, Stopping,
        StopOnItsWay
  <1>9. CASE RetryWake
    BY <1>9 DEF RetryWake, ReportAs, WakeInv, Stopping
  <1>10. CASE \/ WorkerPop \/ WorkerWake \/ DrainJob \/ DrainDone
              \/ WorkerPublish \/ BeginAttempt \/ Deliver \/ GiveUp
              \/ RetryElapsed \/ Finish \/ Release
    <2>1. wpc' \notin {"pop", "wait", "delay"}
      BY <1>10
      DEF WorkerPop, WorkerWake, AfterWait, DrainJob, DrainDone,
          WorkerPublish, BeginAttempt, Deliver, DeliverOk, EncryptFails,
          DeliverFails, ReportAs, GiveUp, RetryElapsed, Finish, Release
    <2> QED
      BY <2>1 DEF WakeInv
  <1>11. CASE UNCHANGED vars
    BY <1>11 DEF WakeInv, WorkOnItsWay, StopOnItsWay, Stopping
  <1> QED
    BY <1>1, <1>2, <1>3, <1>4, <1>5, <1>6, <1>7, <1>8, <1>9, <1>10, <1>11
    DEF Next, NewCall, InCall, WorkerStep, Destroyed

\* In every reachable state a worker that sleeps with something to do has been
\* notified or is about to be.
THEOREM NoLostWakeupAlways == Spec => []NoLostWakeup
  <1>1. WakeInv => NoLostWakeup
    BY DEF WakeInv, NoLostWakeup, WorkOnItsWay, StopOnItsWay
  <1> QED
    BY <1>1, RuntimeInvAlways, WakeInit, WakeStep, PTL DEF Spec

-----------------------------------------------------------------------------
(* Nothing is left when the destructor has returned *)

\* The worker is in a call only from a callback; when the destructor has begun
\* no other task of the application is in a call; when it has returned there
\* is nothing left.
DestroyInv ==
    /\ pc[Worker] # "idle" => wpc \in Callbacks
    /\ pc[Worker] # "gone"
    /\ destroyer # Nobody => \A t \in Callers \ {destroyer} : pc[t] = "idle"
    /\ \A t \in Callers :
         pc[t] = "gone" => destroyer = t /\ lifecycle = "Uninitialized"

\* No task is in a call initially.
LEMMA DestroyInit == Init => DestroyInv
  BY DEF Init, DestroyInv, Tasks

\* Every step keeps the calls apart from the destructor.
LEMMA DestroyStep == RuntimeInv /\ DestroyInv /\ [Next]_vars => DestroyInv'
  <1> SUFFICES ASSUME RuntimeInv, DestroyInv, [Next]_vars PROVE DestroyInv'
    OBVIOUS
  <1> USE DEF vars, allButCalls, implVars, queueVars, rtosVars, taskVars,
              workerVars, jobVars, callVars, ghostVars
  <1>a. /\ pc \in [Tasks -> CallSteps] /\ Worker \in Tasks
        /\ Callers \subseteq Tasks /\ Worker \notin Callers
        /\ destroyer \in Callers \cup {Nobody} /\ Nobody # Worker
        /\ Nobody \notin Tasks
    BY TasksAssumption DEF RuntimeInv, TypeOK, Tasks
  <1>b. /\ lifecycle = "Uninitialized" => wpc = "none"
        /\ \A t \in Tasks : pc[t] \in EndSteps =>
             t # Worker /\ lifecycle # "Uninitialized"
        /\ \A t \in Tasks : pc[t] = "endReset" => wpc = "parked"
    BY <1>a DEF RuntimeInv, Ownership, Stopping
  <1>c. \A t \in Tasks : pc[t] # "idle" =>
          /\ t = Worker => wpc \in Callbacks
          /\ t # Worker => destroyer \in {t, Nobody}
    BY <1>a DEF DestroyInv, Tasks
  <1>1. ASSUME NEW t \in Tasks,
               SendAccepted(t) \/ InitCall(t) \/ EndCall(t)
        PROVE  DestroyInv'
    <2>1. /\ pc[t] = "idle"
          /\ t = Worker => wpc \in Callbacks
          /\ t # Worker => destroyer = Nobody
          /\ \E step \in {"idle", "notify", "init", "end"} :
               pc' = [pc EXCEPT ![t] = step]
          /\ UNCHANGED <<lifecycle, wpc, destroyer>>
      BY <1>1 DEF SendAccepted, InitCall, EndCall, MayCall, Goto
    <2> QED
      BY <1>a, <2>1 DEF DestroyInv
  <1>2. ASSUME NEW t \in Tasks, DestroyCall(t) PROVE DestroyInv'
    <2>1. /\ t \in Callers /\ \A u \in Callers : pc[u] = "idle"
          /\ destroyer' = t /\ pc' = [pc EXCEPT ![t] = "end"]
          /\ UNCHANGED <<lifecycle, wpc>>
      BY <1>2 DEF DestroyCall, Goto
    <2> QED
      BY <1>a, <2>1 DEF DestroyInv
  <1>3. ASSUME NEW t \in Tasks,
               \/ SendNotify(t) \/ InitRefused(t) \/ EndBusy(t)
               \/ EndPublish(t) \/ EndNotify(t) \/ EndTake(t) \/ EndTimeout(t)
               \/ \E point \in FailurePoints : InitFails(t, point)
        PROVE  DestroyInv'
    <2>1. /\ pc[t] \notin {"idle", "gone"}
          /\ \E step \in CallSteps \ {"gone"} :
               pc' = [pc EXCEPT ![t] = step] /\ (t = Worker => step = "idle")
      BY <1>3, <1>b
      DEF SendNotify, InitRefused, EndBusy, EndPublish, EndNotify, EndTake,
          EndTimeout, AfterTimeout, InitFails, IsWorker, Goto, EndSteps,
          CallSteps
    <2>2. /\ UNCHANGED <<wpc, destroyer>>
          /\ lifecycle = "Uninitialized" => lifecycle' = lifecycle
      BY <1>3
      DEF SendNotify, InitRefused, EndBusy, EndPublish, EndNotify, EndTake,
          EndTimeout, InitFails
    <2> QED
      BY <1>a, <1>c, <2>1, <2>2 DEF DestroyInv
  <1>4. ASSUME NEW t \in Tasks, InitSucceeds(t) PROVE DestroyInv'
    <2>1. /\ pc[t] = "init" /\ lifecycle = "Uninitialized"
          /\ pc' = [pc EXCEPT ![t] = "idle"] /\ UNCHANGED destroyer
      BY <1>4 DEF InitSucceeds, Goto
    <2>2. t # Worker /\ pc[Worker] = "idle"
      BY <1>b, <1>c, <2>1 DEF DestroyInv, Callbacks
    <2>3. \A u \in Callers : pc[u] # "gone"
      BY <1>a, <1>c, <2>1, <2>2 DEF DestroyInv
    <2> QED
      BY <1>a, <1>c, <2>1, <2>2, <2>3 DEF DestroyInv
  <1>5. ASSUME NEW t \in Tasks, EndNotInitialized(t) \/ EndRelease(t)
        PROVE  DestroyInv'
    <2>1. /\ pc[t] \in {"end", "endRelease"}
          /\ pc' = [pc EXCEPT ![t] = AfterEnd(t)]
          /\ lifecycle' = "Uninitialized" /\ UNCHANGED <<wpc, destroyer>>
      BY <1>5 DEF EndNotInitialized, EndRelease, Goto
    <2>2. /\ AfterEnd(t) \in {"idle", "gone"}
          /\ AfterEnd(t) = "gone" => destroyer = t
          /\ t = Worker => AfterEnd(t) = "idle"
      BY <1>a DEF AfterEnd
    <2> QED
      BY <1>a, <1>c, <2>1, <2>2 DEF DestroyInv
  <1>6. ASSUME NEW t \in Tasks, EndReset(t) PROVE DestroyInv'
    <2>1. /\ pc[t] = "endReset" /\ pc' = [pc EXCEPT ![t] = "endRelease"]
          /\ UNCHANGED <<lifecycle, destroyer>>
      BY <1>6 DEF EndReset, Goto
    <2>2. t # Worker /\ pc[Worker] = "idle"
      BY <1>b, <2>1 DEF DestroyInv, Callbacks, EndSteps
    <2> QED
      BY <1>a, <1>c, <2>1, <2>2 DEF DestroyInv
  <1>7. CASE Release
    BY <1>7 DEF Release, DestroyInv
  <1>8. CASE WorkerStep /\ ~Release
    <2>1. UNCHANGED <<pc, destroyer, lifecycle>>
      BY <1>8
      DEF WorkerStep, WorkerCheck, WorkerPop, WorkerIdle, WorkerWake, DrainJob,
          DrainDone, WorkerPublish, BeginAttempt, Deliver, DeliverOk,
          EncryptFails, DeliverFails, GiveUp, Retry, RetryWake, RetryElapsed,
          Finish
    <2>2. wpc \notin Callbacks
      BY <1>8
      DEF WorkerStep, WorkerCheck, WorkerPop, WorkerIdle, WorkerWake, DrainJob,
          DrainDone, WorkerPublish, BeginAttempt, Deliver, DeliverOk,
          EncryptFails, DeliverFails, GiveUp, Retry, RetryWake, RetryElapsed,
          Finish, Callbacks
    <2> QED
      BY <2>1, <2>2 DEF DestroyInv
  <1>9. CASE UNCHANGED vars
    BY <1>9 DEF DestroyInv
  <1> QED
    BY <1>1, <1>2, <1>3, <1>4, <1>5, <1>6, <1>7, <1>8, <1>9
    DEF Next, NewCall, InCall, Destroyed

\* In every reachable state, once the destructor has returned nothing of the
\* object exists and no call into it is in progress.
THEOREM DestroyedIsQuietAlways == Spec => []DestroyedIsQuiet
  <1>1. RuntimeInv /\ DestroyInv => DestroyedIsQuiet
    <2> SUFFICES ASSUME RuntimeInv, DestroyInv,
                        NEW t \in Callers, pc[t] = "gone"
                 PROVE  /\ lifecycle = "Uninitialized" /\ task = NoTask
                        /\ allocated = {}
                        /\ \A u \in Tasks : pc[u] \in {"idle", "gone"}
      BY DEF DestroyedIsQuiet
    <2>1. /\ lifecycle = "Uninitialized" /\ destroyer = t /\ t # Nobody
      BY TasksAssumption DEF DestroyInv
    <2>2. task = NoTask /\ allocated = {} /\ wpc = "none"
      BY <2>1 DEF RuntimeInv, Ownership
    <2>3. pc[Worker] = "idle"
      BY <2>2 DEF DestroyInv, Callbacks
    <2> QED
      BY <2>1, <2>2, <2>3 DEF DestroyInv, Tasks
  <1> QED
    BY <1>1, RuntimeInvAlways, DestroyInit, DestroyStep, PTL DEF Spec
=============================================================================
