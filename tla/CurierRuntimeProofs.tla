------------------------ MODULE CurierRuntimeProofs ------------------------
(***************************************************************************)
(* Theorems about CurierRuntime for every set of callers, every queue size,*)
(* every retry limit and every bound.                                      *)
(***************************************************************************)
EXTENDS CurierRuntime, TLAPS

\* The ring index stays inside the ring: popJob() and enqueueLocked() advance
\* the head and the tail with it.
LEMMA NextIndexInRing ==
    ASSUME NEW i \in Nat
    PROVE  NextIndex(i) \in 0 .. QueueSize - 1
  BY ConfigAssumption DEF NextIndex

\* A pc update keeps the type of pc.
LEMMA GotoType ==
    ASSUME NEW t \in Tasks, NEW step \in CallSteps,
           pc \in [Tasks -> CallSteps], Goto(t, step)
    PROVE  pc' \in [Tasks -> CallSteps]
  BY DEF Goto

USE DEF NoJob, NoTask

\* Every variable has its type in the initial state.
LEMMA TypeInit == Init => TypeOK
  <1> SUFFICES ASSUME Init PROVE TypeOK
    OBVIOUS
  <1>1. queue \in [0 .. QueueSize - 1 -> Nat] /\ 0 \in 0 .. QueueSize - 1
    BY ConfigAssumption DEF Init, EmptyQueue
  <1>2. diag \in Counters
    BY DEF Init, Counters, ZeroDiag
  <1>3. pc \in [Tasks -> CallSteps] /\ handle \in [Tasks -> Nat]
    BY DEF Init, CallSteps
  <1>4. called \in Seq(Nat)
    BY DEF Init
  <1> QED
    BY <1>1, <1>2, <1>3, <1>4
    DEF Init, TypeOK, Lifecycles, WorkerSteps, Statuses

\* popJob() moves a job out of a ring slot.
LEMMA PopType ==
    ASSUME TypeOK, PopJob
    PROVE  /\ queue' \in [0 .. QueueSize - 1 -> Nat]
           /\ queueHead' \in 0 .. QueueSize - 1
           /\ queueTail' \in 0 .. QueueSize - 1
           /\ queueCount' \in Nat
           /\ queueCount' = queueCount - 1
           /\ job' \in Nat
  <1>1. queueHead' \in 0 .. QueueSize - 1
    BY NextIndexInRing DEF TypeOK, PopJob
  <1>2. queue' \in [0 .. QueueSize - 1 -> Nat]
    BY DEF TypeOK, PopJob, SlotsAfterPop
  <1> QED
    BY <1>1, <1>2 DEF TypeOK, PopJob

\* Appending a job to the callbacks made so far.
LEMMA CallbackType ==
    ASSUME NEW j \in Nat, called \in Seq(Nat), InvokeCallback(j)
    PROVE  called' \in Seq(Nat) /\ Len(called') = Len(called) + 1
  BY DEF InvokeCallback

\* recordCompletion() counts one job as done and gives its place back.
LEMMA CompletionType ==
    ASSUME diag \in Counters, inFlight \in Nat, RecordCompletion
    PROVE  /\ diag' \in Counters
           /\ inFlight' \in Nat
           /\ inFlight > 0 => inFlight' = inFlight - 1
           /\ diag'.enqueued = diag.enqueued
           /\ diag'.completed = diag.completed + 1
           /\ diag'.succeeded + diag'.failed
                = diag.succeeded + diag.failed + 1
           /\ diag'.failed - diag'.cancelled >= diag.failed - diag.cancelled
  <1>1. inFlight' \in Nat /\ (inFlight > 0 => inFlight' = inFlight - 1)
    BY DEF RecordCompletion, InFlightAfterJob
  <1> DEFINE ok == CountIf(status = "Ok")
             other == CountIf(status # "Ok")
             cancelled == CountIf(status = "Cancelled")
  <1>2. /\ ok \in Nat /\ other \in Nat /\ cancelled \in Nat
        /\ ok + other = 1 /\ cancelled <= other
    BY DEF CountIf
  <1>3. diag' = [enqueued |-> diag.enqueued,
                 completed |-> diag.completed + 1,
                 succeeded |-> diag.succeeded + ok,
                 failed |-> diag.failed + other,
                 cancelled |-> diag.cancelled + cancelled,
                 retried |-> diag.retried]
    BY DEF RecordCompletion
  <1> HIDE DEF ok, other, cancelled
  <1>4. diag' \in Counters
    BY <1>2, <1>3 DEF Counters
  <1>5. /\ diag'.enqueued = diag.enqueued
        /\ diag'.completed = diag.completed + 1
        /\ diag'.succeeded = diag.succeeded + ok
        /\ diag'.failed = diag.failed + other
        /\ diag'.cancelled = diag.cancelled + cancelled
    BY <1>2, <1>3 DEF Counters
  <1>6. diag.succeeded \in Nat /\ diag.failed \in Nat /\ diag.cancelled \in Nat
    BY DEF Counters
  <1> QED
    BY <1>1, <1>2, <1>4, <1>5, <1>6

\* Every step keeps the types.
LEMMA TypeStep == TypeOK /\ [Next]_vars => TypeOK'
  <1> SUFFICES ASSUME TypeOK, [Next]_vars PROVE TypeOK'
    OBVIOUS
  <1>0. diag \in Counters
    BY DEF TypeOK
  <1> USE DEF vars, allButCalls, implVars, queueVars, rtosVars,
              taskVars, workerVars, jobVars, callVars, ghostVars
  <1>1. ASSUME NEW t \in Tasks, SendAccepted(t) PROVE TypeOK'
    <2>1. diag' \in Counters
      BY <1>0, <1>1 DEF SendAccepted, Counters
    <2>2. accepted' \in Nat /\ queueCount' \in Nat /\ inFlight' \in Nat
      <3>1. /\ accepted' = accepted + 1 /\ queueCount' = queueCount + 1
            /\ inFlight' = inFlight + 1
        BY <1>1 DEF SendAccepted
      <3> QED
        BY <3>1 DEF TypeOK
    <2>3. queue' \in [0 .. QueueSize - 1 -> Nat]
      BY <1>1, <2>2 DEF TypeOK, SendAccepted
    <2>4. queueTail' \in 0 .. QueueSize - 1
      <3>1. queueTail \in Nat
        BY DEF TypeOK
      <3> QED
        BY <1>1, <3>1, NextIndexInRing DEF SendAccepted
    <2>5. pc' \in [Tasks -> CallSteps] /\ handle' \in [Tasks -> Nat]
      BY <1>1 DEF TypeOK, SendAccepted, Goto, CallSteps
    <2>6. UNCHANGED <<lifecycle, allocated, queueHead, rtosVars, workerVars,
                      destroyer, called>>
      BY <1>1 DEF SendAccepted
    <2> QED
      BY <2>1, <2>2, <2>3, <2>4, <2>5, <2>6 DEF TypeOK
  <1>2. ASSUME NEW t \in Tasks, SendNotify(t) PROVE TypeOK'
    BY <1>2 DEF TypeOK, SendNotify, Goto, CallSteps
  <1>3. ASSUME NEW t \in Tasks, InitCall(t) PROVE TypeOK'
    BY <1>3 DEF TypeOK, InitCall, Goto, CallSteps
  <1>4. ASSUME NEW t \in Tasks, InitRefused(t) PROVE TypeOK'
    BY <1>4 DEF TypeOK, InitRefused, Goto, CallSteps
  <1>5. ASSUME NEW t \in Tasks, InitSucceeds(t) PROVE TypeOK'
    <2>1. diag' \in Counters
      BY <1>5 DEF InitSucceeds, ResetCounters, ZeroDiag, Counters
    <2>2. queue' \in [0 .. QueueSize - 1 -> Nat]
      BY <1>5 DEF InitSucceeds, EmptyQueue
    <2>3. pc' \in [Tasks -> CallSteps] /\ 0 \in 0 .. QueueSize - 1
      BY <1>5, ConfigAssumption DEF TypeOK, InitSucceeds, Goto, CallSteps
    <2>4. /\ created' \in Nat /\ task' \in Nat
          /\ queueHead' \in 0 .. QueueSize - 1
          /\ queueTail' \in 0 .. QueueSize - 1
          /\ queueCount' \in Nat /\ inFlight' \in Nat
      BY <1>5, <2>3 DEF TypeOK, InitSucceeds, ResetCounters
    <2>5. /\ lifecycle' \in Lifecycles /\ wpc' \in WorkerSteps
          /\ allocated' \in SUBSET Resources /\ signal' \in BOOLEAN
          /\ notification' \in SUBSET {"work", "stop"}
      BY <1>5 DEF InitSucceeds, Lifecycles, WorkerSteps
    <2>6. UNCHANGED <<lifecycleOwner, jobVars, handle, destroyer, ghostVars>>
      BY <1>5 DEF InitSucceeds
    <2> QED
      BY <2>1, <2>2, <2>3, <2>4, <2>5, <2>6 DEF TypeOK
  <1>6. ASSUME NEW t \in Tasks, EndCall(t) PROVE TypeOK'
    BY <1>6 DEF TypeOK, EndCall, Goto, CallSteps
  <1>7. ASSUME NEW t \in Tasks, DestroyCall(t) PROVE TypeOK'
    BY <1>7 DEF TypeOK, DestroyCall, Goto, CallSteps
  <1>8. ASSUME NEW t \in Tasks, EndNotInitialized(t) PROVE TypeOK'
    BY <1>8 DEF TypeOK, EndNotInitialized, Goto, CallSteps, AfterEnd
  <1>9. ASSUME NEW t \in Tasks, EndBusy(t) PROVE TypeOK'
    BY <1>9 DEF TypeOK, EndBusy, Goto, CallSteps
  <1>10. ASSUME NEW t \in Tasks, EndPublish(t) PROVE TypeOK'
    BY <1>10
    DEF TypeOK, EndPublish, Goto, CallSteps, EndSteps, Lifecycles, Tasks
  <1>11. ASSUME NEW t \in Tasks, EndNotify(t) PROVE TypeOK'
    BY <1>11 DEF TypeOK, EndNotify, Goto, CallSteps, StopBits, EndSteps
  <1>12. ASSUME NEW t \in Tasks, EndTake(t) PROVE TypeOK'
    BY <1>12 DEF TypeOK, EndTake, Goto, CallSteps, EndSteps
  <1>13. ASSUME NEW t \in Tasks, EndTimeout(t) PROVE TypeOK'
    BY <1>13 DEF TypeOK, EndTimeout, Goto, CallSteps, AfterTimeout
  <1>14. ASSUME NEW t \in Tasks, EndReset(t) PROVE TypeOK'
    BY <1>14 DEF TypeOK, EndReset, Goto, CallSteps, EndSteps, WorkerSteps
  <1>15. ASSUME NEW t \in Tasks, EndRelease(t) PROVE TypeOK'
    BY <1>15, ConfigAssumption
    DEF TypeOK, EndRelease, Goto, CallSteps, EndSteps, AfterEnd, EmptyQueue,
        Lifecycles
  <1>16. ASSUME NEW t \in Tasks, NEW point \in FailurePoints,
                InitFails(t, point)
         PROVE  TypeOK'
    <2>1. diag' \in Counters
      BY <1>0, <1>16 DEF InitFails, ResetCounters, ZeroDiag, Counters
    <2>2. queue' \in [0 .. QueueSize - 1 -> Nat]
      BY <1>16 DEF InitFails, EmptyQueue
    <2>3. allocated' \in SUBSET Resources
      BY <1>16
      DEF TypeOK, InitFails, AcquiredBefore, FailurePoints, Resources
    <2>4. pc' \in [Tasks -> CallSteps] /\ 0 \in 0 .. QueueSize - 1
      BY <1>16, ConfigAssumption DEF TypeOK, InitFails, Goto, CallSteps
    <2> QED
      BY <1>16, <2>1, <2>2, <2>3, <2>4 DEF TypeOK, InitFails, ResetCounters
  <1>17. CASE WorkerCheck
    BY <1>17 DEF TypeOK, WorkerCheck, WorkerSteps
  <1>18. CASE WorkerPop
    BY <1>18, PopType DEF TypeOK, WorkerPop, WorkerSteps, Statuses
  <1>19. CASE WorkerIdle
    BY <1>19 DEF TypeOK, WorkerIdle, WorkerSteps
  <1>20. CASE WorkerWake
    BY <1>20 DEF TypeOK, WorkerWake, WorkerSteps, AfterWait
  <1>21. CASE DrainJob
    <2>1. queue[queueHead] \in Nat
      BY DEF TypeOK
    <2>2. called' \in Seq(Nat)
      BY <1>21, <2>1, CallbackType DEF TypeOK, DrainJob
    <2> QED
      BY <1>21, <2>2, PopType
      DEF TypeOK, DrainJob, WorkerSteps, Callbacks, Statuses
  <1>22. CASE DrainDone
    BY <1>22 DEF TypeOK, DrainDone, WorkerSteps
  <1>23. CASE WorkerPublish
    BY <1>23 DEF TypeOK, WorkerPublish, WorkerSteps, SignalAtEnd
  <1>24. CASE BeginAttempt
    BY <1>24 DEF TypeOK, BeginAttempt, WorkerSteps, ReportAs, Statuses
  <1>25. CASE DeliverOk
    BY <1>25 DEF TypeOK, DeliverOk, WorkerSteps, ReportAs, Statuses
  <1>26. CASE EncryptFails
    BY <1>26 DEF TypeOK, EncryptFails, WorkerSteps, ReportAs, Statuses
  <1>27. CASE DeliverFails
    BY <1>27 DEF TypeOK, DeliverFails, WorkerSteps, Statuses
  <1>28. CASE GiveUp
    BY <1>28 DEF TypeOK, GiveUp, WorkerSteps
  <1>29. CASE Retry
    <2>1. diag' \in Counters
      BY <1>0, <1>29 DEF Retry, Counters
    <2> QED
      BY <1>29, <2>1 DEF TypeOK, Retry, WorkerSteps
  <1>30. CASE RetryWake
    BY <1>30 DEF TypeOK, RetryWake, WorkerSteps, ReportAs, Statuses
  <1>31. CASE RetryElapsed
    BY <1>31 DEF TypeOK, RetryElapsed, WorkerSteps, ReportAs, Statuses
  <1>32. CASE Finish
    <2>1. called' \in Seq(Nat)
      BY <1>32, CallbackType DEF TypeOK, Finish
    <2> QED
      BY <1>32, <2>1
      DEF TypeOK, Finish, FinalStatus, WorkerSteps, Callbacks, Statuses
  <1>33. CASE Release
    BY <1>33, CompletionType DEF TypeOK, Release, WorkerSteps, Callbacks
  <1>34. CASE UNCHANGED vars
    BY <1>34 DEF TypeOK
  <1> QED
    BY <1>1, <1>2, <1>3, <1>4, <1>5, <1>6, <1>7, <1>8, <1>9, <1>10, <1>11,
       <1>12, <1>13, <1>14, <1>15, <1>16, <1>17, <1>18, <1>19, <1>20, <1>21,
       <1>22, <1>23, <1>24, <1>25, <1>26, <1>27, <1>28, <1>29, <1>30, <1>31,
       <1>32, <1>33, <1>34
    DEF Next, NewCall, InCall, WorkerStep, Deliver, Destroyed

\* In every reachable state every variable has its type.
THEOREM TypeCorrect == Spec => []TypeOK
  BY TypeInit, TypeStep, PTL DEF Spec

-----------------------------------------------------------------------------
\* Nothing is owned initially.
LEMMA OwnershipInit == Init => Ownership
  BY TasksAssumption DEF Init, Ownership, EndSteps, Tasks, Stopping

\* Every step keeps Ownership.
LEMMA OwnershipStep == TypeOK /\ Ownership /\ [Next]_vars => Ownership'
  <1> SUFFICES ASSUME TypeOK, Ownership, [Next]_vars PROVE Ownership'
    OBVIOUS
  <1>0. /\ pc \in [Tasks -> CallSteps]
        /\ queueCount \in Nat
        /\ \A t \in Tasks : t # Nobody
    BY TasksAssumption DEF TypeOK, Tasks
  <1> USE DEF vars, allButCalls, implVars, queueVars, rtosVars,
              taskVars, workerVars, jobVars, callVars, ghostVars
  <1>1. ASSUME NEW t \in Tasks, SendAccepted(t) PROVE Ownership'
    BY <1>0, <1>1
    DEF SendAccepted, MayCall, Goto, Ownership, EndSteps, Stopping
  <1>2. ASSUME NEW t \in Tasks, SendNotify(t) PROVE Ownership'
    BY <1>0, <1>2
    DEF SendNotify, Goto, Ownership, EndSteps, Stopping
  <1>3. ASSUME NEW t \in Tasks, InitCall(t) PROVE Ownership'
    BY <1>0, <1>3
    DEF InitCall, MayCall, Goto, Ownership, EndSteps, Stopping
  <1>4. ASSUME NEW t \in Tasks, InitRefused(t) PROVE Ownership'
    BY <1>0, <1>4
    DEF InitRefused, Goto, Ownership, EndSteps, Stopping
  <1>5. ASSUME NEW t \in Tasks, InitSucceeds(t) PROVE Ownership'
    <2>1. task' # NoTask
      BY <1>5 DEF TypeOK, InitSucceeds
    <2> QED
      BY <1>0, <1>5, <2>1
      DEF InitSucceeds, ResetCounters, Goto, Ownership, EndSteps, Stopping
  <1>6. ASSUME NEW t \in Tasks, EndCall(t) PROVE Ownership'
    BY <1>0, <1>6
    DEF EndCall, MayCall, Goto, Ownership, EndSteps, Stopping
  <1>7. ASSUME NEW t \in Tasks, DestroyCall(t) PROVE Ownership'
    BY <1>0, <1>7
    DEF DestroyCall, Tasks, Goto, Ownership, EndSteps, Stopping
  <1>8. ASSUME NEW t \in Tasks, EndNotInitialized(t) PROVE Ownership'
    BY <1>0, <1>8
    DEF EndNotInitialized, AfterEnd, Goto, Ownership, EndSteps, Stopping
  <1>9. ASSUME NEW t \in Tasks, EndBusy(t) PROVE Ownership'
    BY <1>0, <1>9
    DEF EndBusy, Goto, Ownership, EndSteps, Stopping
  <1>10. ASSUME NEW t \in Tasks, EndPublish(t) PROVE Ownership'
    BY <1>0, <1>10
    DEF EndPublish, IsWorker, Goto, Ownership, EndSteps, Stopping
  <1>11. ASSUME NEW t \in Tasks, EndNotify(t) PROVE Ownership'
    BY <1>0, <1>11
    DEF EndNotify, StopBits, Goto, Ownership, EndSteps, Stopping
  <1>12. ASSUME NEW t \in Tasks, EndTake(t) PROVE Ownership'
    BY <1>0, <1>12
    DEF EndTake, Goto, Ownership, EndSteps, Stopping
  <1>13. ASSUME NEW t \in Tasks, EndTimeout(t) PROVE Ownership'
    <2>1. lifecycleOwner = t /\ wpc # "none"
      BY <1>0, <1>13 DEF EndTimeout, Ownership, EndSteps
    <2>2. AfterTimeout(t) \in {"idle", "end"}
      BY DEF AfterTimeout
    <2>3. \A u \in Tasks : pc'[u] \notin EndSteps
      BY <1>0, <1>13, <2>1, <2>2 DEF EndTimeout, Goto, Ownership, EndSteps
    <2>4. /\ lifecycleOwner' = Nobody
          /\ UNCHANGED <<lifecycle, allocated, inFlight, queueCount, task,
                         notification, signal, wpc>>
      BY <1>13 DEF EndTimeout
    <2> QED
      BY <1>0, <2>1, <2>3, <2>4, TasksAssumption
      DEF Ownership, EndSteps, Stopping
  <1>14. ASSUME NEW t \in Tasks, EndReset(t) PROVE Ownership'
    BY <1>0, <1>14
    DEF EndReset, Goto, Ownership, EndSteps, Stopping
  <1>15. ASSUME NEW t \in Tasks, EndRelease(t) PROVE Ownership'
    <2>1. lifecycleOwner = t /\ wpc = "none"
      BY <1>0, <1>15 DEF EndRelease, Ownership, EndSteps
    <2>2. AfterEnd(t) \in {"idle", "gone"}
      BY DEF AfterEnd
    <2>3. \A u \in Tasks : pc'[u] \notin EndSteps
      BY <1>0, <1>15, <2>1, <2>2 DEF EndRelease, Goto, Ownership, EndSteps
    <2>4. allocated' = {}
      BY <1>15 DEF EndRelease, TypeOK
    <2>5. /\ lifecycleOwner' = Nobody /\ lifecycle' = "Uninitialized"
          /\ queueCount' = 0 /\ inFlight' = 0
          /\ UNCHANGED <<task, notification, signal, wpc>>
      BY <1>15 DEF EndRelease
    <2> QED
      BY <1>0, <2>1, <2>3, <2>4, <2>5, TasksAssumption
      DEF Ownership, EndSteps, Stopping
  <1>16. ASSUME NEW t \in Tasks, NEW point \in FailurePoints,
                InitFails(t, point)
         PROVE  Ownership'
    BY <1>0, <1>16
    DEF InitFails, FailurePoints, AcquiredBefore, ReleasedOnFailure, Resources,
        ResetCounters, Goto, Ownership, EndSteps, Stopping
  <1>17. CASE WorkerCheck
    BY <1>0, <1>17 DEF WorkerCheck, Ownership, Stopping
  <1>18. CASE WorkerPop
    BY <1>0, <1>18 DEF WorkerPop, PopJob, Ownership, Stopping
  <1>19. CASE WorkerIdle
    BY <1>0, <1>19
    DEF WorkerIdle, ClearOnEntry, NothingToPop, Ownership, Stopping
  <1>20. CASE WorkerWake
    BY <1>0, <1>20 DEF WorkerWake, AfterWait, Ownership, Stopping
  <1>21. CASE DrainJob
    BY <1>0, <1>21 DEF DrainJob, PopJob, Ownership, Stopping
  <1>22. CASE DrainDone
    BY <1>0, <1>22 DEF DrainDone, NothingToPop, Ownership, Stopping
  <1>23. CASE WorkerPublish
    BY <1>0, <1>23 DEF WorkerPublish, SignalAtEnd, Ownership, Stopping
  <1>24. CASE BeginAttempt
    BY <1>0, <1>24 DEF BeginAttempt, ReportAs, Ownership, Stopping
  <1>25. CASE DeliverOk
    BY <1>0, <1>25 DEF DeliverOk, ReportAs, Ownership, Stopping
  <1>26. CASE EncryptFails
    BY <1>0, <1>26 DEF EncryptFails, ReportAs, Ownership, Stopping
  <1>27. CASE DeliverFails
    BY <1>0, <1>27 DEF DeliverFails, Ownership, Stopping
  <1>28. CASE GiveUp
    BY <1>0, <1>28 DEF GiveUp, Ownership, Stopping
  <1>29. CASE Retry
    BY <1>0, <1>29 DEF Retry, Ownership, Stopping
  <1>30. CASE RetryWake
    BY <1>0, <1>30 DEF RetryWake, ReportAs, Ownership, Stopping
  <1>31. CASE RetryElapsed
    BY <1>0, <1>31 DEF RetryElapsed, ReportAs, Ownership, Stopping
  <1>32. CASE Finish
    BY <1>0, <1>32 DEF Finish, Ownership, Stopping
  <1>33. CASE Release
    BY <1>0, <1>33 DEF Release, Callbacks, Ownership, Stopping
  <1>34. CASE UNCHANGED vars
    BY <1>34 DEF Ownership, Stopping
  <1> QED
    BY <1>1, <1>2, <1>3, <1>4, <1>5, <1>6, <1>7, <1>8, <1>9, <1>10, <1>11,
       <1>12, <1>13, <1>14, <1>15, <1>16, <1>17, <1>18, <1>19, <1>20,
       <1>21, <1>22, <1>23, <1>24, <1>25, <1>26, <1>27, <1>28, <1>29,
       <1>30, <1>31, <1>32, <1>33, <1>34
    DEF Next, NewCall, InCall, WorkerStep, Deliver, Destroyed

\* Whoever touches the runtime is entitled to it, in every reachable state.
THEOREM OwnershipAlways == Spec => []Ownership
  BY TypeInit, TypeStep, OwnershipInit, OwnershipStep, PTL DEF Spec

\* The worker dereferences only what exists, and its task is deleted only
\* after its last step.
THEOREM WorkerOwnsRuntimeAlways == Spec => []WorkerOwnsRuntime
  <1>1. Ownership => WorkerOwnsRuntime
    BY DEF Ownership, WorkerOwnsRuntime
  <1> QED
    BY <1>1, OwnershipAlways, PTL

\* A failed init() and a successful end() leave nothing behind.
THEOREM OffHoldsNothingAlways == Spec => []OffHoldsNothing
  <1>1. Ownership => OffHoldsNothing
    BY DEF Ownership, OffHoldsNothing
  <1> QED
    BY <1>1, OwnershipAlways, PTL

-----------------------------------------------------------------------------
\* The numbers WorkAccounting adds up are natural numbers.
LEMMA AccountingTypes ==
    ASSUME TypeOK
    PROVE  /\ queueCount \in Nat /\ inFlight \in Nat /\ accepted \in Nat
           /\ Len(called) \in Nat
           /\ Active \in Nat /\ Unreported \in Nat
           /\ diag.enqueued \in Nat /\ diag.completed \in Nat
           /\ diag.succeeded \in Nat /\ diag.failed \in Nat
           /\ diag.cancelled \in Nat
  <1>1. Active \in Nat /\ Unreported \in Nat
    BY DEF Active, Unreported, CountIf
  <1>2. diag \in Counters /\ called \in Seq(Nat)
    BY DEF TypeOK
  <1>3. /\ diag.enqueued \in Nat /\ diag.completed \in Nat
        /\ diag.succeeded \in Nat /\ diag.failed \in Nat
        /\ diag.cancelled \in Nat
    BY <1>2 DEF Counters
  <1> QED
    BY <1>1, <1>2, <1>3 DEF TypeOK

\* A step that moves the worker inside one of its phases (without a job, with
\* an unreported job, in a callback) and counts nothing keeps the account.
LEMMA AccountingFrame ==
    ASSUME WorkAccounting,
           UNCHANGED <<queueCount, inFlight, diag, accepted, called>>,
           wpc \in JobSteps <=> wpc' \in JobSteps,
           wpc \in Callbacks <=> wpc' \in Callbacks
    PROVE  WorkAccounting'
  <1>1. Unreported' = Unreported /\ Active' = Active
    BY DEF Unreported, Active, CountIf, JobSteps
  <1> QED
    BY <1>1 DEF WorkAccounting

\* The account is balanced initially.
LEMMA AccountingInit == Init => WorkAccounting
  BY ConfigAssumption
  DEF Init, WorkAccounting, Active, Unreported, CountIf, ZeroDiag, JobSteps,
      Callbacks

\* Every step keeps the account balanced.
LEMMA AccountingStep ==
    TypeOK /\ Ownership /\ WorkAccounting /\ [Next]_vars => WorkAccounting'
  <1> SUFFICES ASSUME TypeOK, Ownership, WorkAccounting, [Next]_vars
               PROVE  WorkAccounting'
    OBVIOUS
  <1> USE DEF vars, allButCalls, implVars, queueVars, rtosVars,
              taskVars, workerVars, jobVars, callVars, ghostVars
  <1>a. /\ queueCount \in Nat /\ inFlight \in Nat /\ QueueSize \in Nat
        /\ Active \in Nat /\ Unreported \in Nat
        /\ accepted \in Nat /\ Len(called) \in Nat
    BY AccountingTypes, ConfigAssumption
  <1>b. /\ inFlight = queueCount + Active /\ inFlight <= QueueSize
        /\ accepted = Len(called) + queueCount + Unreported
    BY DEF WorkAccounting
  <1>c. /\ diag.enqueued \in Nat /\ diag.completed \in Nat
        /\ diag.succeeded \in Nat /\ diag.failed \in Nat
        /\ diag.cancelled \in Nat
    BY AccountingTypes
  <1>d. /\ diag.enqueued = diag.completed + inFlight
        /\ diag.completed = diag.succeeded + diag.failed
        /\ diag.cancelled <= diag.failed
    BY DEF WorkAccounting
  <1>1. ASSUME NEW t \in Tasks, SendAccepted(t) PROVE WorkAccounting'
    <2>1. /\ inFlight < QueueSize
          /\ accepted' = accepted + 1 /\ queueCount' = queueCount + 1
          /\ inFlight' = inFlight + 1 /\ UNCHANGED <<wpc, called>>
      BY <1>1 DEF SendAccepted, HasCapacity
    <2>2. /\ diag'.enqueued = diag.enqueued + 1
          /\ diag'.completed = diag.completed
          /\ diag'.succeeded = diag.succeeded
          /\ diag'.failed = diag.failed /\ diag'.cancelled = diag.cancelled
      <3>1. diag \in Counters /\ diag' = [diag EXCEPT !.enqueued = @ + 1]
        BY <1>1 DEF SendAccepted, TypeOK
      <3> QED
        BY <3>1 DEF Counters
    <2>3. Unreported' = Unreported /\ Active' = Active
      BY <2>1 DEF Unreported, Active
    <2>4. inFlight' = queueCount' + Active' /\ inFlight' <= QueueSize
      BY <1>a, <1>b, <2>1, <2>3
    <2>5. accepted' = Len(called') + queueCount' + Unreported'
      BY <1>a, <1>b, <2>1, <2>3
    <2>6. /\ diag'.enqueued = diag'.completed + inFlight'
          /\ diag'.completed = diag'.succeeded + diag'.failed
          /\ diag'.cancelled <= diag'.failed
      BY <1>a, <1>c, <1>d, <2>1, <2>2
    <2> QED
      BY <2>4, <2>5, <2>6 DEF WorkAccounting
  <1>2. ASSUME NEW t \in Tasks, SendNotify(t) PROVE WorkAccounting'
    BY <1>2, AccountingFrame DEF SendNotify
  <1>3. ASSUME NEW t \in Tasks, InitCall(t) PROVE WorkAccounting'
    BY <1>3, AccountingFrame DEF InitCall
  <1>4. ASSUME NEW t \in Tasks, InitRefused(t) PROVE WorkAccounting'
    BY <1>4, AccountingFrame DEF InitRefused
  <1>5. ASSUME NEW t \in Tasks, InitSucceeds(t) PROVE WorkAccounting'
    <2>1. /\ wpc = "none" /\ queueCount = 0
          /\ UNCHANGED ghostVars /\ wpc' = "loop"
          /\ queueCount' = 0 /\ inFlight' = 0 /\ diag' = ZeroDiag
      BY <1>5 DEF InitSucceeds, ResetCounters, Ownership
    <2>2. Unreported = 0 /\ Unreported' = 0 /\ Active' = 0
      BY <2>1 DEF Unreported, Active, CountIf, JobSteps, Callbacks
    <2> QED
      BY <2>1, <2>2, AccountingTypes, ConfigAssumption
      DEF WorkAccounting, ZeroDiag
  <1>6. ASSUME NEW t \in Tasks, EndCall(t) PROVE WorkAccounting'
    BY <1>6, AccountingFrame DEF EndCall
  <1>7. ASSUME NEW t \in Tasks, DestroyCall(t) PROVE WorkAccounting'
    BY <1>7, AccountingFrame DEF DestroyCall
  <1>8. ASSUME NEW t \in Tasks, EndNotInitialized(t) PROVE WorkAccounting'
    BY <1>8, AccountingFrame DEF EndNotInitialized
  <1>9. ASSUME NEW t \in Tasks, EndBusy(t) PROVE WorkAccounting'
    BY <1>9, AccountingFrame DEF EndBusy
  <1>10. ASSUME NEW t \in Tasks, EndPublish(t) PROVE WorkAccounting'
    BY <1>10, AccountingFrame DEF EndPublish
  <1>11. ASSUME NEW t \in Tasks, EndNotify(t) PROVE WorkAccounting'
    BY <1>11, AccountingFrame DEF EndNotify
  <1>12. ASSUME NEW t \in Tasks, EndTake(t) PROVE WorkAccounting'
    BY <1>12, AccountingFrame DEF EndTake
  <1>13. ASSUME NEW t \in Tasks, EndTimeout(t) PROVE WorkAccounting'
    BY <1>13, AccountingFrame DEF EndTimeout
  <1>14. ASSUME NEW t \in Tasks, EndReset(t) PROVE WorkAccounting'
    <2>1. wpc = "parked" /\ wpc' = "none"
      BY <1>14 DEF EndReset, Ownership
    <2> QED
      BY <1>14, <2>1, AccountingFrame DEF EndReset, JobSteps, Callbacks
  <1>15. ASSUME NEW t \in Tasks, EndRelease(t) PROVE WorkAccounting'
    <2>1. /\ wpc = "none" /\ queueCount = 0
          /\ queueCount' = 0 /\ inFlight' = 0
          /\ UNCHANGED <<wpc, diag, ghostVars>>
      BY <1>15 DEF EndRelease, Ownership
    <2>2. Active = 0
      BY <2>1 DEF Active, CountIf, JobSteps, Callbacks
    <2>3. inFlight' = inFlight
      BY <2>1, <2>2, AccountingTypes DEF WorkAccounting
    <2> QED
      BY <2>1, <2>3, AccountingFrame
  <1>16. ASSUME NEW t \in Tasks, NEW point \in FailurePoints,
                InitFails(t, point)
         PROVE  WorkAccounting'
    <2>1. /\ wpc = "none" /\ queueCount = 0 /\ inFlight = 0
          /\ UNCHANGED <<wpc, accepted, called>>
      BY <1>16 DEF InitFails, Ownership
    <2>2. CASE point # "task"
      BY <1>16, <2>1, <2>2, AccountingFrame DEF InitFails
    <2>3. CASE point = "task"
      <3>1. queueCount' = 0 /\ inFlight' = 0 /\ diag' = ZeroDiag
        BY <1>16, <2>3 DEF InitFails, ResetCounters
      <3>2. Unreported = 0 /\ Unreported' = 0 /\ Active' = 0
        BY <2>1 DEF Unreported, Active, CountIf, JobSteps, Callbacks
      <3> QED
        BY <2>1, <3>1, <3>2, AccountingTypes, ConfigAssumption
        DEF WorkAccounting, ZeroDiag
    <2> QED
      BY <2>2, <2>3
  <1>17. CASE WorkerCheck
    BY <1>17, AccountingFrame DEF WorkerCheck, JobSteps, Callbacks
  <1>18. CASE WorkerPop
    <2>1. /\ queueCount' = queueCount - 1 /\ queueCount > 0
          /\ wpc = "pop" /\ wpc' = "attempt"
          /\ UNCHANGED <<inFlight, diag, ghostVars>>
      BY <1>18 DEF WorkerPop, PopJob
    <2>2. Unreported = 0 /\ Unreported' = 1 /\ Active = 0 /\ Active' = 1
      BY <2>1 DEF Unreported, Active, CountIf, JobSteps, Callbacks
    <2> QED
      BY <2>1, <2>2, AccountingTypes DEF WorkAccounting
  <1>19. CASE WorkerIdle
    BY <1>19, AccountingFrame DEF WorkerIdle, JobSteps, Callbacks
  <1>20. CASE WorkerWake
    BY <1>20, AccountingFrame DEF WorkerWake, AfterWait, JobSteps, Callbacks
  <1>21. CASE DrainJob
    <2>1. /\ queueCount' = queueCount - 1 /\ queueCount > 0
          /\ wpc = "drain" /\ wpc' = "drainCallback"
          /\ UNCHANGED <<inFlight, diag, accepted>>
      BY <1>21 DEF DrainJob, PopJob
    <2>2. Len(called') = Len(called) + 1
      BY <1>21, CallbackType DEF DrainJob, TypeOK
    <2>3. /\ Unreported = 0 /\ Unreported' = 0
          /\ Active = 0 /\ Active' = 1
      BY <2>1 DEF Unreported, Active, CountIf, JobSteps, Callbacks
    <2>4. inFlight' = queueCount' + Active' /\ inFlight' <= QueueSize
      BY <2>1, <2>3, AccountingTypes DEF WorkAccounting
    <2>5. accepted' = Len(called') + queueCount' + Unreported'
      BY <2>1, <2>2, <2>3, AccountingTypes DEF WorkAccounting
    <2> QED
      BY <2>1, <2>4, <2>5 DEF WorkAccounting
  <1>22. CASE DrainDone
    BY <1>22, AccountingFrame DEF DrainDone, JobSteps, Callbacks
  <1>23. CASE WorkerPublish
    BY <1>23, AccountingFrame DEF WorkerPublish, JobSteps, Callbacks
  <1>24. CASE BeginAttempt
    BY <1>24, AccountingFrame DEF BeginAttempt, ReportAs, JobSteps, Callbacks
  <1>25. CASE DeliverOk
    BY <1>25, AccountingFrame DEF DeliverOk, ReportAs, JobSteps, Callbacks
  <1>26. CASE EncryptFails
    BY <1>26, AccountingFrame DEF EncryptFails, ReportAs, JobSteps, Callbacks
  <1>27. CASE DeliverFails
    BY <1>27, AccountingFrame DEF DeliverFails, JobSteps, Callbacks
  <1>28. CASE GiveUp
    BY <1>28, AccountingFrame DEF GiveUp, JobSteps, Callbacks
  <1>29. CASE Retry
    <2>1. /\ wpc = "decide" /\ wpc' = "delay"
          /\ UNCHANGED <<queueCount, inFlight, ghostVars>>
      BY <1>29 DEF Retry
    <2>2. /\ diag'.enqueued = diag.enqueued
          /\ diag'.completed = diag.completed
          /\ diag'.succeeded = diag.succeeded
          /\ diag'.failed = diag.failed /\ diag'.cancelled = diag.cancelled
      BY <1>29 DEF Retry, TypeOK, Counters
    <2>3. Unreported' = Unreported /\ Active' = Active
      BY <2>1 DEF Unreported, Active, CountIf, JobSteps, Callbacks
    <2> QED
      BY <2>1, <2>2, <2>3 DEF WorkAccounting
  <1>30. CASE RetryWake
    BY <1>30, AccountingFrame DEF RetryWake, ReportAs, JobSteps, Callbacks
  <1>31. CASE RetryElapsed
    BY <1>31, AccountingFrame DEF RetryElapsed, ReportAs, JobSteps, Callbacks
  <1>32. CASE Finish
    <2>1. /\ wpc = "finish" /\ wpc' = "callback"
          /\ UNCHANGED <<queueCount, inFlight, diag, accepted>>
      BY <1>32 DEF Finish
    <2>2. Len(called') = Len(called) + 1
      BY <1>32, CallbackType DEF Finish, TypeOK
    <2>3. /\ Unreported = 1 /\ Unreported' = 0
          /\ Active = 1 /\ Active' = 1
      BY <2>1 DEF Unreported, Active, CountIf, JobSteps, Callbacks
    <2> QED
      BY <2>1, <2>2, <2>3, AccountingTypes DEF WorkAccounting
  <1>33. CASE Release
    <2>1. /\ wpc \in Callbacks /\ wpc' \in {"drain", "loop"}
          /\ UNCHANGED <<queueCount, ghostVars>>
      BY <1>33 DEF Release
    <2>2. /\ Unreported = 0 /\ Unreported' = 0
          /\ Active = 1 /\ Active' = 0
      BY <2>1 DEF Unreported, Active, CountIf, JobSteps, Callbacks
    <2>3. inFlight > 0
      BY <2>2, AccountingTypes DEF WorkAccounting
    <2>4. /\ diag' \in Counters
          /\ inFlight' = inFlight - 1
          /\ diag'.enqueued = diag.enqueued
          /\ diag'.completed = diag.completed + 1
          /\ diag'.succeeded + diag'.failed = diag.succeeded + diag.failed + 1
          /\ diag'.failed - diag'.cancelled >= diag.failed - diag.cancelled
      BY <1>33, <2>3, CompletionType DEF Release, TypeOK
    <2>5. /\ diag'.succeeded \in Nat /\ diag'.failed \in Nat
          /\ diag'.cancelled \in Nat
      BY <2>4 DEF Counters
    <2>6. inFlight' = queueCount' + Active' /\ inFlight' <= QueueSize
      BY <1>a, <1>b, <2>1, <2>2, <2>4
    <2>7. accepted' = Len(called') + queueCount' + Unreported'
      BY <1>a, <1>b, <2>1, <2>2
    <2>8. diag'.enqueued = diag'.completed + inFlight'
      BY <1>a, <1>c, <1>d, <2>4
    <2>9. diag'.completed = diag'.succeeded + diag'.failed
      BY <1>c, <1>d, <2>4, <2>5
    <2>10. diag'.cancelled <= diag'.failed
      BY <1>c, <1>d, <2>4, <2>5
    <2> QED
      BY <2>6, <2>7, <2>8, <2>9, <2>10 DEF WorkAccounting
  <1>34. CASE UNCHANGED vars
    BY <1>34, AccountingFrame
  <1> QED
    BY <1>1, <1>2, <1>3, <1>4, <1>5, <1>6, <1>7, <1>8, <1>9, <1>10, <1>11,
       <1>12, <1>13, <1>14, <1>15, <1>16, <1>17, <1>18, <1>19, <1>20,
       <1>21, <1>22, <1>23, <1>24, <1>25, <1>26, <1>27, <1>28, <1>29,
       <1>30, <1>31, <1>32, <1>33, <1>34
    DEF Next, NewCall, InCall, WorkerStep, Deliver, Destroyed

\* "accepted = queued + active", within the queue size, in every reachable
\* state, and the diagnostics agree.
THEOREM WorkAccountingAlways == Spec => []WorkAccounting
  BY TypeInit, TypeStep, OwnershipInit, OwnershipStep, AccountingInit,
     AccountingStep, PTL DEF Spec

-----------------------------------------------------------------------------
\* The invariant that both theorems below rest on.
RuntimeInv == TypeOK /\ Ownership /\ WorkAccounting

\* RuntimeInv is inductive.
LEMMA RuntimeInvAlways == Spec => []RuntimeInv
  <1>1. Init => RuntimeInv
    BY TypeInit, OwnershipInit, AccountingInit DEF RuntimeInv
  <1>2. RuntimeInv /\ [Next]_vars => RuntimeInv'
    BY TypeStep, OwnershipStep, AccountingStep DEF RuntimeInv
  <1> QED
    BY <1>1, <1>2, PTL DEF Spec

\* When end() releases the runtime there is no worker and no queued job.
LEMMA EndReleaseState ==
    ASSUME RuntimeInv, NEW t \in Tasks, EndRelease(t)
    PROVE  lifecycle = "Stopping" /\ wpc = "none" /\ queueCount = 0
  <1>1. lifecycleOwner = t /\ t # Nobody /\ wpc = "none"
    BY TasksAssumption
    DEF RuntimeInv, EndRelease, Ownership, EndSteps, Tasks
  <1> QED
    BY <1>1 DEF RuntimeInv, Ownership, Stopping

\* The service's steps are the runtime's initiation, acceptance, callback,
\* publication of Stopping and release; every other step is invisible to it.
LEMMA ServiceStep ==
    RuntimeInv /\ [Next]_vars => [Service!Next]_(Service!svars)
  <1> SUFFICES ASSUME RuntimeInv, [Next]_vars
               PROVE  [Service!Next]_(Service!svars)
    OBVIOUS
  <1> USE DEF vars, allButCalls, implVars, queueVars, rtosVars, taskVars,
              workerVars, jobVars, callVars, ghostVars
  <1>a. /\ queueCount \in Nat /\ inFlight \in Nat /\ QueueSize \in Nat
        /\ Active \in Nat /\ Unreported \in Nat
        /\ accepted \in Nat /\ Len(called) \in Nat
    BY AccountingTypes, ConfigAssumption DEF RuntimeInv
  <1>b. /\ inFlight = queueCount + Active /\ inFlight <= QueueSize
        /\ accepted = Len(called) + queueCount + Unreported
    BY DEF RuntimeInv, WorkAccounting
  <1>c. Unreported <= Active
    BY DEF Unreported, Active, CountIf, JobSteps
  <1>d. UNCHANGED <<lifecycle, ghostVars>> => UNCHANGED Service!svars
    BY DEF Service!svars
  <1>1. ASSUME NEW t \in Tasks, SendAccepted(t)
         PROVE  [Service!Next]_(Service!svars)
    <2>1. /\ lifecycle = "Running" /\ inFlight < QueueSize
          /\ accepted' = accepted + 1 /\ UNCHANGED <<lifecycle, called>>
      BY <1>1 DEF SendAccepted, HasCapacity
    <2>2. accepted - Len(called) < QueueSize
      BY <1>a, <1>b, <1>c, <2>1
    <2> QED
      BY <2>1, <2>2 DEF Service!Next, Service!Accept, Service!On
  <1>2. ASSUME NEW t \in Tasks, InitSucceeds(t)
         PROVE  [Service!Next]_(Service!svars)
    BY <1>2 DEF InitSucceeds, Service!Next, Service!Start, Service!Off
  <1>3. ASSUME NEW t \in Tasks, EndPublish(t)
         PROVE  [Service!Next]_(Service!svars)
    <2>1. /\ lifecycle \in {"Running", "Stopping"}
          /\ lifecycle' = "Stopping" /\ UNCHANGED ghostVars
      BY <1>3 DEF EndPublish, RuntimeInv, TypeOK, Lifecycles
    <2>2. CASE lifecycle = "Running"
      BY <2>1, <2>2 DEF Service!Next, Service!Close, Service!On
    <2>3. CASE lifecycle = "Stopping"
      BY <1>d, <2>1, <2>3
    <2> QED
      BY <2>1, <2>2, <2>3
  <1>4. ASSUME NEW t \in Tasks, EndRelease(t)
         PROVE  [Service!Next]_(Service!svars)
    <2>1. /\ lifecycle = "Stopping" /\ wpc = "none" /\ queueCount = 0
          /\ lifecycle' = "Uninitialized" /\ UNCHANGED ghostVars
      BY <1>4, EndReleaseState DEF EndRelease
    <2>2. Unreported = 0
      BY <2>1 DEF Unreported, CountIf, JobSteps
    <2>3. Len(called) = accepted
      BY <1>a, <1>b, <2>1, <2>2
    <2> QED
      BY <2>1, <2>3 DEF Service!Next, Service!Closed, Service!Closing
  <1>5. CASE DrainJob
    <2>1. /\ lifecycle # "Uninitialized"
          /\ UNCHANGED <<lifecycle, accepted>>
      BY <1>5 DEF DrainJob, RuntimeInv, Ownership
    <2>2. Len(called') = Len(called) + 1
      BY <1>5, CallbackType DEF DrainJob, RuntimeInv, TypeOK
    <2>3. Len(called) < accepted
      <3>1. queueCount > 0
        BY <1>5 DEF DrainJob, PopJob
      <3> QED
        BY <1>a, <1>b, <3>1
    <2> QED
      BY <2>1, <2>2, <2>3 DEF Service!Next, Service!Report, Service!Off
  <1>6. CASE Finish
    <2>1. /\ lifecycle # "Uninitialized"
          /\ UNCHANGED <<lifecycle, accepted>>
      BY <1>6 DEF Finish, RuntimeInv, Ownership
    <2>2. Len(called') = Len(called) + 1
      BY <1>6, CallbackType DEF Finish, RuntimeInv, TypeOK
    <2>3. Len(called) < accepted
      <3>1. Unreported = 1
        BY <1>6 DEF Finish, Unreported, CountIf, JobSteps
      <3> QED
        BY <1>a, <1>b, <3>1
    <2> QED
      BY <2>1, <2>2, <2>3 DEF Service!Next, Service!Report, Service!Off
  <1>7. ASSUME NEW t \in Tasks,
                \/ SendNotify(t) \/ InitCall(t) \/ InitRefused(t)
                \/ EndCall(t) \/ DestroyCall(t) \/ EndNotInitialized(t)
                \/ EndBusy(t) \/ EndNotify(t) \/ EndTake(t)
                \/ EndTimeout(t) \/ EndReset(t)
         PROVE  [Service!Next]_(Service!svars)
    BY <1>d, <1>7
    DEF SendNotify, InitCall, InitRefused, EndCall, DestroyCall,
        EndNotInitialized, EndBusy, EndNotify, EndTake, EndTimeout,
        EndReset
  <1>8. ASSUME NEW t \in Tasks, NEW point \in FailurePoints,
                InitFails(t, point)
         PROVE  [Service!Next]_(Service!svars)
    BY <1>d, <1>8 DEF InitFails
  <1>9. CASE \/ WorkerCheck \/ WorkerPop \/ WorkerIdle \/ WorkerWake
             \/ DrainDone \/ WorkerPublish \/ BeginAttempt \/ DeliverOk
             \/ EncryptFails \/ DeliverFails \/ GiveUp \/ Retry
             \/ RetryWake \/ RetryElapsed \/ Release
    BY <1>d, <1>9
    DEF WorkerCheck, WorkerPop, WorkerIdle, WorkerWake, DrainDone,
        WorkerPublish, BeginAttempt, DeliverOk, EncryptFails,
        DeliverFails, GiveUp, Retry, RetryWake, RetryElapsed, Release
  <1>10. CASE UNCHANGED vars
    BY <1>d, <1>10
  <1> QED
    BY <1>1, <1>2, <1>3, <1>4, <1>5, <1>6, <1>7, <1>8, <1>9, <1>10
    DEF Next, NewCall, InCall, WorkerStep, Deliver, Destroyed

\* For every configuration the runtime implements the service: it never holds
\* more than queueSize accepted jobs, reports one accepted job at a time, and
\* closes a session only when all are reported.
THEOREM RuntimeImplementsService == Spec => ServicePromise
  <1>1. Init => Service!Init
    BY DEF Init, Service!Init, Service!Off
  <1> QED
    BY <1>1, ServiceStep, RuntimeInvAlways, PTL
    DEF Spec, ServicePromise, Service!Promise

\* Only a shutdown that has every callback behind it and no worker left ends
\* a session.
LEMMA BarrierStep ==
    RuntimeInv /\ [Next]_vars =>
      [lifecycle = "Stopping" /\ lifecycle' = "Uninitialized" =>
         Len(called) = accepted /\ inFlight = 0 /\ wpc = "none"]_vars
  <1> SUFFICES ASSUME RuntimeInv, [Next]_vars,
                      lifecycle = "Stopping", lifecycle' = "Uninitialized"
               PROVE  Len(called) = accepted /\ inFlight = 0 /\ wpc = "none"
    OBVIOUS
  <1>1. PICK t \in Tasks : EndRelease(t)
    <2> USE DEF vars, allButCalls, implVars, queueVars, rtosVars, taskVars,
                workerVars, jobVars, callVars, ghostVars
    <2>1. ~WorkerStep /\ ~Destroyed /\ ~UNCHANGED vars
      BY DEF WorkerStep, Destroyed, WorkerCheck, WorkerPop, WorkerIdle,
             WorkerWake, DrainJob, DrainDone, WorkerPublish, BeginAttempt,
             Deliver, DeliverOk, EncryptFails, DeliverFails, GiveUp, Retry,
             RetryWake, RetryElapsed, Finish, Release
    <2>2. \A t \in Tasks : ~NewCall(t)
      BY DEF NewCall, SendAccepted, InitCall, EndCall, DestroyCall
    <2>3. \A t \in Tasks : InCall(t) => EndRelease(t)
      BY DEF InCall, SendNotify, InitRefused, InitFails, InitSucceeds,
             EndNotInitialized, EndBusy, EndPublish, EndNotify, EndTake,
             EndTimeout, EndReset
    <2> QED
      BY <2>1, <2>2, <2>3 DEF Next
  <1>2. lifecycle = "Stopping" /\ wpc = "none" /\ queueCount = 0
    BY <1>1, EndReleaseState
  <1>3. Unreported = 0 /\ Active = 0
    BY <1>2 DEF Unreported, Active, CountIf, JobSteps, Callbacks
  <1>4. inFlight \in Nat /\ accepted \in Nat /\ Len(called) \in Nat
    BY AccountingTypes DEF RuntimeInv
  <1> QED
    BY <1>2, <1>3, <1>4 DEF RuntimeInv, WorkAccounting

\* For every configuration, end() is a barrier.
THEOREM EndIsBarrierAlways == Spec => EndIsBarrier
  BY BarrierStep, RuntimeInvAlways, PTL DEF Spec, EndIsBarrier
=============================================================================
