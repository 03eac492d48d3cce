SPECIFICATION Spec
CONSTANTS
    Callers = {c1, c2}
    Worker = worker
    Nobody = nobody
    QueueSize = 2
    MaxRetries = 1
    CallbackApi = {"send", "init", "end"}
    MaxSends = 3
    MaxSessions = 2
SYMMETRY CallerSymmetry
INVARIANTS
    TypeOK
    QueueIsPendingSuffix
    WorkAccounting
    ExactlyOnceInOrder
    Ownership
    WorkerOwnsRuntime
    OffHoldsNothing
    NoLostWakeup
    ReportIsHonest
    NoExtraAttempt
    DestroyedIsQuiet
PROPERTIES
    EndIsBarrier
    ServicePromise
