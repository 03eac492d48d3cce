SPECIFICATION FairSpec
CONSTANTS
    Callers = {c1, c2}
    Worker = worker
    Nobody = nobody
    QueueSize = 1
    MaxRetries = 1
    CallbackApi = {"send"}
    MaxSends = 2
    MaxSessions = 1
PROPERTIES
    StopReachesWorker
    DestructorReturns
    ServiceLivePromise
