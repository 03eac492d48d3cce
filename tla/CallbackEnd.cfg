SPECIFICATION Spec
CONSTANTS
    Callers = {c1, c2}
    Worker = worker
    Nobody = nobody
    QueueSize = 1
    MaxRetries = 1
    CallbackApi = {"send", "end"}
    MaxSends = 1
    MaxSessions = 1
INVARIANT
    CallbackEndReturnsBusy
