SPECIFICATION FairSpec
CONSTANTS
    Delays <- MCDelays
    TickRate = 3
    MsPerSecond = 4
    TickModulus = 8
    ConversionModulus = 32
    MaxWork = 2
    MaxBusy = 2
INVARIANTS
    TypeOK
    WaitIsFull
    WaitIsNotStretched
    StopIsNotSlept
PROPERTIES
    WaitEnds
CHECK_DEADLOCK FALSE
