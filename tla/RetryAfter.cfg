SPECIFICATION Spec
CONSTANTS
    Digits = {0, 1, 2, 9}
    Dates <- MCDates
    Nows = {0, 5, 86400}
    MaxDelays = {0, 1500, 15000, 200000}
    Max64 = 200008
    MaxLength = 7
INVARIANTS
    TypeOK
    DelayIsTheHeaders
CHECK_DEADLOCK FALSE
