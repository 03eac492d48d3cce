SPECIFICATION Spec
CONSTANT LastYear = 2401
INVARIANT
    DaysFromCivilCounts
CHECK_DEADLOCK FALSE
