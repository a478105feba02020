SPECIFICATION VitalsSpec
CONSTANTS
    Gap = 1
    Cap = 2
    Allowance = 1
    ResponseEnd = 1
    Score <- Scores
    LongTask <- Durations
    MaxTime = 5
    MaxEntries = 4
INVARIANT TbtIsAfterFcp
CHECK_DEADLOCK FALSE
