CONSTANTS
    s1 = s1
    s2 = s2
    s3 = s3
    Schedule <- Three
    BatchSize = 2
    Failing = {"due", "count", "submit", "mark", "recover"}
    MaxFaults = 1
SPECIFICATION FairSpec
INVARIANTS
    TypeOK
    NoPileup
PROPERTIES
    JobsAreSpaced
    DueIsServed
