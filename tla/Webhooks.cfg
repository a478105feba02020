CONSTANTS
    Delivery <- Two
    MaxRetries = 2
    BatchSize = 1
    ChanDepth = 1
    MaxFaults = 1
SPECIFICATION FairSpec
INVARIANTS
    TypeOK
    AttemptsAreCounted
    NoDuplicate
PROPERTIES
    ImplementsNoticeLifecycle
    DeliveryIsDecided
