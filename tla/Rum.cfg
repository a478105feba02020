SPECIFICATION FairRumSpec
CONSTANTS
    r1 = r1
    r2 = r2
    Request <- Two
    Grain = 2
    Burst = 1
    Metric = {"LCP", "INP"}
    Limit = 4
    Retention = 1
    Horizon = 3
INVARIANTS
    RateIsBounded
    WritePressureIsBounded
    SummaryIsOfAll
PROPERTY OpensAgain
