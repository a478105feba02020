SPECIFICATION CliSpec
CONSTANTS
    Tier = {"network", "vitals"}
    Keys <- OneMetricEach
    Value = {0, 2}
    Threshold = {1}
    MaxRuns = 3
    BudgetFile <- Files
    MaxFaults = 1
INVARIANTS
    VerdictIsWorst
    TwoRunsOutvoteOne
    GateHolds
    ExitTellsOutcome
    StoredOrWarned
CHECK_DEADLOCK FALSE
