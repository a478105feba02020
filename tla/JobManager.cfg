SPECIFICATION FairSpec
CONSTANTS
    j1 = j1  j2 = j2  j3 = j3  w1 = w1  w2 = w2  h1 = h1
    NoJob = NoJob
    Job <- MCJobs2
    ScheduledJob <- MCScheduled
    Worker = {w1, w2}
    Handler = {h1}
    QueueDepth = 1
    ClientMayLeave = TRUE
    StoreMayFail = TRUE
INVARIANTS
    PendingRowHasOwner
    RunningRowHasWorker
    CancelledNeverRuns
    PendingIsAccounted
PROPERTIES
    ImplementsLifecycle
    AcceptedIsDecided
    ShutdownEnds
