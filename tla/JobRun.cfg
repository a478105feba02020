SPECIFICATION Spec
CONSTANTS
    network = network  vitals = vitals
    Tier = {network, vitals}
    Runs = 2
    HasBudget = TRUE
    HasWebhook = TRUE
    StoreMayFail = TRUE
INVARIANTS
    StatusMatchesRuns
    ReadersSeeResults
    NoticeIsFaithful
    NoticeIsEnqueued
PROPERTY DeletionIsComplete
CHECK_DEADLOCK FALSE
