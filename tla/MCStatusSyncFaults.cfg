SPECIFICATION WorkerSpec
CONSTANTS
    Invoice = {i1}
    MaxAttempts = 2
    MaxActive = 2
    Deployment <- BothProviders
    PdpMoves <- ShortMoves
    MaxFaults = 1
CHECK_DEADLOCK FALSE
INVARIANTS
    NoDuplicateSubmission
    ShownStatusWasGiven
    RowTellsItsOwnStatus
    SyncInv
    PollingStopsOnlyAfterRetry
    PollingFits
PROPERTY EverySubmissionIsPolled
