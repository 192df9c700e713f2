SPECIFICATION FairSpec
CONSTANTS
    Job = {j1, j2}
    NoJob = NoJob
    Process = {p1, p2}
    MaxInFlight = 2
    MaxAttempts = 2
    EnqueueDelay = {0, 1}
    MaxLag = 1
    MaxFaults = 2
INVARIANTS
    ExclusiveExecution
    RetryBudget
    OrphansBounded
    QueueInv
PROPERTIES
    ImplementsLifecycle
    EveryJobSettles
