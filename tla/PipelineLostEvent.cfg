SPECIFICATION Spec
CONSTANTS
    Invoice = {i1}
    MaxVersion = 1
    MaxWebhooks = 1
    MaxActions = 0
    MaxAttempts = 1
    MaxActive = 2
    MaxFaults = 1
CHECK_DEADLOCK FALSE
INVARIANT RecordedEventsHaveJobs
