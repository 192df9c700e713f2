SPECIFICATION Spec
CONSTANTS
    Invoice = {i1}
    MaxVersion = 2
    MaxWebhooks = 2
    MaxActions = 0
    MaxAttempts = 1
    MaxActive = 2
    MaxFaults = 0
CHECK_DEADLOCK FALSE
INVARIANT UpdatesAreSubmitted
