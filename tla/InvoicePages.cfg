SPECIFICATION Spec
CONSTANTS
    N = 3
    PerSecond = 2
    MaxTime = 3
    Limits = {0, 3}
    MaxLimit = 2
    MaxChanges = 1
INVARIANTS
    NothingIsRepeated
    MissedOnlyWithinASecond
    PortalAddsUp
    PagesInv
CHECK_DEADLOCK FALSE
