SPECIFICATION Spec
CONSTANTS
    Runner = {r1, r2}
    MaxAttempts = 3
    MaxFaults = 3
INVARIANTS
    AppliedInOrder
    DoneMeansMigrated
    FailsOnlyForCause
    MigrationsInv
