SPECIFICATION Spec
CONSTANTS
    Runner = {r1}
    MaxAttempts = 3
    MaxFaults = 1
INVARIANT RerunsAreSafe
