SPECIFICATION Spec
CONSTANTS
    Invoice = {i1}
    MaxAttempts = 1
    MaxActive = 2
    Deployment <- Usual
    PdpMoves <- PlainMoves
    MaxFaults = 0
CHECK_DEADLOCK FALSE
INVARIANT AgreementWhenQuiet
