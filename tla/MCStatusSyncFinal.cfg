SPECIFICATION FairSpec
CONSTANTS
    Invoice = {i1}
    MaxAttempts = 1
    MaxActive = 1
    Deployment <- Usual
    PdpMoves <- PlainMoves
    MaxFaults = 0
CHECK_DEADLOCK FALSE
PROPERTY StatusBecomesFinal
