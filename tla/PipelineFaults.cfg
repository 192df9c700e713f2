SPECIFICATION FairSpec
CONSTANTS
    Invoice = {i1}
    MaxVersion = 2
    MaxWebhooks = 1
    MaxActions = 1
    MaxAttempts = 2
    MaxActive = 2
    MaxFaults = 1
CHECK_DEADLOCK FALSE
INVARIANTS
    StageInputsExist
    SubmissionIsConsistent
    PipelineInv
PROPERTIES
    StatusMovesForward
    PipelineCompletes
