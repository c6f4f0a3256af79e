SPECIFICATION FairSpec
CONSTANTS
    NumBranches = 3
    MaxEvents <- MCMaxEvents
CHECK_DEADLOCK FALSE
INVARIANTS
    TypeOK
    InStep
    EndsWhole
PROPERTY
    FailureEndsAll
