SPECIFICATION Spec
CONSTANTS
    MaxTasks = 3
    w1 = w1
    w2 = w2
    Turns = {w1, w2}
    Configs <- MCConfigs
    Updates <- MCUpdates
INVARIANTS
    TypeOK
    EdgesMirrored
    NoDeadlockedTasks
    OneInProgress
    DetectCycleExact
PROPERTY
    TasksKept
SYMMETRY Symmetry
