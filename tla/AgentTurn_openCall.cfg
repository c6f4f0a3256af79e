SPECIFICATION Spec
CONSTANTS
    Agents = {"root", "helper"}
    Root = "root"
    Unknown = "unknown"
    NoAgent = "none"
    Configs <- MCConfigs
    NumTurns = 2
    NumCalls = 3
    MaxBatch = 2
CHECK_DEADLOCK FALSE
INVARIANT
    CancelLeavesNoOpenCall
