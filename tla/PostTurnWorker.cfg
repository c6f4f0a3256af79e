SPECIFICATION FairSpec

CONSTANTS
    NumTurns = 4
    MaxSize = 2

CHECK_DEADLOCK FALSE

INVARIANTS
    TypeOK
    OneThreadPerWorker
    


    
