SPECIFICATION Spec
CONSTANTS
    t1 = t1
    t2 = t2
    t3 = t3
    Turns = {t1, t2, t3}
    NoTurn = NoTurn
    Configs <- Concurrent
CHECK_DEADLOCK FALSE
INVARIANT
    ConcurrentAppendsKept
