SPECIFICATION FairExecSpec
CONSTANTS
    exec = exec
    write = write
    kill1 = kill1
    kill2 = kill2
    timer0 = timer0
    Tasks = {exec, write, kill1, timer0}
    Timer = timer0
    MaxLines = 1
    MaxWrites = 2
    Modes = {"pipes", "tty"}
    Descendants = TRUE
    Starter = exec
    Writers = {write}
    Killers = {kill1}
    Limit = 1
CHECK_DEADLOCK FALSE
INVARIANTS
    ExecTypeOK
    ExitIsFinal
    NoOrphan
PROPERTIES
    ImplementsStream
    CallsReturn
