SPECIFICATION Spec
CONSTANTS
    a1 = a1
    Addr = {a1}
    Lens = {1}
    Retries = 2
    Cap = 3
    SeqSpace = 65536
    MaxCalls = 3
    MaxClock = 2
    MaxSock = 1
    ExecSpacing = 0
    Timely = FALSE
    Reordering = FALSE
    MaxDups = 1
    Tails <- NoTails
INVARIANT TypeOK
INVARIANT ExecAtMostOnce
INVARIANT AckedWriteHolds
INVARIANT ReadSinceLastAck
PROPERTY ImplementsMachine
CHECK_DEADLOCK FALSE
