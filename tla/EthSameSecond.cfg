SPECIFICATION Spec
CONSTANTS
    a1 = a1
    Addr = {a1}
    Lens = {1}
    Retries = 3
    Cap = 3
    SeqSpace = 65536
    MaxCalls = 2
    MaxClock = 1
    MaxSock = 1
    ExecSpacing = 0
    Timely = TRUE
    Reordering = FALSE
    MaxDups = 0
    Tails <- NoTails
INVARIANT ExecOkMeansExecuted
CHECK_DEADLOCK FALSE
