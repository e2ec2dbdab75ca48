SPECIFICATION FairSpec
CONSTANTS
    a1 = a1
    Addr = {a1}
    Lens = {1}
    Retries = 2
    Cap = 2
    SeqSpace = 65536
    MaxCalls = 3
    MaxClock = 1
    MaxSock = 2
    ExecSpacing = 0
    Timely = FALSE
    Reordering = TRUE
    MaxDups = 0
    Tails <- NoTails
INVARIANT WriteAckIsOwn
PROPERTY CallReturns
CHECK_DEADLOCK FALSE
