SPECIFICATION Spec
CONSTANTS
    a1 = a1
    Addr = {a1}
    Lens = {1, 2}
    Retries = 3
    Cap = 2
    SeqSpace = 65536
    MaxCalls = 3
    MaxClock = 2
    MaxSock = 2
    ExecSpacing = 1
    Timely = TRUE
    Reordering = FALSE
    MaxDups = 0
    Tails <- NoTails
INVARIANT ExecOkMeansExecuted
INVARIANT ReadOkIsCurrent
PROPERTY FailOnlyInSilence
CHECK_DEADLOCK FALSE
