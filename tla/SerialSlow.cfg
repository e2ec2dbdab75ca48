SPECIFICATION Spec
CONSTANTS
    Calls <- SlowCalls
    MaxCalls = 3
    Cells = 3
    Limit8086 = 1
    Limit286 = 2
    Word = 3
    InBufSize = 3
    X64Build = "8086"
    SlowExec = TRUE
    Restarts = TRUE
INVARIANT TypeOK
INVARIANT DataIsOwn
INVARIANT AcceptedLines
INVARIANT TestRepairsOne
CHECK_DEADLOCK FALSE
