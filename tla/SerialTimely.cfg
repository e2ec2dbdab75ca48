SPECIFICATION FairSpec
CONSTANTS
    Calls <- TimelyCalls
    MaxCalls = 4
    Cells = 3
    Limit8086 = 1
    Limit286 = 2
    Word = 3
    InBufSize = 3
    X64Build = "x64"
    SlowExec = FALSE
    Restarts = FALSE
CHECK_DEADLOCK FALSE
INVARIANT InStep
INVARIANT OkMeansDone
INVARIANT FailMeansNotDone
PROPERTY CallReturns
