SPECIFICATION FairSpec
CONSTANTS
    Keys = {"y", "p", "i", "o", "x", "9", ".", "backspace", "enter", "esc", "up", "down"}
    MaxTyped = 1
    Word = 4
    Echo = 2
    MinHeader = 1
    MinIcmp = 2
    Buses = 4
    Devices = 2
    Functions = 2
    MaxDevice = 4
    Machines <- SomeMachines
    Frames <- SomeFrames
    DefaultIp <- Me
    Byte = 9
    MaxInput = 4
    Lines = 2
    MaxSelect = 3
INVARIANT TypeOK
INVARIANT NoPhantoms
INVARIANT CallsOnlyStarted
INVARIANT RightAnswers
PROPERTY IrqServed
PROPERTY BootDone
CHECK_DEADLOCK FALSE
