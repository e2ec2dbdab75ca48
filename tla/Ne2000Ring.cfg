SPECIFICATION FairSpec
CONSTANTS
    Byte = 7
    Start = 2
    End = 6
    PageCounts = {1, 2}
    MaxSize = 2
    Sizes = {1, 2}
    MaxFrames = 5
INVARIANT TypeOK
INVARIANT AllButTheFirst
PROPERTY LappedOnlyBeforeRing
PROPERTY AnnouncedIsTaken
CHECK_DEADLOCK FALSE
