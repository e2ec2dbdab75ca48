SPECIFICATION FairSpec
CONSTANTS
    Ring = 2
    RxKinds <- AllKinds
    MaxPayload = 1
    Sizes = {1, 2}
    Impatient = {"prepare", "send"}
    MaxFrames = 5
INVARIANT TypeOK
INVARIANT WireIsAnswers
PROPERTY ImplementsQueue
PROPERTY TransmitterReturns
CHECK_DEADLOCK FALSE
