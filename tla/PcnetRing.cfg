SPECIFICATION FairSpec
CONSTANTS
    Ring = 3
    RxKinds <- AllKinds
    MaxPayload = 1
    Sizes = {1, 2}
    MaxFrames = 6
INVARIANT TypeOK
INVARIANT HeldIntact
INVARIANT HandledInOrder
INVARIANT NoneLost
INVARIANT WireIsAnswers
PROPERTY MissOnlyWhenFull
PROPERTY RingDrains
PROPERTY AnswersGoOut
CHECK_DEADLOCK FALSE
