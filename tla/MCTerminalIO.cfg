SPECIFICATION PartSpec
CONSTANTS
    MaxOut = 3
    MaxTyped = 0
    MaxGen = 2
    MaxInput = 3
    MaxReplies = 1
    QueueRoom = 1
    LogLimit = 2
    ReadErrors = FALSE
    LateWriter = FALSE
INVARIANTS
    OutputRevisionNamesScreen
    OutputLogTruthful
    TypedInOrder
CHECK_DEADLOCK FALSE
