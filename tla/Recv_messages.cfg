SPECIFICATION FairSpec
CONSTANTS
    rxBufferSize = 2
    Connects <- BothConnects
    NoLimit = NoLimit
    Frames <- AllFrames
    maxFrames = 3
INVARIANTS TypeOK WholeMessages
PROPERTIES NothingAfterOnClose AllDelivered LargeMessageKills
CHECK_DEADLOCK FALSE
