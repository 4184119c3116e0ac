SPECIFICATION Spec
CONSTANTS
    rxBufferSize = 2
    Connects <- LimitedConnect
    NoLimit = NoLimit
    Frames <- AllFrames
    maxFrames = 3
INVARIANTS OnlyWholeMessages
CHECK_DEADLOCK FALSE
