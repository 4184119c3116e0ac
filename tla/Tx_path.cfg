SPECIFICATION FairSpec
CONSTANTS
    Scripts <- MCScripts
    windowHolds = TRUE
    Parts = 2
    FrameLen = 2
    maxChecks = 1
    maxPings = 1
    Nil = Nil
    Garbage = Garbage
INVARIANTS
    TypeOK
    FramesWhole
    MessagesWhole
    PolloutAsked
    CloseAnswerSent
PROPERTIES
    QueuedIsSent
