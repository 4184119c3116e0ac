SPECIFICATION FairSpec
CONSTANTS
    maxResults = 3
    maxRedirects = 4
INVARIANTS
    FailureReported
    WebsocketCurrent
    NoReadAfterFree
PROPERTIES
    ConnectEnds
    ReleaseFrees
CHECK_DEADLOCK FALSE
