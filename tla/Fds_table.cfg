SPECIFICATION FairSpec
CONSTANTS
    Conns = {c1, c2}
    Pipe = Pipe
    None = None
    FdLimits = {2, 3}
    maxAttempts = 1
    Senders = {c1}
    maxSends = 1
INVARIANTS TableAgrees ReventsOwn ScanLeavesNothing AskInOwnSlot
PROPERTIES FramesWritten InputServed
