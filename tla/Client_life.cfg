SPECIFICATION FairSpec
CONSTANTS
    m1 = m1  m2 = m2  m3 = m3
    Msgs = {m1, m2, m3}
    CloseMsgs = {m3}
    PingMsgs = {m2}
    Size <- MCSize
    maxFrameSize = 2
    Reentrant = {m2}
    Nil = Nil  noStatus = noStatus  goingAway = goingAway
    peerStatus = peerStatus  protocolErr = protocolErr
INVARIANTS ClosedQueueEmpty PromiseHeldOnce WireInOrder StatusAgrees
PROPERTIES ImplementsConnection PromisesResolve CloseCloses
CHECK_DEADLOCK FALSE
