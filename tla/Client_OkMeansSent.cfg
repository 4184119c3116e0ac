SPECIFICATION Spec
CONSTANTS
    m1 = m1  m2 = m2  m3 = m3
    Msgs = {m1, m3}
    CloseMsgs = {m3}
    PingMsgs = {}
    Size <- MCSize
    maxFrameSize = 2
    Reentrant = {}
    Nil = Nil  noStatus = noStatus  goingAway = goingAway
    peerStatus = peerStatus  protocolErr = protocolErr
CHECK_DEADLOCK FALSE
INVARIANT OkMeansSent
