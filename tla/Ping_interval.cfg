SPECIFICATION FairSpec
CONSTANTS
    Setters = {t1, t2}
    maxSets = 3
    Timers = {k1, k2, k3, k4}
    NoTimer = NoTimer
    NoSetter = NoSetter
INVARIANTS KeepaliveRuns NoSpuriousClose
PROPERTIES DeadPeerCloses PingingStops
CHECK_DEADLOCK FALSE
