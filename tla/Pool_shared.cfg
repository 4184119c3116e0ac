SPECIFICATION Spec
CONSTANTS
    Threads = {t1, t2, t3}
    coreCount = 3
    maxCalls = 6
INVARIANTS BuiltOnce CanRetry Spread
CHECK_DEADLOCK FALSE
