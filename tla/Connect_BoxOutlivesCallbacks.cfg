SPECIFICATION Spec
CONSTANTS
    maxResults = 1
    maxRedirects = 1
INVARIANTS BoxOutlivesCallbacks
CHECK_DEADLOCK FALSE
