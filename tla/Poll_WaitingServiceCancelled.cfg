SPECIFICATION Spec
CONSTANTS
    c1 = c1  c2 = c2
    Closures = {}
    maxSends = 2
    copiesBack = FALSE
INVARIANTS WaitingServiceCancelled
