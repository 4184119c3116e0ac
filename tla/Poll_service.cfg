SPECIFICATION FairSpec
CONSTANTS
    c1 = c1  c2 = c2
    Closures = {c1, c2}
    maxSends = 2
    copiesBack = TRUE
INVARIANTS AskNotForgotten LateNoteHarmless FastWakes
PROPERTIES FramesWritten
