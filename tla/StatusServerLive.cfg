\* Liveness: the loop, the pool and a reading client make progress.
SPECIFICATION FairSpec
CONSTANTS
    Frames <- FewFrames
    Slots = {s1, s2}
    Workers = {w1, w2}
    None = None
    InCap = 2
    OutCap = 1
    MaxFrames = 3
    EnumSize = 4
CHECK_DEADLOCK FALSE
PROPERTIES
    InterruptEnds
    ServiceProgress
