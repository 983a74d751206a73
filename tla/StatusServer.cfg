\* Safety, with every kind of frame; the server ends, so it may stop.
SPECIFICATION Spec
CONSTANTS
    Frames <- MCFrames
    Slots = {s1, s2}
    Workers = {w1, w2}
    None = None
    InCap = 2
    OutCap = 1
    MaxFrames = 3
    EnumSize = 4
CHECK_DEADLOCK FALSE
INVARIANTS
    OneOwner
    Conservation
PROPERTIES
    NothingAcceptedOnceClosed
    ServiceSpec
