\* Every stream of up to 13 two-valued bytes, in chunks of up to 6.
SPECIFICATION FairSpec
CONSTANTS
    Base = 2
    MAX_MESSAGE_SIZE = 3
    ReadSize = 6
    MaxBytes = 13
CHECK_DEADLOCK FALSE
INVARIANTS
    InBounds
    ParsesStream
PROPERTIES
    SilentOnceClosed
    ConsumeReturns
