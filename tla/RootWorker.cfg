\* A task that gates, one that gates, streams and is lenient, and one that streams
\* and may fail without consequence.  The thread of the first may not start.  The
\* request ends, so it may stop.
SPECIFICATION FairSpec
CONSTANTS
    N = 3
    Gating = {1, 2}
    Streaming = {2, 3}
    Lenient = {2}
    Forgotten = {3}
    MayNotStart = {1}
    MaxVersion = 2
    Id = Id
    None = None
CHECK_DEADLOCK FALSE
INVARIANTS
    NoRace
    CleanupSeesValid
    CompleteIfStarted
    ReadsInWindow
PROPERTIES
    ServiceSpec
    ServiceProgress
