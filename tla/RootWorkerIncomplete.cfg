\* pthread_create may fail for a gating task.
SPECIFICATION Spec
CONSTANTS
    N = 3
    Gating = {1, 2}
    Streaming = {2, 3}
    Lenient = {2}
    Forgotten = {3}
    MayNotStart = {1}
    MaxVersion = 0
    Id = Id
    None = None
CHECK_DEADLOCK FALSE
INVARIANTS
    CompleteResult
