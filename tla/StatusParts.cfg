SPECIFICATION Spec
CONSTANTS
    \* git writes more to stderr than the pipe, and the server's buffer, hold.
    Callers = {"p", "q"}
    MaxOut = 1
    MaxErr = 2
    PipeSize = 1
    ErrorSize = 2
    \* A message that fits and one that is cut, and so is its line.
    Threads = {"s", "t"}
    MsgSize = 3
    BufSize = 5
    Prefix = 2
    Lengths = {1, 3}
    MaxSteps = 2
    \* Two repositories; a section function may wait for another answer.
    Roots = {"r", "s"}
    Sections = 2
    MaxVersion = 1
    MaxAsked = 1
    Waiting = TRUE
    None = None
    \* Every byte of a length is at its end in one of the sizes.
    MaxPairs = 5
    Sizes = {1, 255, 256, 65535, 65536, 16777215, 16777216, 2147483647}
    \* Loops run four times; their bounds are reached before that.
    LogLimit = 2
    TagSearch = 2
    MaxItems = 4
CHECK_DEADLOCK FALSE
INVARIANTS
    RoutinesSound
    MessageOwned
    MessageArrives
    CaptureSound
    LogSound
    RecordsArrive
    BufferOwn
PROPERTIES
    BufferFresh
    PartsReturn
