\* Of FuzzyJobs, StrPool and FuzzyCommands; MCFuzzyServer has the constants of the other parts.
SPECIFICATION Spec
CONSTANTS
    MaxMsgs = 3
    MaxFiles = 1
    MaxOutput = 1
    Failures = {"spawn", "popen"}
    BlockSize = 6
    StringLengths = {0, 1, 2, 4}
    MaxStrings = 6
    Values = {"", "w", "cmd"}
    MaxLoads = 3
    MaxLen = 1
CHECK_DEADLOCK FALSE
INVARIANTS
    JobsSound
    InputSound
    ListsSound
PROPERTIES
    FuzzySteps
    EveryMessageEnds
