\* One request is enough.
SPECIFICATION Spec
CONSTANTS
    MaxPairs = 2
    Sizes = {1}
INVARIANT UpstreamOfMasterArrives
CHECK_DEADLOCK FALSE
