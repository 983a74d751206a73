\* MCKlib has the constants of the parts.
SPECIFICATION Spec
CHECK_DEADLOCK FALSE
INVARIANTS
    ThreadsSound
    DataSound
PROPERTIES
    KlibSteps
    KlibEnds
