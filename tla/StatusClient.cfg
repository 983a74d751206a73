\* The constants are those of the plain use; MCStatusClient has the others.
SPECIFICATION MCSpec
CONSTANTS
    MaxProcs = 2
    MaxSends = 3
    Stops = FALSE
    Erring = FALSE
    Waiting = FALSE
    None = None
CHECK_DEADLOCK FALSE
INVARIANTS
    Typed
    OneServer
    CallbackKnown
PROPERTIES
    AnswersDispatched
    RootRecovers
