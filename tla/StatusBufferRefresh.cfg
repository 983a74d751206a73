\* No section function waits; an error may strike.
SPECIFICATION Spec
CONSTANTS
    Roots = {r1, r2}
    Sections = 2
    MaxVersion = 1
    MaxAsked = 2
    Waiting = FALSE
    None = None
PROPERTY RefreshShowsCurrent
