SPECIFICATION Spec
CONSTANTS
    Overlap = TRUE
    CheckFaults = FALSE
    Messages = {m1, m2}
    Requests = {r1}
    Timeout = 1
    MaxTime = 2
    ListLimit = 50
CHECK_DEADLOCK FALSE
SYMMETRY Symmetry
PROPERTIES TakeoverLasts
