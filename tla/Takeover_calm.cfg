SPECIFICATION Spec
CONSTANTS
    Overlap = FALSE
    CheckFaults = FALSE
    Messages = {m1, m2, m3}
    Requests = {r1, r2, r3}
    Timeout = 2
    MaxTime = 4
    ListLimit = 50
CHECK_DEADLOCK FALSE
SYMMETRY Symmetry
PROPERTIES TakeoverLasts ReplyTakesOver TransferReopens SilencedReachesAgent
