SPECIFICATION Spec
CONSTANTS
    Overlap = TRUE
    CheckFaults = TRUE
    Messages = {m1, m2, m3}
    Requests = {r1, r2}
    Timeout = 1
    MaxTime = 2
    ListLimit = 3
CHECK_DEADLOCK FALSE
SYMMETRY Symmetry
INVARIANTS TypeOK AgentStatusHasMessage TransferNotForgotten
PROPERTIES ResolvesOpenConversations
