SPECIFICATION Spec
CONSTANTS
    Handlers = {h1, h2, h3}
    Kinds <- AllKinds
    Threshold = 2
    MaxHistory = 3
    Concurrent = FALSE
    Faults = TRUE
SYMMETRY Symmetry
INVARIANTS TypeOK OwnMessageLast
PROPERTIES PolicySpec
CHECK_DEADLOCK FALSE
