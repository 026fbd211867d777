SPECIFICATION Spec
CONSTANTS
    Handlers = {h1, h2}
    Kinds <- AllKinds
    Threshold = 2
    MaxHistory = 2
    Concurrent = TRUE
    Faults = TRUE
SYMMETRY Symmetry
INVARIANTS HistoryInOrder EarnedTransfer
CHECK_DEADLOCK FALSE
