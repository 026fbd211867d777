SPECIFICATION Spec
CONSTANTS
    Customers = {c1, c2}
    Exchanges = {e1, e2, e3}
    Kinds = {"product", "low_rag_confidence", "order_transfer"}
    Period = 3
    Day = 2
    MaxTime = 9
SYMMETRY Interchangeable
INVARIANTS RateBetweenReads FiguresAreExchanges
CHECK_DEADLOCK FALSE
