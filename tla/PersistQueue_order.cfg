SPECIFICATION FairSpec
CONSTANTS
    Tasks = {t1, t2, t3}
    Sessions = {s1, s2}
    NoTask = NoTask
    MaxStops = 1
INVARIANTS TypeOK WrittenInOrder OneConversation NothingKept WaitCovers
PROPERTIES LogSpec ExchangesSettle
CHECK_DEADLOCK FALSE
