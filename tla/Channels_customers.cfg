SPECIFICATION Spec
CONSTANTS
    Numbers = {phone}
    WebIds = {page}
    Deliveries = {d1}
    Handlers = {h1, h2}
    NoChannel = NoChannel
    NoDelivery = NoDelivery
    MaxRestarts = 1
INVARIANTS LostOnlyByConflict ReplyReaches
PROPERTIES AlwaysAcknowledged
CHECK_DEADLOCK FALSE
