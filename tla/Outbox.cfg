SPECIFICATION FairSpec
CONSTANTS
    m1 = m1
    Workers = {w1, w2}
    Messages = {m1}
    Chunks = 2
    MediaRows <- MCMediaRows
    Refusals <- MCRefusals
    maxDeliveryAttempts = 2
    MaxFaults = 1
    NoOne = NoOne
INVARIANTS
    TypeOK
    SentWasDelivered
    DuplicatesArePaidFor
    ChunksInOrder
PROPERTIES
    ImplementsAlertQueue
    EveryAlertSettles
CHECK_DEADLOCK FALSE
