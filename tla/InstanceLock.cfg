SPECIFICATION Spec
CONSTANTS
    Processes = {p1, p2, p3}
    NoSession = NoSession
    MaxDrops = 2
INVARIANTS
    TypeOK
    LockOrUnnoticedLoss
PROPERTIES
    NobodyWaitsForTheDead
    OverlapEnds
