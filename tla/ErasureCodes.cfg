SPECIFICATION Spec
CONSTANTS
    Handlers = {h1, h2}
    Fetchers = {}
    Workers = {}
    Conn = c1
    Owner = o1
    NoOwner = NoOwner
    Items = {m1}
    Codes = {k1, k2}
    None = None
SYMMETRY MCSymmetry
INVARIANT
    TypeOK
PROPERTIES
    CompletionLeavesOnlyTheReceipt
    OnlyAnUnfinishedErasureDeletes
