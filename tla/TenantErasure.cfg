SPECIFICATION Spec
CONSTANTS
    Handlers = {h1, h2}
    Fetchers = {b}
    Workers = {b}
    Conn = c1
    Owner = o1
    NoOwner = NoOwner
    Items = {m1}
    Codes = {k1}
    None = None
SYMMETRY MCHandlerSymmetry
INVARIANTS
    ErasedMeansGone
    OneEraserAtATime
