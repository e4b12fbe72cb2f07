SPECIFICATION Spec
CONSTANTS
    c1 = c1
    c2 = c2
    o1 = o1
    o2 = o2
    Procs = {p1, p2}
    Conns = {c1, c2}
    Owners = {o1, o2}
    Claims <- MCClaims
    Allowlists <- MCAllowlists
    MaxEntries = 1
    Labels = {}
    NoOwner = NoOwner
INVARIANT
    ServedEnabledIsEnabled
