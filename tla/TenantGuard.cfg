SPECIFICATION FairSpec
CONSTANTS
    Tenants = {t1, t2}
    Acquisitions = {a1, a2, a3}
    NoOne = NoOne
INVARIANTS
    LockInvariant
    Exclusion
PROPERTIES
    ImplementsExclusion
    NoLeakedAcquisition
    EveryCallEntersOrGivesUp
