CONSTANTS
    s1 = s1
    s2 = s2
    Shards = {s1}
    Fetcher = f
    Quotas <- MCQuotaKinds
    Limit <- MCLimit
    CapturesPerMinute = 1
    WarnPercent = 50
    MaxOpen = 1
SPECIFICATION Spec
INVARIANTS
    TypeOK
    OvershootBounded
    NoSilentDrop
