CONSTANTS
    s1 = s1
    s2 = s2
    Shards = {s1, s2}
    Fetcher = f
    Quotas <- MCQuotaKinds
    Limit <- MCLimit
    CapturesPerMinute = 2
    WarnPercent = 50
    MaxOpen = 0
SPECIFICATION Spec
INVARIANTS
    NoOvershoot
