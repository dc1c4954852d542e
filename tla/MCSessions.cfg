CONSTANTS
    Sid = {s1, s2}
    Req = {r1, r2}
    Free = free
    Duration = 2
    IdleTTL = 1
    RefreshTTL = 2
    MaxLifetime = 0
    GraceWindow = 1
    TouchDebounce = 0
    PruneGrace = 1
    Latency = 3
    MaxTime = 4
    MaxToken = 3
SPECIFICATION Spec
SYMMETRY Symmetry
INVARIANTS OneSuccessor TokensNameOneSession ReuseEndsSession
PROPERTY PruneSparesUsable
CHECK_DEADLOCK FALSE
