\* A subscriber, and a request beside it.
SPECIFICATION GatewaySpec
CONSTANTS
    r1 = r1
    r2 = r2
    r3 = r3
    s1 = s1
    s2 = s2
    None = None
    Requests = {r1, r2, r3}
    Slots = 1
    MaxWait = 1
    Ttl = 1
    HedgeAfter = 1
    Timeout = 1
    Lag = 0
    Sockets = {s1, s2}
    MaxCatchUp = 2
    Workloads <- MCBoth
    MaxTime = 4
INVARIANTS
    CachedHeadExact
CHECK_DEADLOCK FALSE
