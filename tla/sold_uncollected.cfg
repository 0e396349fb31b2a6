\* One round after the other; the second is won while the first settlement is on its way.
SPECIFICATION HouseSpec
CONSTANTS
    s1 = s1
    t = t
    o1 = o1
    o2 = o2
    zero = zero
    Accounts = {s1, t}
    Principals = {t}
    Payees = {t}
    ZeroAddress = zero
    Rejecting = {}
    Opportunities = {o1, o2}
    NotSettled = NotSettled
    Bids <- OneEach
    SignedBids <- OneEach
    UnsignedBids <- NoBids
    Splits <- OneSplit
    Endowment <- BondOfOne
    Searchers = {s1}
    Leavers = {}
    Users = {t}
    WithdrawDelay = 3
    MaxTime = 1
    Window = 1
    Landing = 1
    CacheTTL = 1
    Latency = 0
    HoldTTL = 1
    MaxBids = 2
    OpenRounds = 1
    Failures = 0
INVARIANTS
    SoldIsCollectable
CHECK_DEADLOCK FALSE
