\* Two rounds open at once; bids on both arrive together and read the cache.
SPECIFICATION HouseSpec
CONSTANTS
    s1 = s1
    t = t
    o1 = o1
    o2 = o2
    zero = zero
    Accounts = {s1, t}
    Principals = {t}
    Payees = {t}
    ZeroAddress = zero
    Rejecting = {}
    Opportunities = {o1, o2}
    NotSettled = NotSettled
    Bids <- TwoEachAndMore
    SignedBids <- TwoEachAndMore
    UnsignedBids <- NoBids
    Splits <- OneSplit
    Endowment <- BondOfTwo
    Searchers = {s1}
    Leavers = {}
    Users = {t}
    WithdrawDelay = 3
    MaxTime = 1
    Window = 1
    Landing = 1
    CacheTTL = 1
    Latency = 0
    HoldTTL = 1
    MaxBids = 3
    OpenRounds = 2
    Failures = 0
INVARIANTS
    BondBacksOnce
CHECK_DEADLOCK FALSE
