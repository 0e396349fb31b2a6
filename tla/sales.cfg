\* A bid in each of two rounds; the bond is asked back, replies are late, one thing fails.
SPECIFICATION HouseSpec
CONSTANTS
    s1 = s1
    t = t
    o1 = o1
    o2 = o2
    zero = zero
    Accounts = {s1, t}
    Principals = {t}
    Payees = {t}
    ZeroAddress = zero
    Rejecting = {}
    Opportunities = {o1, o2}
    NotSettled = NotSettled
    Bids <- OneEach
    SignedBids <- OneEach
    UnsignedBids <- NoBids
    Splits <- OneSplit
    Endowment <- BondOfOne
    Searchers = {s1}
    Leavers = {s1}
    Users = {t}
    WithdrawDelay = 3
    MaxTime = 4
    Window = 1
    Landing = 0
    CacheTTL = 1
    Latency = 1
    HoldTTL = 1
    MaxBids = 2
    OpenRounds = 2
    Failures = 1
PROPERTIES
    CollectableUnlessOverlooked
CHECK_DEADLOCK FALSE
