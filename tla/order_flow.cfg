\* The gateway routes an order to a round with bids, some of them unsigned.
SPECIFICATION FlowSpec
CONSTANTS
    s1 = s1
    s2 = s2
    t = t
    o1 = o1
    zero = zero
    Accounts = {s1, s2, t}
    Principals = {t}
    Payees = {t}
    ZeroAddress = zero
    Rejecting = {}
    Opportunities = {o1}
    NotSettled = NotSettled
    Bids <- AllBids
    SignedBids <- SignedOnes
    UnsignedBids <- UnsignedOnes
    Splits <- OneSplit
    Endowment <- Bonds
    Searchers = {s1, s2}
    Leavers = {}
    Users = {t, zero}
    WithdrawDelay = 1
    MaxTime = 2
    Window = 0
    Landing = 1
    CacheTTL = 1
    Latency = 0
    HoldTTL = 0
    MaxBids = 2
    OpenRounds = 1
    Patience = 1
    Failures = 1
INVARIANTS
    ReceiptComplete
    HonestReceiptPasses
    ChargedAsPublished
    HoldsReleased
PROPERTIES
    EveryOrderSent
CHECK_DEADLOCK FALSE
