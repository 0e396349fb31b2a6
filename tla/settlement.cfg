\* A searcher that is also user and sometimes treasury, owner or auctioneer; a
\* second account that holds the same roles and refuses ETH; a reading of collateral().
SPECIFICATION FairQuoteSpec
CONSTANTS
    s1 = s1
    t = t
    o1 = o1
    o2 = o2
    zero = zero
    Accounts = {s1, t}
    Principals = {s1, t}
    Payees = {s1}
    ZeroAddress = zero
    NotSettled = NotSettled
    Rejecting = {t}
    Opportunities = {o1, o2}
    Bids <- MCBids
    SignedBids <- MCSignedBids
    Splits <- MCOneSplit
    Endowment <- MCEndowment
    WithdrawDelay = 1
    MaxTime = 2
INVARIANTS
    TypeOK
    Solvent
    QuoteBacked
PROPERTIES
    DebitsAccounted
    UserFloor
    ClaimsKept
    WithdrawalsEnd
