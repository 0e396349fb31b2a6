\* Three traders, four orders of which two share a nonce, two privileged accounts.
SPECIFICATION FairBatchSpec
CONSTANTS
    alice = alice
    bob = bob
    vault = vault
    carl = carl
    boss = boss
    weth = weth
    tok = tok
    ether = ether
    Accounts = {alice, bob, vault, boss, carl}
    Principals = {boss, carl}
    Rejecting = {vault}
    Tokens = {weth, tok}
    WETH = weth
    Ether = ether
    Nonces = {1}
    Orders <- MCOrders
    SignedOrders <- MCSigned
    PriceLists <- MCPriceLists
    Swaps <- MCSwaps
    FeeChoices = {0, 100, 101}
    Endowment <- MCEndowment
    MaxTime = 2
INVARIANTS
    BatchTypeOK
    EscrowCovered
    NonceFillsOnce
    BooksBalance
PROPERTIES
    EscrowReturned
    OrdersLiveOnce
CHECK_DEADLOCK FALSE
