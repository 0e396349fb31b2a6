SPECIFICATION StakesSpec
CONSTANTS
    Accounts = {u1, u2}
    Farm = Farm
    Dead = Dead
    MinShares = 1
    Duration = 2
    Precision = 2
    Deposits = {3}
    Amounts = {1}
    Incomes <- OneSide
    MaxLiquidity = 6
    MaxFees = 8
    MaxTime = 2
SYMMETRY Symmetric
INVARIANTS
    StakesTypeOK
    RewardsBacked
PROPERTIES
    EarnedKept
    WorthKept
CHECK_DEADLOCK FALSE
