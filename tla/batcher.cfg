\* A signed order and a deposit, posted twice in all and free to share a batch; one failure.
SPECIFICATION FairBatcherSpec
CONSTANTS
    o1 = o1
    o2 = o2
    r1 = r1
    r2 = r2
    Orders = {o1, o2}
    Key <- MCKey
    PairOf <- MCPairOf
    Deposited = {o2}
    ValidTo <- MCValidTo
    Requests = {r1, r2}
    Absent = Absent
    MaxAttempts = 2
    MaxValid = 2
    Keep = 2
    Pause = 1
    ReceiptWait = 1
    Failures = 1
    MaxTime = 3
INVARIANTS
    ToldAsItIs
PROPERTIES
    EveryOrderEnds
CHECK_DEADLOCK FALSE
