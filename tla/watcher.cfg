\* Four blocks in two minutes; calls of a chunk run three at a time, and two things fail.
SPECIFICATION Spec
CONSTANTS
    MaxHead = 4
    Blocks = {1, 2, 3, 4}
    Prices <- MCPrices
    MinuteOf <- MCMinutes
    Concurrency = 3
    MaxBatch = 3
    SaveEvery = 2
    MaxGap = 3
    Backfill = 0
    MaxSpan = 2
    Failures = 2
INVARIANTS
    IndexComplete
    PoolsComplete
    CandlesExact
PROPERTIES
    CatchesUp
CHECK_DEADLOCK FALSE
