\* Five receipts, a root every two; failures of every kind.
SPECIFICATION LogSpec
CONSTANTS
    CommitEvery = 2
    MaxReceipts = 5
    Failures = 4
    Revocations = 1
INVARIANTS
    LogTypeOK
    WholeHistory
    LossBounded
    AnchoredCountWhenIntact
PROPERTIES
    KeepsHistory
CHECK_DEADLOCK FALSE
