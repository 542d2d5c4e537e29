CONSTANTS
    NotYet = NotYet
    Total = 4
    Concurrency = 2
SPECIFICATION BatchFairSpec
INVARIANTS EveryOperationAccounted
PROPERTIES FailFastDrains BatchEnds
CHECK_DEADLOCK FALSE
