CONSTANTS
    Nothing = Nothing
    Proc = {p1, p2, p3}
    Suspendable = {p1}
    Ino = {1, 2}
    StaleMs = 2
    TimeoutMs = 1
    RefreshMs = 1
    MaxTime = 3
SPECIFICATION LockFairSpec
INVARIANTS RunningHolderNeverStale
PROPERTIES DisplacedOnlyThroughAWindow WaiterEnds LeaseSpec
CHECK_DEADLOCK FALSE
