CONSTANTS
    None = None
    Task = {t1, t2}
    Process = {s1, s2}
    Provider = {a}
    VariableCost = {2}
    MaxCalls = 2
    FileErrors = TRUE
    Call = {c1, c2}
    Retention = 2
    MaxLate = 1
    LastDay = 3
    MaxEvents = 2
SPECIFICATION ConsumptionSpec
SYMMETRY Symmetry
INVARIANTS NeverUndercounts NoDoubleCount RecentCallsAreCounted SpanIsBounded
CHECK_DEADLOCK FALSE
