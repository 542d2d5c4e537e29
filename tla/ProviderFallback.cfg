CONSTANTS
    None = None
    p1 = p1
    p2 = p2
    p3 = p3
    Provider = {p1, p2, p3}
    Registry <- RegistryOrder
    MaxRetries = 1
SPECIFICATION FairSpec
INVARIANTS EndsAsPlanned OverlapOnlyAfterTimeout
PROPERTIES CommandEnds
CHECK_DEADLOCK FALSE
