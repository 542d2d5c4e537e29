CONSTANTS
    None = None
    Process = {c1, c2}
    Id = {i1, i2}
    Key = {k1}
    MaxRuns = 3
    MaxFaults = 1
SPECIFICATION Spec
SYMMETRY Symmetry
INVARIANTS MarkersResolve CacheHitsWriteOneFull SavesHaveMasters
PROPERTIES NothingLost
CHECK_DEADLOCK FALSE
