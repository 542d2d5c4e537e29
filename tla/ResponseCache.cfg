SPECIFICATION Spec
CONSTANTS
    p1 = p1
    p2 = p2
    r1 = r1
    r2 = r2
    t1 = t1
    i1 = i1
    i2 = i2
    i3 = i3
    Process = {p1, p2}
    Response = {r1, r2}
    Tool = {t1}
    Ino = {i1, i2, i3}
    Cap = 1
    Low = 1
    MaxRuns = 4
    MaxFaults = 1
    LockFile = LockFile
    None = None
SYMMETRY Symmetry
INVARIANTS PruneSparesFresh CapHolds ClearIsComplete
CHECK_DEADLOCK FALSE
