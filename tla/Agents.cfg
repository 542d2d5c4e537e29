SPECIFICATION AgentsSpec
CONSTANTS
    p1 = p1
    p2 = p2
    Process = {p1, p2}
    Tool = {1, 2}
    Block = {2}
    FileNo = 2
    MaxRelease = 2
    TextChanges = {1, 2}
    MaxRuns = 3
    MaxFaults = 1
    MaxLength = 4
    MaxEdits = 1
    Missing = Missing
SYMMETRY Symmetry
INVARIANTS FreshStampIsTrueElse UnregisterLeavesNothing StripLeavesTheUsers
CHECK_DEADLOCK FALSE
