SPECIFICATION RegistrationSpec
CONSTANTS
    p1 = p1
    Process = {p1}
    Tool = {1, 2}
    Block = {2}
    FileNo = 1
    MaxRelease = 2
    TextChanges = {1, 2}
    MaxRuns = 3
    MaxFaults = 1
    Missing = Missing
INVARIANT FailedRefreshStaysDue
CHECK_DEADLOCK FALSE
