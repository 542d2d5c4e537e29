CONSTANTS
    None = None
    Command = {c1, c2}
    Id = {i1, i2}
    Ticked = {i1}
    Label = {}
    Content = {plain, redirected}
    Moved = {redirected}
    Keep = 1
    MaxGen = 3
    FileErrors = TRUE
SPECIFICATION Spec
SYMMETRY Symmetry
INVARIANTS EveryChangeLogged EntriesAreTrue NewestReads PurgedStaysGone
CHECK_DEADLOCK FALSE
