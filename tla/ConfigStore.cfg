CONSTANTS
    None = None
    Absent = Absent
    Corrupt = Corrupt
    Set = Set
    Process = {c1, c2}
    Provider = {p1}
    Key = {k1}
    MaxCommands = 3
    MaxFaults = 1
SPECIFICATION Spec
SYMMETRY Symmetry
PROPERTIES WritesOnlyItsChange PopulatedStaysPopulated BackupIsWhatWasReplaced
CHECK_DEADLOCK FALSE
