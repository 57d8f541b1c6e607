SPECIFICATION Spec
CONSTANTS
    e = e
    a = a
    s1 = s1
    s2 = s2
    w1 = w1
    Empty = e
    Absent = Absent
    None = None
    Texts = {e, a}
    Conflicts = {}
    Sessions = {s1, s2}
    Workers = {w1}
    MaxSeq = 1
    MaxGuest = 0
    MaxCrash = 0
    DraftFaults = FALSE
    SqlFaults = FALSE
    FileFaults = FALSE
    CloseRaces = {}
    Stragglers = TRUE
SYMMETRY Symmetry
PROPERTY ClearKeepsNewerWork
CHECK_DEADLOCK FALSE
