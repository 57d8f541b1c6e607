SPECIFICATION Spec
CONSTANTS
    e = e
    a = a
    b = b
    s1 = s1
    w1 = w1
    Empty = e
    Absent = Absent
    None = None
    Texts = {e, a, b}
    Conflicts = {}
    Sessions = {s1}
    Workers = {w1}
    MaxSeq = 2
    MaxGuest = 1
    MaxCrash = 0
    DraftFaults = TRUE
    SqlFaults = FALSE
    FileFaults = FALSE
    CloseRaces = {}
    Stragglers = FALSE
SYMMETRY Symmetry
INVARIANT BaselineIsDisk
INVARIANT RowIsBuffer
PROPERTY ShownBeforeOverwritten
CHECK_DEADLOCK FALSE
