SPECIFICATION Spec
CONSTANTS
    e = e
    a = a
    b = b
    s1 = s1
    s2 = s2
    w1 = w1
    Empty = e
    Absent = Absent
    None = None
    Texts = {e, a, b}
    Conflicts = {}
    Sessions = {s1, s2}
    Workers = {w1}
    MaxSeq = 1
    MaxGuest = 1
    MaxCrash = 0
    DraftFaults = FALSE
    SqlFaults = TRUE
    FileFaults = FALSE
    CloseRaces = {}
    Stragglers = FALSE
SYMMETRY Symmetry
PROPERTY GuestBytesSurvive
CHECK_DEADLOCK FALSE
