SPECIFICATION Spec
CONSTANTS
    e = e
    a = a
    b = b
    s1 = s1
    w1 = w1
    w2 = w2
    Empty = e
    Absent = Absent
    None = None
    Texts = {e, a, b}
    Conflicts = {}
    Sessions = {s1}
    Workers = {w1, w2}
    MaxSeq = 2
    MaxGuest = 0
    MaxCrash = 0
    DraftFaults = FALSE
    SqlFaults = FALSE
    FileFaults = FALSE
    CloseRaces = {"edit", "flush", "reload", "close"}
    Stragglers = FALSE
SYMMETRY Symmetry
INVARIANT Recoverable
CHECK_DEADLOCK FALSE
