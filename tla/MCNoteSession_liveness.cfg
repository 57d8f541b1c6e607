SPECIFICATION FairSpec
CONSTANTS
    e = e
    a = a
    s1 = s1
    w1 = w1
    Empty = e
    Absent = Absent
    None = None
    Texts = {e, a}
    Conflicts = {a}
    Sessions = {s1}
    Workers = {w1}
    MaxSeq = 2
    MaxGuest = 1
    MaxCrash = 0
    DraftFaults = FALSE
    SqlFaults = TRUE
    FileFaults = TRUE
    CloseRaces = {}
    Stragglers = FALSE
PROPERTY EventuallyWritten
CHECK_DEADLOCK FALSE
