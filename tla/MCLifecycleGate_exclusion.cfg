SPECIFICATION Spec
CONSTANTS
    s1 = s1
    s2 = s2
    o1 = o1
    o2 = o2
    e1 = e1
    w1 = w1
    None = None
    Ids = {1, 2}
    Sessions = {s1, s2}
    Operations = {o1, o2}
    Editors = {e1}
    Writers = {w1}
SYMMETRY Symmetry
INVARIANT NoEditInsideOperation
INVARIANT EditOnLiveSession
INVARIANT BodyCoversSessions
INVARIANT RetiredNotWritten
INVARIANT NeverStuck
CHECK_DEADLOCK FALSE
