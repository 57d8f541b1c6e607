SPECIFICATION FairSpec
CONSTANTS
    s1 = s1
    o1 = o1
    e1 = e1
    w1 = w1
    None = None
    Ids = {1}
    Sessions = {s1}
    Operations = {o1}
    Editors = {e1}
    Writers = {w1}
PROPERTY CallsEnd
CHECK_DEADLOCK FALSE
