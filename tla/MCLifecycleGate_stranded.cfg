SPECIFICATION Spec
CONSTANTS
    s1 = s1
    s2 = s2
    s3 = s3
    o1 = o1
    e1 = e1
    w1 = w1
    w2 = w2
    None = None
    Ids = {1, 2}
    Sessions = {s1, s2, s3}
    Operations = {o1}
    Editors = {e1}
    Writers = {w1, w2}
SYMMETRY Symmetry
INVARIANT OpenIsRegistered
CHECK_DEADLOCK FALSE
