SPECIFICATION FairSpec
CONSTANTS
    w1 = w1
    w2 = w2
    c1 = c1
    p1 = p1
    p2 = p2
    Nobody = Nobody
    Watchers = {}
    Callers = {c1}
    Pollers = {p1}
PROPERTY
    CheckTimeoutEnds
CHECK_DEADLOCK FALSE
