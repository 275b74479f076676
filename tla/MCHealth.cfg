SPECIFICATION Spec
CONSTANTS
    w1 = w1
    w2 = w2
    c1 = c1
    p1 = p1
    p2 = p2
    Nobody = Nobody
    Watchers = {w1, w2}
    Callers = {c1}
    Pollers = {p1, p2}
SYMMETRY Symmetry
INVARIANTS
    TypeOK
    OneCheckAtATime
    PolledWhileWatched
    WatcherUpToDate
CHECK_DEADLOCK FALSE
