SPECIFICATION Spec
CONSTANTS
    c1 = c1
    c2 = c2
    r1 = r1
    r2 = r2
    NoConn = NoConn
    Conns = {c1}
    Streams = {r1, r2}
    ConnOf <- OneConn
    GCInterval = 2
    MaxUnread = 1
    Slow = {c1}
    Timed = {r1}
INVARIANTS
    TypeOK
    RegisteredWhileLive
    NoOrphanTask
    CloseIsHeeded
