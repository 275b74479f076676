SPECIFICATION FairSpec
CONSTANTS
    p1 = p1
    p2 = p2
    p3 = p3
    c1 = c1
    c2 = c2
    c3 = c3
    None = None
    Calls = {p1, p2, p3}
    Conns = {c1, c2, c3}
INVARIANTS
    TypeOK
    OneConnection
    NoStrayConnection
PROPERTIES
    ConnectReturns
CHECK_DEADLOCK FALSE
