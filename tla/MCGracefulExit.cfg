SPECIFICATION FairExitSpec
CONSTANTS
    c1 = c1
    c2 = c2
    r1 = r1
    other = other
    Others = {other}
    NoConn = NoConn
    Conns = {c1, c2}
    Streams = {r1}
    ConnOf <- OneRequest
    GCInterval = 2
    MaxUnread = 0
    Slow = {c1}
    Timed = {r1}
INVARIANTS
    ReapedHandlerIsIdle
    SignalStopsServers
    WaitClosedSound
PROPERTIES
    LostConnectionEndsRequests
    WaitClosedReturnsOrAbandoned
CHECK_DEADLOCK FALSE
