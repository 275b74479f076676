SPECIFICATION FairSpec
CONSTANTS
    s1 = s1
    s2 = s2
    Nobody = Nobody
    Streams = {s1, s2}
    Size <- MCSize
    MaxFrame = 2
    ConnWindow = 2
    Windows <- MCWindows
    MaxSettings = 2
    HighWater = 1
    LowWater = 0
INVARIANTS
    TypeOK
    NoLostWakeup
    BufferBounded
PROPERTIES
    WindowsRespected
    SendersEnd
CHECK_DEADLOCK FALSE
