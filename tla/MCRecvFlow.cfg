SPECIFICATION FairSpec
CONSTANTS
    s1 = s1
    s2 = s2
    Nobody = Nobody
    Conn = Conn
    StreamWindow = 3
    ConnWindow = 4
    Streams = {s1, s2}
    Limit <- MCLimit
    Bytes1 = 4
    Bytes2 = 1
    Total <- MCTotal
    Sizes = {1, 4}
    Padding = {1}
    MaxQueue = 1
INVARIANTS
    TypeOK
    BytesInOrder
    CreditConserved
PROPERTIES
    ReadsAreWhole
    ReadsEnd
CHECK_DEADLOCK FALSE
