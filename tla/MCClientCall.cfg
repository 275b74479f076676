SPECIFICATION Spec
CONSTANTS
    p1 = p1
    p2 = p2
    Calls = {p1, p2}
    Timed = {p1}
    Streaming = {p2}
    Replying = {}
    Generated = {p1}
    Cancelling = {}
    Limits = {1}
INVARIANTS
    TypeOK
    SlotsFreed
    SlotIsComing

    
CHECK_DEADLOCK FALSE
