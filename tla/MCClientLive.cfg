SPECIFICATION FairSpec
CONSTANTS
    p1 = p1
    p2 = p2
    Calls = {p1}
    Timed = {p1}
    Streaming = {p1}
    Replying = {}
    Generated = {}
    Cancelling = {p1}
    Limits = {0, 1}
PROPERTIES
    DeadlineEndsCalls
    LossEndsCalls
CHECK_DEADLOCK FALSE
