SPECIFICATION Spec
CONSTANTS
    Scale = 2
    Requests <- MCRequests
    Listened = {"request", "message", "trailing"}
    Errors = {"UNKNOWN", "DEADLINE_EXCEEDED", "UNIMPLEMENTED"}
    None = None
    Pieces = 2
    MaxMessages = 2
INVARIANTS
    TypeOK
    RequestsAnswered
    DeadlinePropagated
PROPERTIES
    Refines
CHECK_DEADLOCK FALSE
