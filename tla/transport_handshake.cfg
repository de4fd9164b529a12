SPECIFICATION FairSpec
CONSTANTS
    None = None
    Callers = {c1, c2}
    Statuses = {0}
    Markings = {FALSE}
    MaxOps = 2
INVARIANTS
    OneHandshake
    NoEarlyRequest
PROPERTIES
    OperationsEnd
CHECK_DEADLOCK FALSE
