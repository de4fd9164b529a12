\* Each of the properties is violated; TLC stops at the first, so one is asked for at a time.
SPECIFICATION FairSpec
CONSTANTS
    None = None
    Callers = {c1, c2}
    Statuses = {0, 401, 403, 500}
    Markings = {FALSE, TRUE}
    MaxOps = 1
INVARIANT BadCredentialIsNoRefusal
\* INVARIANT OneInitialize
\* PROPERTY ListEnds
CHECK_DEADLOCK FALSE
