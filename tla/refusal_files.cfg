SPECIFICATION Spec
CONSTANTS
    Ids = {1, 2, 3}
    PageSize = 1
    RowCap = 3
    MaxRuns = 2
    MaxWrites = 2
    MaxEdits = 1
INVARIANTS
    AgentChangeShows
    VerifyNeedsPass
    VerifyAgrees
CHECK_DEADLOCK FALSE
