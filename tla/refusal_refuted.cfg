\* Each of the properties is violated; TLC stops at the first, so one is asked for at a time.
SPECIFICATION Spec
CONSTANTS
    Ids = {1, 2, 3}
    PageSize = 1
    RowCap = 3
    MaxRuns = 2
    MaxWrites = 1
    MaxEdits = 1
INVARIANT VerdictOfOneRun
\* INVARIANT PassIsUnchanged
\* INVARIANT EarlierAgentsShow
CHECK_DEADLOCK FALSE
