SPECIFICATION Spec
CONSTANTS
    Limit <- MCLimit
    Skipped = 1
    Margin = 4
    MinTask = 1
    ThreadTime = 6
    NoDeadline = NoDeadline
    Deadlines <- HalfMinute
INVARIANTS
    FinalBeforeDeadline
CHECK_DEADLOCK FALSE
