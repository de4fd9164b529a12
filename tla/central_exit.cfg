SPECIFICATION Spec
CONSTANTS
    Limit <- MCLimit
    Skipped = 1
    Margin = 2
    MinTask = 1
    ThreadTime = 1
    NoDeadline = NoDeadline
    Deadlines <- MCDeadlines
INVARIANTS
    ExitsZero
CHECK_DEADLOCK FALSE
