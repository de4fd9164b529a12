SPECIFICATION FairSpec
CONSTANTS
    Limit <- MCLimit
    Skipped = 1
    Margin = 2
    MinTask = 1
    ThreadTime = 1
    NoDeadline = NoDeadline
    Deadlines <- MCDeadlines
INVARIANTS
    ReportComplete
    LatenessBounded
PROPERTIES
    Ends
    KeepsReport
CHECK_DEADLOCK FALSE
