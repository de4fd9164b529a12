\* Each of the properties is violated; TLC stops at the first, so one is asked for at a time.
SPECIFICATION Spec
CONSTANTS
    d1 = d1 d2 = d2 acme = acme None = None
    Deals <- DealSet Parties <- PartySet PartyOf <- PartyMap
    RowIds = {1, 2, 3}
    Today = 2 ServerDays <- Evening
    Contents <- Any
    Pages <- TwoRows Sums <- TwoSums
    MaxTurns = 3 MaxEdits = 0 MaxLogs = 2
INVARIANT ReportIsTaken
\* INVARIANT OneRowPerReport
\* INVARIANT PagesSuffice
CHECK_DEADLOCK FALSE
