SPECIFICATION Spec
CONSTANTS
    d1 = d1 d2 = d2 acme = acme None = None
    Deals <- DealSet Parties <- PartySet PartyOf <- PartyMap
    RowIds = {1, 2, 3}
    Today = 2 ServerDays <- Evening
    Contents <- Any
    Pages = {} Sums <- TwoSums
    MaxTurns = 4 MaxEdits = 1 MaxLogs = 0
INVARIANTS
    OneReadPerScope
CHECK_DEADLOCK FALSE
