SPECIFICATION Spec
CONSTANTS
    d1 = d1 d2 = d2 acme = acme None = None
    Deals <- DealSet Parties <- PartySet PartyOf <- PartyMap
    RowIds = {1, 2}
    Today = 2 ServerDays <- Evening
    Contents <- Any
    Pages <- OnePage Sums <- OneSum
    MaxTurns = 3 MaxEdits = 1 MaxLogs = 1
INVARIANTS
    PagesTile
    StaleOnlyWhereWritten
    TornOnlyByWrites
    DatesAsSaid
CHECK_DEADLOCK FALSE
