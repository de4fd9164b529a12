SPECIFICATION FairReadSpec
CONSTANTS
    NoTotal = NoTotal
    Ids = {i1, i2, i3, i4, i5}
    PageSize = 2
    Readers = {"deals", "activities", "parties", "context", "aggregate"}
    MaxEdits = 3
INVARIANTS
    OnlyJumpedMissed
    CopiesNeedEdits
PROPERTIES
    ReadEnds
CHECK_DEADLOCK FALSE
