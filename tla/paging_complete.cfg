SPECIFICATION ReadSpec
CONSTANTS
    NoTotal = NoTotal
    Ids = {i1, i2, i3, i4, i5}
    PageSize = 2
    Readers = {"aggregate"}
    MaxEdits = 3
INVARIANTS
    CompleteIsWhole
CHECK_DEADLOCK FALSE
