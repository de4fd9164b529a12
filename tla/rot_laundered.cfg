SPECIFICATION Spec
CONSTANTS
    d1 = d1
    d2 = d2
    d3 = d3
    p1 = p1
    p2 = p2
    None = None
    Deals = {d1, d2, d3}
    Parties = {p1, p2}
    PartyOf <- Owners
    Menu <- WithMismatch
    MaxRows = 3
    MaxCopies = 1
    Updates <- SomeUpdates
    Opened <- OpenedEarly
    Today = 6
    Threshold = 4
    PlatformLine = 3
    Fallback = 2
INVARIANTS
    NoLaundering
CHECK_DEADLOCK FALSE
