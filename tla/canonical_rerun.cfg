SPECIFICATION Spec
CONSTANTS
    d1 = d1
    d2 = d2
    elsewhere = elsewhere
    p1 = p1
    p2 = p2
    r1 = r1
    r2 = r2
    r3 = r3
    template = template
    other = other
    closed = closed
    None = None
    Deals = {d1, d2}
    Parties = {p1, p2}
    PartyOf <- OneUnowned
    RowIds = {r1, r2, r3}
    Actionable = {template}
    OtherOpen = {other}
    Closed = {closed}
    ReadLimit = 3
    MaxEdits = 0
    Requests <- Mixed
    SupplierDeals = {d1}
    TestDeals = {d2}
    MaxRuns = 3
SYMMETRY AnyRow
INVARIANTS
    RerunAddsNothing
PROPERTIES
    KeepsContract
CHECK_DEADLOCK FALSE
