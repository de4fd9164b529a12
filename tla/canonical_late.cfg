SPECIFICATION Spec
CONSTANTS
    d1 = d1
    d2 = d2
    elsewhere = elsewhere
    p1 = p1
    p2 = p2
    r1 = r1
    r2 = r2
    r3 = r3
    template = template
    other = other
    closed = closed
    None = None
    Deals = {d1}
    Parties = {p1}
    PartyOf <- OneDeal
    RowIds = {r1, r2}
    Actionable = {template}
    OtherOpen = {}
    Closed = {closed}
    ReadLimit = 3
    MaxEdits = 0
    Requests <- AllCreates
    SupplierDeals = {}
    TestDeals = {}
    MaxRuns = 2
INVARIANT
    OneAgentActionPerDeal
CHECK_DEADLOCK FALSE
