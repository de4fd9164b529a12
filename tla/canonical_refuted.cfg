\* Each of the properties is violated; TLC stops at the first, so one is asked for at a time.
SPECIFICATION Spec
CONSTANTS
    d1 = d1
    d2 = d2
    elsewhere = elsewhere
    p1 = p1
    p2 = p2
    r1 = r1
    r2 = r2
    r3 = r3
    template = template
    other = other
    closed = closed
    None = None
    Deals = {d1, d2}
    Parties = {p1}
    PartyOf <- SameCustomer
    RowIds = {r1, r2}
    Actionable = {template}
    OtherOpen = {}
    Closed = {closed}
    ReadLimit = 3
    MaxEdits = 1
    Requests <- AllCreates
    SupplierDeals = {}
    TestDeals = {}
    MaxRuns = 1
PROPERTY NoWriteAfterDenial
\* PROPERTY MovedDealNotWritten
\* INVARIANT DenialBecomesRefusal
CHECK_DEADLOCK FALSE
