\* Each of the properties is violated; TLC stops at the first, so one is asked for at a time.
SPECIFICATION Spec
CONSTANTS
    d1 = d1
    d2 = d2
    p1 = p1
    p2 = p2
    r1 = r1
    r2 = r2
    r3 = r3
    page = page
    single = single
    status = status
    template = template
    closed = closed
    None = None
    Unset = Unset
    Deals = {d1, d2}
    Parties = {p1, p2}
    PartyOf <- OneUnowned
    RowIds = {r1, r2, r3}
    Actionable = {template}
    OtherOpen = {}
    Closed = {closed}
    ReadLimit = 1
    MaxEdits = 1
    MaxSteps = 4
    TokenBudget = {}
    Deadline = {}
    Costs = {1}
    Durations = {0}
    Reads = {}
    Derived = {}
    KindOf <- Tools
    HistoryWindow = 1
    Policy <- OneOnFirst
    Asked <- EveryWrite
    Before <- TwoBooks
INVARIANT CustomerChecked
\* INVARIANT AtMostMaxRecords
\* INVARIANT GuardAlwaysHolds
\* INVARIANT PageIsEnough
\* PROPERTY ScopeIsKept
CHECK_DEADLOCK FALSE
