SPECIFICATION FairSpec
CONSTANTS
    d1 = d1
    d2 = d2
    p1 = p1
    p2 = p2
    r1 = r1
    r2 = r2
    r3 = r3
    page = page
    single = single
    status = status
    template = template
    closed = closed
    None = None
    Unset = Unset
    Deals = {d1}
    Parties = {p1}
    PartyOf <- OneOwned
    RowIds = {r1}
    Actionable = {template}
    OtherOpen = {}
    Closed = {closed}
    ReadLimit = 2
    MaxEdits = 0
    MaxSteps = 5
    TokenBudget = {6}
    Deadline = {6}
    Costs = {1, 3}
    Durations = {0, 2}
    Reads = {page, single, status}
    Derived = {status}
    KindOf <- Tools
    HistoryWindow = 1
    Policy <- ReadOnly
    Asked <- OnlyReads
    Before <- EmptyBook
INVARIANTS
    OvershootAtMostOneCall
    NothingAfterWrapUp
PROPERTIES
    Terminates
CHECK_DEADLOCK FALSE
