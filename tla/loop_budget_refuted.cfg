\* Each of the properties is violated; TLC stops at the first, so one is asked for at a time.
SPECIFICATION Spec
CONSTANTS
    d1 = d1
    d2 = d2
    p1 = p1
    p2 = p2
    r1 = r1
    r2 = r2
    r3 = r3
    page = page
    single = single
    status = status
    template = template
    closed = closed
    None = None
    Unset = Unset
    Deals = {d1}
    Parties = {p1}
    PartyOf <- OneOwned
    RowIds = {r1}
    Actionable = {template}
    OtherOpen = {}
    Closed = {closed}
    ReadLimit = 2
    MaxEdits = 0
    MaxSteps = 4
    TokenBudget = {5}
    Deadline = {}
    Costs = {1, 2, 5}
    Durations = {0}
    Reads = {page}
    Derived = {}
    KindOf <- Tools
    HistoryWindow = 1
    Policy <- ReadOnly
    Asked <- OnlyReads
    Before <- EmptyBook
INVARIANT WrapUpBeforeStop
\* INVARIANT WrapUpDecidesEnding
CHECK_DEADLOCK FALSE
