SPECIFICATION Spec
CONSTANTS
    d1 = d1
    d2 = d2
    p1 = p1
    p2 = p2
    r1 = r1
    r2 = r2
    r3 = r3
    page = page
    single = single
    status = status
    template = template
    closed = closed
    None = None
    Unset = Unset
    Deals = {d1}
    Parties = {p1}
    PartyOf <- OneOwned
    RowIds = {r1}
    Actionable = {template}
    OtherOpen = {}
    Closed = {closed}
    ReadLimit = 2
    MaxEdits = 0
    MaxSteps = 5
    TokenBudget = {}
    Deadline = {}
    Costs = {1}
    Durations = {0}
    Reads = {page}
    Derived = {}
    KindOf <- Tools
    HistoryWindow = 2
    Policy <- ReadOnly
    Asked <- OnlyReads
    Before <- EmptyBook
INVARIANT
    RepeatIsInHistory
CHECK_DEADLOCK FALSE
