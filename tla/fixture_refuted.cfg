\* Each of the properties is violated; TLC stops at the first, so one is asked for at a time.
SPECIFICATION LedgerSpec
CONSTANTS
    D8 = D8
    D10 = D10
    D15 = D15
    Deals <- ThreeDeals
    Parties = {PA}
    Contacted = {D8}
    Planned = {D8}
    Approved <- InOrder
    Rivalled = D10
    Shut = D15
    MaxStops = 1
    MaxRenames = 1
INVARIANT SeedIsCleanable
\* INVARIANT HitsHold
\* INVARIANT NothingLeft
\* INVARIANT AgentRowsAreClosed
\* INVARIANT ManualIsOpen
\* INVARIANT HitComesFirst
CHECK_DEADLOCK FALSE
