SPECIFICATION LedgerSpec
CONSTANTS
    D8 = D8
    D10 = D10
    D15 = D15
    Deals <- ThreeDeals
    Parties = {PA}
    Contacted = {D8}
    Planned = {D8}
    Approved <- InOrder
    Rivalled = D10
    Shut = D15
    MaxStops = 2
    MaxRenames = 1
INVARIANTS
    OrphansAreStops
    CleanupIsWhole
    RunCWasHit
CHECK_DEADLOCK FALSE
