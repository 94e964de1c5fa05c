SPECIFICATION FairSpec
CONSTANTS
    MaxName = 5
    PageSize = 2
    MaxCalls = 2
    MaxFaults = 2
    MaxChanges = 4
INVARIANTS
    TypeOK
    ListedWhole
    AllOrNothing
    PagesFreedOnce
PROPERTIES
    ListEnds
CHECK_DEADLOCK FALSE
