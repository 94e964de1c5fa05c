SPECIFICATION FairSpec
CONSTANTS
    Procs = {p1, p2}
    Tools = {p1}
    DataLocation = 2
INVARIANTS
    TypeOK
    DirectoriesThere
    NoConnectionLost
PROPERTIES
    NoNeedlessFailure
    CallsReturn
