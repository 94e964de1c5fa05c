SPECIFICATION Spec
CONSTANTS
    g1 = g1
    here = here
    there = there
    Gets = {g1, g2}
    To <- SamePath
    Paths = {here, there}
    Filename = here
    Backend <- OneFromEach
    Byte = {1, 2}
    Contents <- Versions
    NoFile = NoFile
    Junk = Junk
    User = User
    ErrorLength = 99
    MaxSize = 2
    MaxCalls = 3
    MaxFaults = 2
INVARIANTS
    TypeOK
    NoPartialFile
PROPERTIES
    GetIsWhole
    PutIsWhole
CHECK_DEADLOCK FALSE
