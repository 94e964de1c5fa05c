SPECIFICATION Spec
CONSTANTS
    g1 = g1
    here = here
    there = there
    Gets = {g1}
    To <- SamePath
    Paths = {here, there}
    Filename = here
    Backend <- OneFromEach
    Byte = {1, 2}
    Contents <- Versions
    NoFile = NoFile
    Junk = Junk
    User = User
    ErrorLength = 99
    MaxSize = 2
    MaxCalls = 2
    MaxFaults = 2
INVARIANTS
    LengthFitsFile
CHECK_DEADLOCK FALSE
