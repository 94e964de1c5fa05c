SPECIFICATION Spec
CONSTANTS
    MaxValueLen = 2
    Clients = {c1}
    Values <- TwoValues
    NoFile = NoFile
    InitialFiles <- NoFiles
    SimpleLimit = 11
    MaxCalls = 4
    MaxFaults = 3
PROPERTIES
    ImplementsKVStore
CHECK_DEADLOCK FALSE
