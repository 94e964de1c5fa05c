SPECIFICATION Spec
CONSTANTS
    MaxValueLen = 2
    Clients = {c1, c2, c3}
    Values <- TwoValues
    NoFile = NoFile
    InitialFiles <- AnyFiles
    SimpleLimit = 11
    MaxCalls = 3
    MaxFaults = 1
SYMMETRY ClientSymmetry
INVARIANTS
    TypeOK
PROPERTIES
    StaysReadable
    GetIsSnapshot
    PutIsAppend
CHECK_DEADLOCK FALSE
