SPECIFICATION Spec
CONSTANTS
    Conns = {c1, c2}
    ClientIds = {app1, app2}
    Grants = {g1, g2, g3}
    Oversized = {}
    NoGrant = NoGrant
    NoClient = NoClient
    NoConn = NoConn
    MaxRequests = 2
    MaxFaults = 2
SYMMETRY AllSymmetry
INVARIANTS
    TypeOK
    OwnToken
    PairedTokens
    NoReuseAfter401
    KeystoreFollowsMemory
    WholeWhenQuiet
