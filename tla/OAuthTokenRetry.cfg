SPECIFICATION FairSpec
CONSTANTS
    Conns = {c1}
    ClientIds = {app1}
    Grants = {g1, g2, g3, g4, g5}
    Oversized = {g5}
    NoGrant = NoGrant
    NoClient = NoClient
    NoConn = NoConn
    MaxRequests = 2
    MaxFaults = 3
PROPERTIES
    RetryRecovers
