SPECIFICATION FairSpec
CONSTANTS
    N = 3
    Families <- ThreeKinds
    MaxRequests = 3
    MaxChanges = 4
INVARIANTS
    TypeOK
    NoRequestToFailed
    GivesUpLast
PROPERTIES
    RetryServed
