SPECIFICATION Spec
CONSTANTS
    MaxValueLen = 2
    Bytes = {0, 1, 2}
    Word = 64
    FirstSize = 2
    ChunkLens = {0, 1, 2, 3, 15, 31, 40}
    Names <- ShortNames
    BufLens = {1, 2, 3, 4}
    MaxPieces <- Bounds
INVARIANTS
    RoundTrip
    AcceptedIsCanonical
    BodyFits
    QueryRoundTrip
CHECK_DEADLOCK FALSE
