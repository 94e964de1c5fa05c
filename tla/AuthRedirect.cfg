CONSTANTS
    Conns     = {k1, k2}
    Codes     = {short, long}
    LongCodes = {long}
    EmptyCode = EmptyCode
    NoCode    = NoCode
    NoConn    = NoConn
SPECIFICATION FairSpec
INVARIANTS TypeOK ClosedOnce NullIsTold OnlyCodeReturned AnsweredUnlessStopped
PROPERTIES WaitEnds
CHECK_DEADLOCK FALSE
