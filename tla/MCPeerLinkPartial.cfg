SPECIFICATION Spec
CONSTANTS
    s1 = s1
    s2 = s2
    t1 = t1
    a = a
    b = b
    Thread <- MCThread
    NoThread = NoThread
    TransferId <- MCTransferId
    NoData = NoData
    UINT16 = 4
    Texts <- MCNone
    Files <- MCLongFiles
    CHUNK_PAYLOAD_SIZE = 2
    RING = 2
    MayBreak = TRUE
    LinkCap = 4
    MaxCalls = 2
INVARIANT
    ChunkedOkMeansAllSent
CHECK_DEADLOCK FALSE
