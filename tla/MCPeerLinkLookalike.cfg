SPECIFICATION Spec
CONSTANTS
    s1 = s1
    s2 = s2
    t1 = t1
    a = a
    b = b
    Thread <- MCThread
    NoThread = NoThread
    TransferId <- MCTransferId
    NoData = NoData
    UINT16 = 4
    Texts <- MCTextsLookalike
    Files <- MCNone
    CHUNK_PAYLOAD_SIZE = 2
    RING = 2
    MayBreak = FALSE
    LinkCap = 4
    MaxCalls = 2
INVARIANT
    DeliveredAsSent
CHECK_DEADLOCK FALSE
