SPECIFICATION FairSpec
CONSTANTS
    s1 = s1
    s2 = s2
    t1 = t1
    a = a
    b = b
    Thread <- MCThread
    NoThread = NoThread
    TransferId <- MCTransferId
    NoData = NoData
    UINT16 = 4
    Texts <- MCTexts
    Files <- MCFiles
    CHUNK_PAYLOAD_SIZE = 2
    RING = 2
    MayBreak = TRUE
    LinkCap = 3
    MaxCalls = 3
INVARIANTS
    TypeOK
    NoncesInOrder
    FailedNeverDelivered
    NoLeftoverTransfers
    RingKeepsLatest
PROPERTIES
    ImplementsChannel
    EventuallyDelivered
    CallsReturn
CHECK_DEADLOCK FALSE
