SPECIFICATION Spec
CONSTANTS
    t1 = t1
    t2 = t2
    a = a
    b = b
    TransferId <- MCTransferId
    Data <- MCData
    NoData = NoData
    UINT16 = 4
    TTL = 1
    MaxTime = 2
    MaxIngests = 5
SYMMETRY MCSymmetry
INVARIANTS
    TypeOK
    CountsFilledSlots
    FirstChunkWins
    NoStall
PROPERTIES
    LeavesDoneOrExpired
