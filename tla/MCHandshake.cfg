SPECIFICATION FairSpec
CONSTANTS
    Key = {k1, k2}
    ephI = ephI
    ephR = ephR
    ephZero = ephZero
    NoVal = NoVal
    MaxStrange = 3
INVARIANTS
    TypeOK
    Agreement
    NoForgedIdentity
    InitiatorLast
PROPERTIES
    BothEnd
    HonestSucceed
CHECK_DEADLOCK FALSE
