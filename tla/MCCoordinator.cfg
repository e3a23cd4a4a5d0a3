SPECIFICATION Spec
CONSTANTS
    n1 = n1
    n2 = n2
    q = q
    Node <- MCNode
    Lookup <- MCLookup
    PEER_TTL = 2
    REFRESH = 1
    SLACK = 0
    MaxFails = 1
    MaxIds = 2
    MaxRestarts = 1
    MaxClock = 4
SYMMETRY MCSymmetry
INVARIANTS
    TypeOK
    UniqueKeys
PROPERTIES
    DeadAreForgotten
    LiveAlwaysListed
    EntriesOnlyRefresh
CHECK_DEADLOCK FALSE
