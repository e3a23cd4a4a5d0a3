SPECIFICATION Spec
CONSTANTS
    a = a
    b = b
    Node <- MCNode
    Daemon <- MCNode
    Slot <- MCSlot
    MaxRuns <- MCMaxRuns
    MaxFaults = 1
    MaxSlow = 1
INVARIANTS
    TypeOK
    TableIsThreads
    ExtraSessionsExplained
PROPERTIES
    ConnectedEventually
    DeadLeave
CHECK_DEADLOCK FALSE
