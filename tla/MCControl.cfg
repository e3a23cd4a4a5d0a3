SPECIFICATION Spec
CONSTANTS
    s1 = s1
    s2 = s2
    Shell <- MCShell
    Commands <- MCCommands
    Texts <- MCTexts
    to_string <- MCto_string
    RING = 2
    MAX_LINES = 2
    MaxPeers = 2
INVARIANTS
    ShownAsDrained
    QuietAtPrompt
    SentToListed
PROPERTIES
    RequestsAnswered
CHECK_DEADLOCK FALSE
