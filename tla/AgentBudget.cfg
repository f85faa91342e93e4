SPECIFICATION Spec
CONSTANTS
    Node = {n1, n2}
    Kinds = {"agent", "route", "extract", "tools"}
    MaxRetries = 1
    Links = 2
    MaxShots = 2
    MaxTurns = 2
    MaxTools = 2
    Costs = {1, 2}
    MaxTokens = 1
    QuotaLimit = 1
    TTL = 1
    MaxEdits = 1
    MaxTime = 2
CONSTRAINT Scenes
SYMMETRY Symmetry
CHECK_DEADLOCK FALSE
INVARIANTS
    
    CountedOnce
PROPERTY
    PolicyIsRecent
