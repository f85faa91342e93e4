SPECIFICATION Spec
CONSTANTS
    Graphs = {a, b, c}
    Other = c
    ProjectOf <- MCProjectOf
    Granted <- MCGranted
    Limit <- MCLimit
    MaxDepth = 2
    MaxFires = 1
    Slots = {s1, s2}
    MaxExecutions = 4
    MaxResumes = 1
    None = None
CONSTRAINT Scenes
VIEW View
SYMMETRY Symmetry
CHECK_DEADLOCK FALSE
INVARIANTS
    
    FanOutHolds
    QuotaSlack
