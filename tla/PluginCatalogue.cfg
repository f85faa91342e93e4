SPECIFICATION Spec
CONSTANTS
    Versions = {1, 2}
    Shipped = {1}
    Slots = {s1, s2}
    Api = api
    Worker = worker
    DownAfter = 2
    MaxRequests = 3
    None = None
SYMMETRY Symmetry
CHECK_DEADLOCK FALSE

    
    
PROPERTIES
    DownIsEarned
