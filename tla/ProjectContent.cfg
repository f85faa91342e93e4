SPECIFICATION Spec
CONSTANTS
    AllProjects = {home, standard}
    Default = standard
    Home = home
    Grants = {g1}
    Requests = {r1, r2}
    Passes = {k1, k2}
    Documents = {d1, d2}
    Long = d1
    Slots = {s1, s2}
    Size <- MCSize
    Backends = {"pgvector", "qdrant"}
    Writers = {w1, w2, w3}
    Agents = {w1, w2}
    KeepTurns = 2
    MaxClears = 1
    None = None
CONSTRAINT Scenes
SYMMETRY Symmetry
CHECK_DEADLOCK FALSE
INVARIANTS
    RestoredStays
    GrantsFollowProjects
    CountersAgree
    NoOrphans
    
    
