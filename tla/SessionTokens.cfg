SPECIFICATION Spec
CONSTANTS
    Users = {ann, bob, cal}
    Visitor = ann
    Visitors = {ann}
    Browsers = {p, q}
    Slots = {s1, s2}
    Tokens = {t1, t2, t3}
    ServiceAdmin = svc
    FirstAdmins = {ann, bob}
    FirstEditors = {}
    MaxEdits = 4
    None = None
CONSTRAINT Scenes
SYMMETRY Symmetry
CHECK_DEADLOCK FALSE
INVARIANTS
    EndedSessionsStayEnded
    OneTokenPerSignIn
    CookieStaysGood
    AnAdminRemains
