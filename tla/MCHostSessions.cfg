SPECIFICATION Spec
CONSTANTS
    s1 = s1
    s2 = s2
    Requests = {r1, r2}
    Sessions = {s1, s2}
    Inputs <- MCInputs
    Agents = {a1}
    Deleters = {d1}
    Publishers = {p1}
    None = None
    MaxIds = 2
    MaxCrashes = 1
SYMMETRY RequestSymmetry
CHECK_DEADLOCK FALSE
INVARIANTS
    TypeOK
    SessionsMatchRequests
    StoredFilesExist
    NothingElseIsLeft
PROPERTIES
    ImplementsCatalog
