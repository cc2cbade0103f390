SPECIFICATION Spec
CONSTANTS
    Requests = {r1}
    Finishable = {r1}
    Calls = {c1, c2, c3}
    Boot = Boot
    Blank = Blank
    cooked = cooked
    Texts = {Blank, draftA}
    Cookings = {}
    Reasons = {w1, w2}
    None = None
    Partial = Partial
    MaxRevision = 1
    MaxCrashes = 0
SYMMETRY CallSymmetry
CHECK_DEADLOCK FALSE
INVARIANTS
    HeldIsStored
PROPERTIES
    OkIsTheOutcome
