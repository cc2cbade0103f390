SPECIFICATION Spec
CONSTANTS
    Requests = {r1}
    Finishable = {r1}
    Calls = {c1, c2}
    Boot = Boot
    Blank = Blank
    cooked = cooked
    Texts = {Blank, draftA}
    Cookings = {}
    Reasons = {w1}
    None = None
    Partial = Partial
    MaxRevision = 1
    MaxCrashes = 1
SYMMETRY CallSymmetry
CHECK_DEADLOCK FALSE
PROPERTIES
    StartReconcilesPackages
