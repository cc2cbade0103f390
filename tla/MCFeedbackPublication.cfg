SPECIFICATION Spec
CONSTANTS
    Requests = {r1}
    Finishable = {r1}
    Calls = {c1, c2}
    Boot = Boot
    Blank = Blank
    cooked = cooked
    Texts = {Blank, draftA, cooked}
    Cookings <- MCCookings
    Reasons = {w1, w2}
    None = None
    Partial = Partial
    MaxRevision = 2
    MaxCrashes = 1
SYMMETRY CallSymmetry
CHECK_DEADLOCK FALSE
INVARIANTS
    TypeOK
    DraftFrozen
    OnlyPlannedPackages
    DeliveredIsPlanned
    DraftFilesOutlivePlan
    OutcomeHasPackage
PROPERTIES
    DurablePackageStays
    OpeningReconciles
    RefusalsAreTrue
    FailuresAreReal
    ImplementsLifecycle
