SPECIFICATION Spec
CONSTANTS
    Starts = {t1, t2}
    Requests = {r1, r2}
    MaxSessions = 2
    MaxFrames = 2
    None = None
SYMMETRY CaptureSymmetry
CONSTRAINT OneMishap
CHECK_DEADLOCK FALSE
INVARIANTS
    TypeOK
    NeverStranded
    ConsoleComesBack
    ReachesItsRequest
