SPECIFICATION Spec
CONSTANTS
    Clients = {c1, c2}
    Bodies = {b0, b1}
    Empty = b0
    None = None
    MaxAttachments = 2
    Offset = 2
    MaxIds = 3
    MaxRevision = 3
    MaxCrashes = 1
CONSTRAINTS OneFileLeft OneReader QuietEnd
SYMMETRY ClientSymmetry
CHECK_DEADLOCK FALSE
INVARIANTS
    TypeOK
    FilesMatchRows
    ReorderingIsSafe
PROPERTIES
    ImplementsSharedDraft
