SPECIFICATION Spec
CONSTANTS
    Files = {f1, f2}
    Hashed = {f1}
    HasArchive = TRUE
    Sources = 2
    Full = 2
    Archive = archive
    None = None
    MaxMishaps = 1
CHECK_DEADLOCK FALSE
INVARIANTS
    TypeOK
    InstalledIsGenuine
PROPERTIES
    DownloadRecovers
