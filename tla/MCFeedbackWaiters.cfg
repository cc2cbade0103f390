SPECIFICATION FairSpec
CONSTANTS
    Requests = {r1, r2}
    Waiters = {w1, w2}
    Enders = {desktop, http, retry}
    Approvals = {desktop, http}
    Droppable = {http, retry}
    None = None
CHECK_DEADLOCK FALSE
INVARIANTS
    TypeOK
    NoLostWakeup
PROPERTIES
    WaitersReleasedUnlessUntold
