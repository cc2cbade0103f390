SPECIFICATION FairSpec
CONSTANTS
    Requests = {r1}
    Waiters = {w1, w2}
    Enders = {desktop, http}
    Approvals = {desktop}
    Droppable = {http}
    None = None
CHECK_DEADLOCK FALSE
PROPERTIES
    WaitersReleased
