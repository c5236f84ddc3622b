SPECIFICATION Spec
CONSTANTS
    Ids = {p}
    QueueCap = 6
    MaxRequests = 2
    MaxDrops = 0
    MaxLosses = 1
    MaxStrays = 0
    NoClient = NoClient
INVARIANTS ClientPersists
CHECK_DEADLOCK FALSE
