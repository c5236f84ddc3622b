SPECIFICATION FairSpec
CONSTANTS
    Ids = {p, q}
    QueueCap = 2
    MaxRequests = 2
    MaxDrops = 0
    MaxLosses = 1
    MaxStrays = 0
    NoClient = NoClient
PROPERTIES DisconnectRemoves
CHECK_DEADLOCK FALSE
