SPECIFICATION FairSpec
CONSTANTS
    Ids = {p}
    QueueCap = 1
    MaxRequests = 2
    MaxDrops = 1
    MaxLosses = 0
    MaxStrays = 1
    NoClient = NoClient
INVARIANT SendFailsAfterClosure
PROPERTIES RemovedUnlessDeadlocked OfferReachesPeer ShutdownEnds
CHECK_DEADLOCK FALSE
