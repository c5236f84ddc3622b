SPECIFICATION Spec
CONSTANTS
    Ids = {p, q}
    QueueCap = 2
    MaxRequests = 3
    MaxDrops = 0
    MaxLosses = 1
    MaxStrays = 0
    NoClient = NoClient
SYMMETRY Symmetry
INVARIANTS TypeOK RegistryIsLive NoLostDisconnect HandshakeGoesOn FirstClientPersists  CleanShutdown OnlyQueueDeadlock
CHECK_DEADLOCK FALSE
