SPECIFICATION Spec
CONSTANTS
    Conns = {w1, w2, w3, w4}
    Ids = {server, peer}
    None = None
SYMMETRY Symmetry
INVARIANTS TypeOK LatestOpenOwnsId
PROPERTIES WrittenToOwner
CHECK_DEADLOCK FALSE
