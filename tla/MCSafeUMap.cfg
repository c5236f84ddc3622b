SPECIFICATION FairSpec
CONSTANTS
    Threads = {t1, t2}
    Keys = {k1, k2}
    Objects = {o1, o2, o3}
    None = None
INVARIANTS TypeOK AliveIsOwned TraversalDestroysNothing
PROPERTIES RefinesMap ReadersReturn
CHECK_DEADLOCK FALSE
