SPECIFICATION FairSpec
CONSTANTS
    Threads = {t1, t2, t3, t4}
    Items = {a, b}
    MaxSize = 2
    MaxCalls = 4
    MaxSpurious = 1
    None = None
INVARIANTS TypeOK NoLostWakeup Fifo StopWakesAll
PROPERTIES RefinesFifo
CHECK_DEADLOCK FALSE
