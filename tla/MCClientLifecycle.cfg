SPECIFICATION FairSpec
CONSTANT OutCap = 1
INVARIANTS TypeOK ClosedIsQuiet UnansweredIsSafe NothingAfterClosed
PROPERTIES  LostIsTold
CHECK_DEADLOCK FALSE
