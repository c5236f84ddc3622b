SPECIFICATION Spec
CONSTANTS
    Transports = {n1, n2}
    None = None
    TimerCap = 1
    Events = {"expiry", "message", "termination"}
SYMMETRY Symmetry
INVARIANTS TypeOK FirstOpenSucceeds ReopeningIsInHand
CHECK_DEADLOCK FALSE
