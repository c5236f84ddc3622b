SPECIFICATION Spec
CONSTANTS
    Conns = {w1, w2, w3}
    Ids = {server, peer}
    None = None
INVARIANTS SenderIdReplaced
CHECK_DEADLOCK FALSE
