SPECIFICATION Spec
CONSTANT OutCap = 1
INVARIANT OwnCallbackSafe
CHECK_DEADLOCK FALSE
