SPECIFICATION Spec
INVARIANT NoZombie
CONSTANTS
    Paths = {pa, pb}
    MaxHandles = 2
CHECK_DEADLOCK FALSE
