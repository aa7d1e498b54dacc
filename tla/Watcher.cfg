SPECIFICATION FairSpec
INVARIANTS OneTail NoZombieWhereJoined
PROPERTIES NeverOlder CallCompletes
CONSTANTS
    Paths = {pa, pb}
    MaxHandles = 2
CHECK_DEADLOCK FALSE
