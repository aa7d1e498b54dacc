SPECIFICATION FairSpec
INVARIANTS
    RestIsWhole
PROPERTIES
    OneWatcher
    Settles
CONSTANTS
    Sessions = {sa, sb, unknown}
    Adopted = {sa, sb}
    None = None
    CallbackJoined = FALSE
