SPECIFICATION Spec
CONSTANTS
    Claimants = {c1, c2, c3, c4}
    TAKEOVER_TIMEOUT = 3
    SlowestShutdown = 2
    MaxMishaps = 2
    Sweepers = {s1, s2}
    Retention = 1
    MaxWrites = 4
    MaxConsents = 3
    MaxTurns = 1
    Pids = {1, 2, 3, 4}
    Shell = 1
    Programs = {"shell", "claude", "kimi-code"}
    PaneIds = {"p"}
    KimiVariable = {""}
    MaxChanges = 4
    MaxPanes = 2
    Events = {"Stop", "PreToolUse"}
    TheirLines = {"theirs", "another"}
    MaxCommands = 3
    MaxEdits = 2
    Keys = {"k1", "k2"}
    MaxKeyCommands = 3
    MaxKeyEdits = 1
    Launches = {l1, l2}
    Daemons = {"old", "new"}
    Version <- MCVersion
    MaxHookLines = 2
    ClaudePanes <- MCClaudePanes
    MaxDoings = 3
INVARIANTS HandedOver ConsentIsHeard InstallsAreClean
PROPERTIES SweptWasQuiet UsageIsAsked KeyKept OutermostAttached
CHECK_DEADLOCK FALSE
