CONSTANTS
    Providers = {"claude", "hooks", "codex", "kimi", "opencode"}
    Lines <- MCLines
    Nonces = {"n1"}
    Seed = "d0"
    MaxLines = 3
    MaxTails = 2
    RecentLimit = 1
    RingLimit = 1
SPECIFICATION Spec
INVARIANTS ReplayEqualsLive OnceOnly RecoveryAgrees
CHECK_DEADLOCK FALSE
