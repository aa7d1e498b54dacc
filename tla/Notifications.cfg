SPECIFICATION Spec
CONSTANTS
    Panes = {p1, p2}
    Providers = {"claude", "codex", "kimi", "opencode"}
    Types <- MCTypes
    QueueLimit = 1
    RecentKeys = 1
    MaxLines <- MCMaxLines
    MaxTurns = 2
    MaxBinds <- MCMaxBinds
INVARIANTS ToldRight ServedWhileBound
PROPERTIES EveryLineRead
CHECK_DEADLOCK FALSE
