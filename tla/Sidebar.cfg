SPECIFICATION Spec
CONSTANTS
    Cards = {c1, c2}
    NoCard = NoCard
    Calls = {a, b}
    NoCall = NoCall
    RingLimit = 2
    Body = 4
    TraceLines = 1
    Heights = {4, 9}
    MaxUpdates = 4
    Settings = {"interval_ms"}
    Rungs = {1, 2}
    MaxEdits = 1
    MaxAsked = 2
    Tags <- MCTags
    Updaters = {"s", "cli"}
    ShownIds <- MCShownIds
    Widths = {34, 36, 39, 40, 44, 51, 60}
    TextCells = {2, 8, 24, 60}
    Counts = {0, 1, 3, 999, 10000, 1234567}
    Percents = {0, 9, 50, 100, 140}
INVARIANTS FocusIsShown PanelsAreTrue DrawnRight
PROPERTIES OthersEditsKept PanelsSettle
CHECK_DEADLOCK FALSE
