\* Two panes and a channel of two updates are what it takes for one update to be
\* lost with others on both sides of it.
SPECIFICATION FairSpec
CONSTANTS
    Panes = {p1, p2}
    Sidebars = {s1}
    Buffer = 2
    WireCap = 2
    InboxBound = 2
    HistoryBound = 5
INVARIANTS ViewIsConsistent SubscribedMeansCurrent
PROPERTIES NeverGoesBack CardFeedSpec Converges WindsDown
CHECK_DEADLOCK FALSE
