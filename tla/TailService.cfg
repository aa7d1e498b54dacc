\* Five characters against a cap of two, in chunks of up to three, put lines shorter,
\* as long as and longer than the cap across every chunk boundary, with other lines
\* before and behind them.
SPECIFICATION FairSpec
CONSTANTS
    MaxPartial = 2
    Chunk = 3
    FileBound = 5
INVARIANTS Framing LiveIsNew
PROPERTIES Unblocks
CHECK_DEADLOCK FALSE
