SPECIFICATION Spec
CONSTANTS
    WatchIds = {1, 2, 3}
    Hangups = TRUE
    MaxPings = 2
    MaxDepth = 4
CHECK_DEADLOCK FALSE
INVARIANT SessionWatched
PROPERTY RetriesEnd
