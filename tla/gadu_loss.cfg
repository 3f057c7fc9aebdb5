SPECIFICATION Spec
CONSTANTS
    WatchIds = {1, 2, 3}
    Hangups = FALSE
    MaxPings = 2
    MaxDepth = 4
CHECK_DEADLOCK FALSE
INVARIANT LossIsDisconnection
