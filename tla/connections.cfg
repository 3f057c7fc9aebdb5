SPECIFICATION MCSpec
CONSTANTS
    first = first
    second = second
    third = third
    Transfers = {first, second, third}
    Size <- MCSize
    Chunk = 2
    Exits = {"send"}
    Fds = {1, 2, 3}
    MaxOthers = 0
    SourceIds = {1, 2}
    Tries = 2
    Proxies = {FALSE, TRUE}
    Conns = {1, 2}
    MaxLogins = 1
    MaxActions = 1
    Wanted = {"available"}
    MaxRetries = 1
CHECK_DEADLOCK FALSE
INVARIANTS
    GotPrefix
    BothToldComplete
    HandlersFollow
    StatusBacked
PROPERTIES
    LoneTransferSucceeds
    LoginEnds
    ReconnectsEnd
    AskedIsSet
