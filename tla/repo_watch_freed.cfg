SPECIFICATION Spec
CONSTANTS
    gadu = gadu
    protocols = protocols
    gui = gui
    perl = perl
    NoKey = NoKey
    Protocols = protocols
    Tables = {gadu}
    Keys = {k1, k2}
    Callbacks <- MCCallbacks
    Reentrant = {}
    Requests <- MCRepoRequests
    KeyRequests <- MCNone
    MaxDepth = 3
INVARIANT RepoWatchKept
