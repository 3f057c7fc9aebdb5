SPECIFICATION Spec
CONSTANTS
    gadu = gadu
    protocols = protocols
    gui = gui
    perl = perl
    NoKey = NoKey
    Protocols = protocols
    Tables = {gadu}
    Keys = {k1, k2}
    Callbacks <- MCCallbacks
    Reentrant = {}
    Requests <- MCNone
    KeyRequests <- MCKeyRequests
    MaxDepth = 3
INVARIANT KeyWatchTold
