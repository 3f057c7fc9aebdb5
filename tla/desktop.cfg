SPECIFICATION MCSpec
CONSTANTS
    gadu = gadu
    jabber = jabber
    protocols = protocols
    gui = gui
    perl = perl
    NoKey = NoKey
    Protocols = protocols
    Tables = {gadu}
    Keys = {k1, k2}
    Callbacks <- MCCallbacks
    Reentrant = {perl}
    Requests <- MCRequests
    KeyRequests <- MCKeyRequests
    MaxDepth = 3
    anna = anna
    bob = bob
    carol = carol
    Sessions = {1, 2, 3}
    Chats = {1, 2}
    MaxCalls = 2
    MaxChatCalls = 2
    ChatProtocols <- ProtocolPlugins
    Messages <- MCMessages
    MaxWaiting = 1
    Sources = {1}
    MaxPages = 2
    Networks <- ProtocolPlugins
    Contacts <- MCContacts
    Of <- MCOf
    Configs <- MCConfigs
CHECK_DEADLOCK FALSE
INVARIANTS
    EveryoneTold
    ChatsOwned
    UnreadAnnounced
    ViewFollows
    BlinkersKnown
PROPERTIES
    CalledOnce
    AllProtocolsVisited
