SPECIFICATION MCSpec
CONSTANTS
    Fds = {1, 2, 3}
    MaxOthers = 1
    Statuses = {"invisible"}
    SourceIds = {1, 2, 3}
    Tries = 2
    Proxies = {FALSE, TRUE}
    Header = 2
    Limit = 3
    Lengths = {0, 2, 4}
    MaxPackets = 3
    Contacts = {anna, bob, cyd}
    NotifyPart = 1
    ListPart = 1
    ImportLines = 2
    MaxSent = 2
    MaxAnswers = 1
    MaxLists = 2
    MaxDialogs = 2
    MaxAdding = 1
SYMMETRY MCSymmetry
CHECK_DEADLOCK FALSE
INVARIANTS
    DescriptorsKept
    SourceFits
    StatusAsAsked
    PacketsInOrder
    NotifyAgrees
    StatusFollows
PROPERTIES
    DescriptorsAccounted
    ImportedWhole
