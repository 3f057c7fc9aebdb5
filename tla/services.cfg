SPECIFICATION MCSpec
CONSTANTS
    Accounts <- MCAccounts
    StatusList <- MCStatusList
    OnlineStatus <- MCOnlineStatus
    AwayStatus <- MCAwayStatus
    Moods = {"available", "away"}
    Available = "available"
    TlenSources = {1, 2, 3}
    MaxNested = 2
    People = {ann, ben}
    Restless = {ann}
    MaxStanzas = 2
    MaxQueue = 2
    MaxRemovals = 1
    Tlenites = {tom}
    MaxEntries = 2
    MaxUnderWay = 3
    MaxSearches = 2
CHECK_DEADLOCK FALSE
INVARIANTS
    AnswersMatch
    RosterShown
    MoodAsAsked
    SessionPolled
    ContactsTold
    ResultsFit
    ChoiceKept
