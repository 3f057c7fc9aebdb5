SPECIFICATION MCSpec
CONSTANTS
    Numbers = {"50"}
    Network <- MCNetwork
    MaxMessages = 2
    MaxForms = 1
    Tries = 2
CHECK_DEADLOCK FALSE
INVARIANTS
    SentAsTitled
    AnswerFits
