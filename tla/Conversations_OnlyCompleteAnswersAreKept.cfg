\* A synthesis that fails half way, and what of it is stored.
SPECIFICATION FairSpec
CONSTANTS
    Tab = {t1}
    NumRequests = 2
    NumSessions = 2
    Window = 2
    Limit = 3
    Reloaded = {t1}
    MaxTokens = 1
    MaxFaults = 1
PROPERTIES
    OnlyCompleteAnswersAreKept
CHECK_DEADLOCK FALSE
