\* Two tabs of one user, two questions, one "New chat".
SPECIFICATION FairSpec
CONSTANTS
    Tab = {t1, t2}
    NumRequests = 2
    NumSessions = 2
    Window = 3
    Limit = 3
    Reloaded = {t1}
    MaxTokens = 1
    MaxFaults = 1
INVARIANTS
    TypeOK
    QuestionSurvives
    ShownIsSent
    NothingStaysPending
    ShownIsKept
    FollowUpSeesTheAnswer
PROPERTIES
    AskedIsSettled
CHECK_DEADLOCK FALSE
