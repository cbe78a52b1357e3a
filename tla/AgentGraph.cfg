\* One invocation followed, one other search, and content changing under both.
SPECIFICATION FairSpec
CONSTANTS
    User = {alice}
    Body = {b1, b2}
    Wordless = {b2}
    Call = {c1, c2}
    Agent = {c1}
    K = 1
    MaxChanges = 2
    MaxSearches = 1
INVARIANTS
    TypeOK
    IndexIsExact
    PoorIsRetriedOnce
    OneQuestionIsAnswered
    FusionIsSound
PROPERTIES
    InvocationEnds
CHECK_DEADLOCK FALSE
