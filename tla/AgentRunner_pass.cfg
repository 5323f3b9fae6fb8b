SPECIFICATION FairSpec
CONSTANTS
    MaxCalls = 2
    Sizes = {1, 2}
    s1 = s1
    Skills = {s1}
    Scenarios <- MCScenarios
    MaxTurns = 2
    MaxRetries = 1
    FetchLimit = 5
    MinFetch = 4
    LookAhead = 2
    Budget = 4
    Window = 7
    SystemTokens = 1
    SummaryTokens = 1
    SkillTokens = 3
    MaxPassed = 3
    MaxFaults = 1
    MaxHistory = 2
INVARIANTS
    TypeOK
    NothingForgotten
    RequestSound
PROPERTIES
    RunsEnd
CHECK_DEADLOCK FALSE
