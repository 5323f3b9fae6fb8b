SPECIFICATION FairSpec
CONSTANTS
    r1 = r1
    r2 = r2
    a = a
    Runs = {r1, r2}
    Streaming = {r1}
    Others = {a}
    Cap = 1
    Scenarios <- MCScenarios
    None = None
INVARIANTS
    TypeOK
    ResultIsOwn
PROPERTIES
    RunsEnd
CHECK_DEADLOCK FALSE
