SPECIFICATION FairSpec
CONSTANTS
    a = a
    b = b
    c1 = c1
    c2 = c2
    StepIds = {a, b}
    Gates = {a}
    Clients = {c1, c2}
    Starters = {c1}
    MaxExecutions = 2
    MaxPauses = 2
    Scopes <- MCScopes
    None = None
INVARIANTS
    TypeOK
    FieldsTellTheTruth
    AnswerReachable
PROPERTIES
    NoStaleResume
    ReaderReturns
    CancelEnds
CHECK_DEADLOCK FALSE
