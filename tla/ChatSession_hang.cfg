SPECIFICATION FairSpec
CONSTANTS
    c1 = c1
    c2 = c2
    Clients = {c1}
    Chatters = {c1}
    MaxRequests = 1
    MaxRuns = 1
    MaxAsks = 0
    Scopes <- MCOneChat
PROPERTIES
    ResponseEnds
CHECK_DEADLOCK FALSE
