SPECIFICATION FairSpec
CONSTANTS
    c1 = c1
    c2 = c2
    Clients = {c1, c2}
    Chatters = {c1}
    MaxRequests = 3
    MaxRuns = 2
    MaxAsks = 1
    Scopes <- MCScopes
INVARIANTS
    TypeOK
    HeldIsListed
    EvictionSparesWork
    Answerable
PROPERTIES
    ChatsEnd
    IdleEvicted
CHECK_DEADLOCK FALSE
