SPECIFICATION FairSpec
CONSTANTS
    ann = ann
    bob = bob
    ext = ext
    c1 = c1
    c2 = c2
    o1 = o1
    o2 = o2
    Agents = {ann, bob, ext}
    External = {ext}
    Scenarios <- MCScenarios
    Changing = {bob}
    Chats = {c1, c2}
    Admins = {o1, o2}
    MaxHandoffs = 4
    Window = 3
    None = None
INVARIANTS
    TypeOK
    LoopStops
    MembershipAgrees
PROPERTIES
    QuestionSeen
    ChatsEnd
CHECK_DEADLOCK FALSE
