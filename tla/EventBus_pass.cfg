\* Two readers, a publisher and a remover over two incarnations of the topic.
SPECIFICATION FairSpec
CONSTANTS
    p1 = p1
    s1 = s1
    s2 = s2
    r1 = r1
    Publishers = {p1}
    Subscriptions = {s1, s2}
    Removers = {r1}
    ChanCap = 1
    MaxHistory = 1
    MaxEvents = 2
    MaxTopics = 2
    None = None
INVARIANTS
    TypeOK
    CloseOnce
    InOrder
    ShortStreamComplete
PROPERTY
    EofAfterRemove
CHECK_DEADLOCK FALSE
