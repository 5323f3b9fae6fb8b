\* The promise of RemoveTopic that no send reaches a closed channel.
SPECIFICATION Spec
CONSTANTS
    p1 = p1
    s1 = s1
    s2 = s2
    r1 = r1
    Publishers = {p1}
    Subscriptions = {s1, s2}
    Removers = {r1}
    ChanCap = 2
    MaxHistory = 2
    MaxEvents = 3
    MaxTopics = 2
    None = None
INVARIANT
    NoSendOnClosed
CHECK_DEADLOCK FALSE
