CONSTANTS
    p1 = p1
    p2 = p2
    m1 = m1
    m2 = m2
    m3 = m3
    t1 = t1
    Peer = {p1}
    MsgId = {m1, m2, m3}
    SEEN_CAP = 2
    MaxInputs = 5
    Topic = {t1}
    MaxTopics = 1
    MaxSends = 1
    MaxSwarmErrors = 1
SPECIFICATION Spec
INVARIANT ForwardedIffFresh
CHECK_DEADLOCK FALSE
