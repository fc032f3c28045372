CONSTANTS
    p1 = p1
    p2 = p2
    m1 = m1
    m2 = m2
    m3 = m3
    t1 = t1
    Peer = {p1}
    MsgId = {m1, m2}
    SEEN_CAP = 1
    MaxInputs = 3
    Topic = {t1}
    MaxTopics = 2
    MaxSends = 2
    MaxSwarmErrors = 0
SPECIFICATION Spec

PROPERTY ForwarderRefined EventsPolled
CHECK_DEADLOCK FALSE
