CONSTANTS
    blocks = blocks
    attestations = attestations
    m1 = m1
    p1 = p1
    Kind = {blocks, attestations}
    MsgId = {m1}
    Peer = {p1}
    MaxCalls = 5
SPECIFICATION Spec
INVARIANT SubscriptionsMirrored
CHECK_DEADLOCK FALSE
