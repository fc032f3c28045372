CONSTANTS
    blocks = blocks
    attestations = attestations
    d0 = d0
    d1 = d1
    Kind = {blocks, attestations}
    Digest = {d0, d1}
    InitialDigest = d0
    MaxCalls = 5
SPECIFICATION Spec
INVARIANT TypeOK SubscriptionsMirrored
PROPERTY ForkUpdateKeepsKinds
CHECK_DEADLOCK FALSE
