CONSTANTS
    Behaviour = Behaviour
    NoInfo = NoInfo
    p1 = p1
    c1 = c1
    c2 = c2
    r1 = r1
    s1 = s1
    s2 = s2
    Peer = {p1}
    Conn = {c1, c2}
    ConnPeer <- MCConnPeer
    Substream = {s1, s2}
    AppId = {r1}
    InboundProtocols = {"Ping", "MetaData", "Goodbye", "Status"}
    PeerManagerEvents = {"Dial", "SocketUpdated", "Status", "Ping", "MetaData", "DisconnectPeer"}
    GossipsubEvents = {"Message", "NotifyHandler"}
    IdentifyEvents = {"Received", "NotifyHandler"}
    AddrCounts = {11}
    MAX_IDENTIFY_ADDRESSES = 10
    MaxInputs = 3

SPECIFICATION Spec
INVARIANT DisconnectQueueNoDup
CHECK_DEADLOCK FALSE
