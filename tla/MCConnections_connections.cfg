SPECIFICATION Spec
CONSTANTS
    Node = {n1, n2}
    NoNode = NoNode
    a1 = a1
    a2 = a2
    Addr <- MCAddrs
    Name = {seed}
    addressOf <- MCAddressOf
    Opener = {opencon}
    nMaxOutbound = 1
    nMaxInbound = 1
INVARIANTS
    NodesSurviveUse
    OutboundWithinLimit
PROPERTIES
    InboundDeleted
