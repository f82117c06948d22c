SPECIFICATION Spec
CONSTANTS
    Node = {n1, n2}
    NoNode = NoNode
    a1 = a1
    a2 = a2
    Addr <- MCAddr
    Name = {seed}
    addressOf <- MCAddressOf
    Opener = {opencon, addcon}
    nMaxOutbound = 2
    nMaxInbound = 1
SYMMETRY Alike
INVARIANTS
    GrantsConserved
