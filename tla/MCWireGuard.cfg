CONSTANTS
    n1 = n1
    n2 = n2
    a1 = a1
    a2 = a2
    p1 = p1
    p2 = p2
    i1 = i1
    i2 = i2
    Names <- MCNames
    Default = n1
    Addresses <- MCAddresses
    Peers <- MCPeers
    Ips <- MCIps
    NoPeer = NoPeer
    NoIp = NoIp
SPECIFICATION Spec
SYMMETRY Symmetry
INVARIANTS
    UpIsUp
    PeersAreConfigured
PROPERTIES
    OthersAreKept
