CONSTANTS
    d1 = d1
    d2 = d2
    d3 = d3
    k1 = k1
    k2 = k2
    Devices <- MCDevices
    Conns <- MCConns
    MaxConnections = 1
    NoDevice = NoDevice
    NoConn = NoConn
    Payload = Payload
    MaxInFlight = 1
SYMMETRY Symmetry
SPECIFICATION Spec
INVARIANTS
    TypeOK
    StateTellsTheTruth
    ConnectedToTheLastPeerAsked
    ServerCapacity
CHECK_DEADLOCK FALSE
