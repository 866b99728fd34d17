\* One message between two devices that may both dial: two connections.
CONSTANTS
    d1 = d1
    d2 = d2
    m1 = m1
    k1 = k1
    k2 = k2
    Devices <- MCDevices
    Conns <- TwoConns
    Messages <- OneMessage
    Typists <- Nobody
    Servers <- MCDevices
    MaxConnections = 1
    MaxInFlight = 2
    ShowBound = 2
    NoDevice = NoDevice
    NoConn = NoConn
    NoMessage = NoMessage
SYMMETRY ConnSymmetry
SPECIFICATION Spec
INVARIANTS
    TypeOK
    TimersMatchUndecided
    DeliveredWasShown
    PendingIsStranded
    ShownOncePerWindow
PROPERTIES
    ImplementsDelivery
CHECK_DEADLOCK FALSE
