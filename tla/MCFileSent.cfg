\* No faults at all: what the sender reports.
CONSTANTS
    d1 = d1
    d2 = d2
    k1 = k1
    k2 = k2
    t1 = t1
    NoDevice = NoDevice
    NoConn = NoConn
    NoFile = NoFile
    Transfers <- OneTransfer
    Senders <- OnlyD1
    Devices <- TwoDevices
    Conns <- OneConn
    Sizes <- TwoChunks
    Dialers <- TwoDevices
    Servers <- TwoDevices
    Faults <- NoFaults
    MaxConnections = 1
    MaxInFlight = 2
SPECIFICATION Spec
INVARIANTS
    SentIsVerified
CHECK_DEADLOCK FALSE
