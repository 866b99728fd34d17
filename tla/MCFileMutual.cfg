\* Two connections, so that everything arrives twice; files may fail.
CONSTANTS
    d1 = d1
    d2 = d2
    k1 = k1
    k2 = k2
    t1 = t1
    NoDevice = NoDevice
    NoConn = NoConn
    NoFile = NoFile
    Transfers <- OneTransfer
    Senders <- OnlyD1
    Devices <- TwoDevices
    Conns <- TwoConns
    Sizes <- TwoOrNone
    Dialers <- TwoDevices
    Servers <- TwoDevices
    Faults <- ReadFaults
    MaxConnections = 1
    MaxInFlight = 1
SYMMETRY ConnSymmetry
SPECIFICATION Spec
INVARIANTS
    TypeOK
    DownloadIsIntact
    OnlyAcceptedIsStreamed
CHECK_DEADLOCK FALSE
