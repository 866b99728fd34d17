\* The disk may fail to write a chunk.
CONSTANTS
    d1 = d1
    d2 = d2
    k1 = k1
    k2 = k2
    t1 = t1
    NoDevice = NoDevice
    NoConn = NoConn
    NoFile = NoFile
    Transfers <- OneTransfer
    Senders <- OnlyD1
    Devices <- TwoDevices
    Conns <- OneConn
    Sizes <- TwoChunks
    Dialers <- TwoDevices
    Servers <- TwoDevices
    Faults <- WriteFaults
    MaxConnections = 1
    MaxInFlight = 2
SPECIFICATION Spec
INVARIANTS
    DownloadIsIntact
CHECK_DEADLOCK FALSE
