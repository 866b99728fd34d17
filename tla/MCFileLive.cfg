\* One connection at a time; only the rename of a finished file may fail.
CONSTANTS
    d1 = d1
    d2 = d2
    k1 = k1
    k2 = k2
    t1 = t1
    NoDevice = NoDevice
    NoConn = NoConn
    NoFile = NoFile
    Transfers <- OneTransfer
    Senders <- OnlyD1
    Devices <- TwoDevices
    Conns <- OneConn
    Sizes <- TwoChunks
    Dialers <- TwoDevices
    Servers <- TwoDevices
    Faults <- RenameFaults
    MaxConnections = 1
    MaxInFlight = 2
SPECIFICATION FairSpec
INVARIANTS
    TempFileHasOwner
PROPERTIES
    FinalFileStays
    AcceptedTransferSettles
CHECK_DEADLOCK FALSE
