\* One connection at a time, fair timers and frames.
CONSTANTS
    d1 = d1
    d2 = d2
    m1 = m1
    k1 = k1
    k2 = k2
    Devices <- MCDevices
    Conns <- OneConn
    Messages <- OneMessage
    Typists <- OneTypist
    Servers <- MCDevices
    MaxConnections = 1
    MaxInFlight = 2
    ShowBound = 2
    NoDevice = NoDevice
    NoConn = NoConn
    NoMessage = NoMessage
SPECIFICATION FairSpec
INVARIANTS
    TypingNeedsConnection
PROPERTIES
    ReadIsFinal
    EveryMessageIsDecided
    TypingEnds
    SentIsDelivered
CHECK_DEADLOCK FALSE
