\* A connection in use and one the client has left.
CONSTANTS
    k1 = k1
    k2 = k2
    Conns <- MCConns
    NoConn = NoConn
    MaxInFlight = 1
SPECIFICATION FairSpec
INVARIANTS
    TypeOK
    ReadyIsUndisturbed
    WantedIsPursued
    GoneIsOffline
    ViewIsCurrent
PROPERTIES
    NoReturn
    LostSessionReturns
    DeadSessionIsNoticed
