CONSTANTS
    Magic <- MCMagic
    Base = 8
    Radix = 2
    Payloads <- MCPayloads
    MaxPayload = 2
    MaxBuffer = 12
    MaxQueue = 10
    Room = 4
    MaxRead = 6
    MaxFrames = 3
    MaxDamage = 1
SPECIFICATION Spec
INVARIANTS
    TypeOK
    NoFalseAlarm
    BuffersAreBounded
PROPERTIES
    ImplementsChannel
    AcceptedIsDelivered
