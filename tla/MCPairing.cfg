\* Three key pairs, time beyond the window.
CONSTANTS
    d1 = d1
    d2 = d2
    k1 = k1
    k2 = k2
    k3 = k3
    k4 = k4
    good = good
    typo = typo
    Devices <- MCDevices
    Keys <- ThreeKeys
    Passwords <- MCPasswords
    Skew <- MCSkew
    Window = 1
    MaxTime = 4
    NoKey = NoKey
    NoResult = NoResult
SYMMETRY Symmetry
SPECIFICATION Spec
INVARIANTS
    NothingIsReplayed
    PairedWasAgreed
PROPERTIES
    PairingIsRecent
CHECK_DEADLOCK FALSE
