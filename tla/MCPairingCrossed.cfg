\* Two initiations that cross.
CONSTANTS
    d1 = d1
    d2 = d2
    k1 = k1
    k2 = k2
    k3 = k3
    k4 = k4
    good = good
    typo = typo
    Devices <- MCDevices
    Keys <- FourKeys
    Passwords <- MCPasswords
    Skew <- MCSkew
    Window = 1
    MaxTime = 1
    NoKey = NoKey
    NoResult = NoResult
SPECIFICATION Spec
INVARIANTS
    SecretsAgree
CHECK_DEADLOCK FALSE
