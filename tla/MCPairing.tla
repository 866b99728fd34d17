------------------------------ MODULE MCPairing ------------------------------
(* Values of the constants of PairingSession for model checking.           *)
EXTENDS PairingSession, TLC

CONSTANTS d1, d2, k1, k2, k3, k4, good, typo

MCDevices   == {d1, d2}
ThreeKeys   == {k1, k2, k3}
FourKeys    == {k1, k2, k3, k4}
MCPasswords == {good, typo}
MCSkew      == [d \in MCDevices |-> IF d = d1 THEN 0 ELSE 1]

Symmetry == Permutations(ThreeKeys)
=============================================================================
