-------------------------------- MODULE MCChat --------------------------------
(* Values of the constants of ChatController for model checking.            *)
EXTENDS ChatController, TLC

CONSTANTS d1, d2, m1, k1, k2

MCDevices  == {d1, d2}
OneConn    == {k1}
TwoConns   == {k1, k2}
OneMessage == {m1}
Nobody     == {}
OneTypist  == {d1}

ConnSymmetry == Permutations(TwoConns)
=============================================================================
