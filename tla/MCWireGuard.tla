------------------------------ MODULE MCWireGuard ------------------------------
(* Values of the constants of WireGuardService for model checking.         *)
EXTENDS WireGuardService, TLC

CONSTANTS n1, n2, a1, a2, p1, p2, i1, i2

MCNames     == {n1, n2}
MCAddresses == {a1, a2}
MCPeers     == {p1, p2}
MCIps       == {i1, i2}

Symmetry == Permutations(MCPeers) \cup Permutations(MCIps) \cup Permutations(MCAddresses)
=============================================================================
