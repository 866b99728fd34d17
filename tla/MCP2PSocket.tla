----------------------------- MODULE MCP2PSocket -----------------------------
(* Three devices and two connections: enough for a dial to another peer     *)
(* while an earlier one is pending, and for two clients of one server.      *)
EXTENDS P2PSocketSystem, TLC

CONSTANTS d1, d2, d3, k1, k2

MCDevices == {d1, d2, d3}
MCConns   == {k1, k2}

Symmetry == Permutations(MCDevices) \cup Permutations(MCConns)
=============================================================================
