-------------------------------- MODULE MCFile --------------------------------
(* Values of the constants of FileTransferController for model checking.    *)
EXTENDS FileTransferController, TLC

CONSTANTS d1, d2, k1, k2, t1

TwoDevices   == {d1, d2}
OnlyD1       == {d1}
OneConn      == {k1}
TwoConns     == {k1, k2}
OneTransfer  == {t1}
TwoChunks    == {2}
TwoOrNone    == {0, 2}

NoFaults     == {}
RenameFaults == {"rename"}
ReadFaults   == {"source", "open", "rename"}
WriteFaults  == {"write"}

ConnSymmetry == Permutations(TwoConns)
=============================================================================
