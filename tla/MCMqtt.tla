-------------------------------- MODULE MCMqtt --------------------------------
(* Values of the constants of MqttSignaling for model checking.            *)
EXTENDS MqttSignaling

CONSTANTS k1, k2

MCConns == {k1, k2}
=============================================================================
