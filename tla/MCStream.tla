------------------------------- MODULE MCStream -------------------------------
(* Values of the constants of FrameStream for model checking: an empty     *)
(* payload and one that is the magic bytes, and MQTT packets whose length   *)
(* takes one, two and three bytes.                                          *)
EXTENDS FrameStream

MCMagic == <<6, 7>>

MCPayloads ==
    [k \in Kinds |-> IF k = "broker" THEN {<<>>, <<1, 2>>, <<3, 2, 3, 2>>}
                                     ELSE {<<>>, <<6, 7>>}]
=============================================================================
