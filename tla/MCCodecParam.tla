---------------------------- MODULE MCCodecParam ----------------------------
(* Small instances of CodecParam: settings with a rate that is taken over    *)
(* and settings without, in turns.                                           *)
EXTENDS CodecParam

OddSettings == {k \in 1 .. MaxSetting : k % 2 = 1}
=============================================================================
