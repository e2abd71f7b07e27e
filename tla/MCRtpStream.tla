---------------------------- MODULE MCRtpStream ----------------------------
(* Small instances of RtpStream: two peers, which are alike.                 *)
EXTENDS RtpStream, TLC

Peers == Permutations(Sources)
=============================================================================
