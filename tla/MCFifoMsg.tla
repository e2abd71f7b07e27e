----------------------------- MODULE MCFifoMsg -----------------------------
(* Small instances of FifoMsg: a pipe that holds three messages, so that it  *)
(* fills, and requests enough for reads to stop at every kind of offset.     *)
EXTENDS FifoMsg

ThreeMessages == 3 * MsgSize
=============================================================================
