---------------------------- MODULE MCParamPath ----------------------------
(* Small instances of ParamPath: a pipe of three messages, and in turns      *)
(* settings whose rate is taken over and settings whose rate is not.         *)
EXTENDS ParamPath

ThreeMessages == 3 * 1028
OddSettings == {k \in 1 .. MaxSent : k % 2 = 1}
=============================================================================
