-------------------------- MODULE MCSignalingSocket --------------------------
(* TLC instances of SignalingSocket: the transports are interchangeable     *)
(* model values.                                                            *)
EXTENDS SignalingSocket, TLC

Symmetry == Permutations(Transports)
=============================================================================
