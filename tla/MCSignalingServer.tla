------------------------- MODULE MCSignalingServer -------------------------
(* Small instances of SignalingServer.                                      *)
EXTENDS SignalingServer, TLC

Symmetry == Permutations(Conns) \cup Permutations(Ids)
=============================================================================
