-------------------------- MODULE MCWebRTCStreamer --------------------------
(* Small instances of WebRTCStreamer.                                        *)
EXTENDS WebRTCStreamer, TLC

Symmetry == Permutations(Ids)
=============================================================================
