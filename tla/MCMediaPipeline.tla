-------------------------- MODULE MCMediaPipeline --------------------------
(* Small instances of MediaPipeline.                                        *)
EXTENDS MediaPipeline, TLC

Symmetry == Permutations(Ids)
=============================================================================
