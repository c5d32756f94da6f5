------------------------- MODULE MCProjectorRuntime -------------------------
(* Small instances of ProjectorRuntime for TLC.  Its runs check liveness, so  *)
(* they take no symmetry.                                                     *)
EXTENDS ProjectorInv, TLC

=============================================================================
