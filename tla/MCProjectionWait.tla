-------------------------- MODULE MCProjectionWait --------------------------
(* Small instances of ProjectionWait for TLC.  Its runs check liveness, so    *)
(* they take no symmetry.                                                     *)
EXTENDS ProjectionWait, TLC
=============================================================================
