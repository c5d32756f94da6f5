--------------------------- MODULE MCVectorSearch ---------------------------
(* Small instances of VectorSearch for TLC. *)
EXTENDS VectorSearch, TLC

Symmetric == Permutations(Nodes)
=============================================================================
