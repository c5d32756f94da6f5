---------------------------- MODULE MCKiloStore ----------------------------
(* Small instances of KiloStore for TLC. *)
EXTENDS KiloStoreInv, TLC

\* Mutations with a key and without one are told apart; two of a kind are not.
Symmetric == Permutations(Mutations \ (Keyed \union Oversized)) \union Permutations(Snapshotters)
=============================================================================
