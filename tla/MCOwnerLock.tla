---------------------------- MODULE MCOwnerLock ----------------------------
(* Small instances of OwnerLock for TLC: two handles share a process. *)
EXTENDS OwnerLock, TLC

CONSTANTS a, b, c, p, q

TwoProcesses == (a :> p) @@ (b :> p) @@ (c :> q)
=============================================================================
