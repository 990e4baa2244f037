-------------------------- MODULE MCServerLifetime --------------------------
(* Small instances of ServerLifetime for TLC.                              *)
EXTENDS ServerLifetime, TLC

WorkerSymmetry == Permutations(Workers)
=============================================================================
