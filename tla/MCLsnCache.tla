----------------------------- MODULE MCLsnCache -----------------------------
(* Small instances of LsnCache for TLC.                                    *)
EXTENDS LsnCache, TLC

WorkerSymmetry == Permutations(Workers)
=============================================================================
