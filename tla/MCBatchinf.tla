----------------------------- MODULE MCBatchinf -----------------------------
(* Instances of Batchinf for TLC.                                          *)
EXTENDS Batchinf, TLC

(* Calls of the same kind are interchangeable (safety runs only).          *)
Symmetry == Permutations(TryCalls) \cup Permutations(Calls \ TryCalls)
=============================================================================
