-------------------------- MODULE MCProcessStores --------------------------
(* Instances of ProcessStores for TLC. *)
EXTENDS ProcessStores, TLC

Symmetry == Permutations(Stores)
=============================================================================
