---------------------------- MODULE MCLifecycle ----------------------------
(* Small instances of Lifecycle.                                           *)
EXTENDS Lifecycle, TLC

RequestSymmetry == Permutations(Requests)
=============================================================================
