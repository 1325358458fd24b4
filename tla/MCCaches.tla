------------------------------ MODULE MCCaches ------------------------------
(* Replicas, writers and clients are model values of their own.            *)
EXTENDS Caches, TLC

Symmetry == Permutations(Replicas) \cup Permutations(Writers)
=============================================================================
