---------------------------- MODULE MCRunRegistry ----------------------------
(* A small registry: two threads that register, one client that subscribes.  *)
EXTENDS RunRegistry, TLC

Symmetry == Permutations(Callers)
=============================================================================
