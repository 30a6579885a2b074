------------------------------ MODULE MCDevice ------------------------------
(* Device with threads that are model values.                              *)
EXTENDS DeviceRefinement, TLC

Symmetry == Permutations(Clients)
=============================================================================
