------------------------ MODULE MCRuntimeCoordinator ------------------------
(* RuntimeCoordinator for TLC.                                             *)
EXTENDS RuntimeCoordinator, TLC

Symmetry == Permutations(Tasks)
=============================================================================
