-------------------------- MODULE MCCapitalDispatch --------------------------
(* CapitalDispatch on a small instance. *)
EXTENDS CapitalDispatch, TLC

Symmetry == Permutations(Ids) \union Permutations(Workers)
=============================================================================
