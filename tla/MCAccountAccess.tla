-------------------------- MODULE MCAccountAccess --------------------------
(* Instances of AccountAccess for TLC.                                     *)
EXTENDS AccountAccess, TLC

Symmetry == Permutations(Ops) \cup Permutations(Accounts)
=============================================================================
