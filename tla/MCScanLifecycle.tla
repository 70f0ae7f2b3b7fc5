-------------------------- MODULE MCScanLifecycle --------------------------
(* Instances of ScanLifecycle for TLC.                                     *)
EXTENDS ScanLifecycle, TLC

Found(assets, relationships, paths, error) ==
    [rows |-> [assets |-> assets, relationships |-> relationships,
               attack_paths |-> paths],
     error |-> error]

(* A clean result and a smaller one found with a collector error.          *)
MCResults == {Found(2, 1, 1, ""), Found(1, 0, 0, "partial")}

Symmetry == Permutations(Scans) \union Permutations(Slots)
=============================================================================
